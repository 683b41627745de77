---------------------------- MODULE WorkflowProofs ----------------------------
(***************************************************************************)
(* What holds of a workflow run whatever its steps, their dependencies and *)
(* the bounds: its type, that an attempt of a step is dispatched once,     *)
(* that attempts of a step do not overlap, that new work awaits the        *)
(* decisions of people, that steps keep to the current results and that    *)
(* a failed run leaves no work open.                                       *)
(*                                                                         *)
(* The inductive invariant is Good(db) together with FlightGood.  Almost   *)
(* every operator of Workflow keeps the binding of steps and dispatches    *)
(* (Keeps); only Created adds a row and only Settled releases a step.      *)
(* The results need more, Fine(db, K): every result stands, the steps of K *)
(* use the results that stand, and a dispatch that nobody has reported on  *)
(* keeps its step at work.  All but the steps of K may use earlier ones:   *)
(* a refreshQuality that is cut off leaves some behind.                    *)
(***************************************************************************)
EXTENDS Workflow, SequenceTheorems, WellFoundedInduction, TLAPS

Database == [status: RunStatus, step: [Steps -> Step], dispatch: Seq(Dispatch)]

(* The worker of this dispatch has reported or has stopped. *)
Over(c) == c.revision > 0 \/ c.confirmed

(* A report is counted; a dispatch is given back once. *)
RowGood(c) ==
  /\ c.status = "reported" => c.revision > 0
  /\ c.status \in {"queued", "submitted"} => c.revision <= 1

(* Later dispatches of a step are of later attempts. *)
AttemptsGrow(d) ==
  \A i, j \in 1..Len(d.dispatch) :
    i < j /\ d.dispatch[i].step = d.dispatch[j].step
    => d.dispatch[i].attempt < d.dispatch[j].attempt

(* A dispatch belongs to the current attempt of its step, to which it is   *)
(* bound, or to an earlier one that is over.                               *)
RowBound(d, i) ==
  LET c == d.dispatch[i]
      s == d.step[d.dispatch[i].step]
  IN /\ c.attempt <= s.attempt
     /\ c.attempt = s.attempt => s.dispatch = i
     /\ s.dispatch = i \/ Over(c)

StepBound(d, s) ==
  /\ d.step[s].dispatch \in 0..Len(d.dispatch)
  /\ d.step[s].dispatch # 0 =>
       /\ d.dispatch[d.step[s].dispatch].step = s
       /\ d.dispatch[d.step[s].dispatch].attempt = d.step[s].attempt
  /\ d.step[s].rerunPending => d.step[s].attempt < MaxAttempts

Good(d) ==
  /\ d \in Database
  /\ AttemptsGrow(d)
  /\ \A i \in 1..Len(d.dispatch) : RowGood(d.dispatch[i]) /\ RowBound(d, i)
  /\ \A s \in Steps : StepBound(d, s)

FlightGood(d, f) ==
  /\ f \in Flight
  /\ f.phase \in {"reading", "creating", "starting"} => f.todo # {}
  /\ f.phase = "reading" => \A s \in f.todo : HasDispatch(d, s)

IInv ==
  /\ Good(db) /\ FlightGood(db, flight)
  /\ woken \in BOOLEAN /\ restarts \in 0..MaxRestarts

(* From d to e no dispatch is added and no step is released from its own. *)
RowKeeps(c, b) ==
  /\ b.step = c.step /\ b.attempt = c.attempt
  /\ c.revision <= b.revision /\ (c.confirmed => b.confirmed)

StepKeeps(s, t) ==
  /\ t.attempt = s.attempt /\ t.dispatch = s.dispatch
  /\ t.rerunPending => s.attempt < MaxAttempts

Keeps(d, e) ==
  /\ e \in Database
  /\ Len(e.dispatch) = Len(d.dispatch)
  /\ \A i \in 1..Len(d.dispatch) : RowKeeps(d.dispatch[i], e.dispatch[i]) /\ RowGood(e.dispatch[i])
  /\ \A s \in Steps : StepKeeps(d.step[s], e.step[s])

-----------------------------------------------------------------------------
(* Facts about the data.                                                   *)

(* What the proofs use of the parameters: that dependencies have no cycle   *)
(* is needed for runs to end, not for these properties.                    *)
LEMMA Parameters ==
  /\ Order \in Seq(Steps) /\ IsInjective(Order)
  /\ Needs \in [Steps -> SUBSET Steps]
  /\ Quality \subseteq Steps /\ Rerunnable \subseteq Steps
  /\ Outcomes \subseteq {"success", "failed", "none"}
  /\ Uncertain \subseteq Nat /\ Reopenable \subseteq Nat
  /\ MaxAttempts \in Nat \ {0} /\ MaxCommits \in Nat /\ MaxRestarts \in Nat
  BY WorkflowAssumption

(* The first step of a list is one of it.                                  *)
LEMMA FirstIsOne ==
  ASSUME NEW S \in SUBSET Steps, S # {}
  PROVE  First(S) \in S
  <1> DEFINE T == {i \in DOMAIN Order : Order[i] \in S}
  <1>1. T # {} /\ T \subseteq Nat
    BY Parameters DEF Steps, ToSet
  <1> DEFINE R == {ss \in Nat \X Nat : ss[1] < ss[2]}
  <1>2. IsWellFoundedOn(R, Nat)
    BY NatLessThanWellFounded DEF OpToRel
  <1>3. PICK x \in T : \A y \in T : x =< y
    <2>1. \A x, y \in Nat : y < x => <<y, x>> \in R
      OBVIOUS
    <2> HIDE DEF T, R
    <2>2. PICK x \in T : \A y \in T : ~(<<y, x>> \in R)
      BY <1>1, <1>2, WFMin
    <2>3. ASSUME NEW y \in T PROVE x =< y
      <3>1. x \in Nat /\ y \in Nat
        BY <1>1, <2>2
      <3>2. ~(y < x)
        BY <2>1, <2>2, <3>1
      <3> QED BY <3>1, <3>2
    <2> QED BY <2>3
  <1>4. Min(T) \in T
    <2> HIDE DEF T
    <2> QED BY <1>3 DEF Min
  <1> QED BY <1>4 DEF First

(* Rows that are changed one by one stay a sequence of rows.               *)
LEMMA RowsType ==
  ASSUME NEW q \in Seq(Dispatch), NEW r \in [DOMAIN q -> Dispatch]
  PROVE  r \in Seq(Dispatch) /\ Len(r) = Len(q) /\ DOMAIN r = 1..Len(q)
  <1>1. Len(q) \in Nat /\ DOMAIN q = 1..Len(q)
    BY LenProperties
  <1>2. r \in Seq(Dispatch)
    BY <1>1, SeqDef
  <1> QED BY <1>1, <1>2, LenProperties

LEMMA DatabaseFields ==
  ASSUME NEW d \in Database
  PROVE  /\ d.status \in RunStatus /\ d.step \in [Steps -> Step]
         /\ d.dispatch \in Seq(Dispatch) /\ Len(d.dispatch) \in Nat
         /\ DOMAIN d.dispatch = 1..Len(d.dispatch)
         /\ \A i \in 1..Len(d.dispatch) : d.dispatch[i] \in Dispatch
  <1>1. d.dispatch \in Seq(Dispatch)
    BY DEF Database
  <1> QED BY <1>1, LenProperties, ElementOfSeq DEF Database

LEMMA RowNumbers ==
  ASSUME NEW c \in Dispatch
  PROVE  c.revision \in Nat /\ c.attempt \in Nat /\ c.step \in Steps
  BY DEF Dispatch

LEMMA KeepsGood ==
  ASSUME NEW d, NEW e, Good(d), Keeps(d, e)
  PROVE  Good(e)
  <1>1. d \in Database /\ e \in Database /\ Len(e.dispatch) = Len(d.dispatch)
    BY DEF Good, Keeps
  <1>2. AttemptsGrow(e)
    BY DEF Good, Keeps, AttemptsGrow, RowKeeps
  <1>3. ASSUME NEW i \in 1..Len(e.dispatch) PROVE RowGood(e.dispatch[i]) /\ RowBound(e, i)
    <2>1. RowKeeps(d.dispatch[i], e.dispatch[i]) /\ RowGood(e.dispatch[i])
      BY <1>1, <1>3 DEF Keeps
    <2>2. d.dispatch[i] \in Dispatch /\ e.dispatch[i] \in Dispatch
      BY <1>1, <1>3, DatabaseFields
    <2>3. StepKeeps(d.step[d.dispatch[i].step], e.step[d.dispatch[i].step])
      BY <2>2 DEF Keeps, Dispatch
    <2>4. RowBound(d, i)
      BY <1>1, <1>3 DEF Good
    <2>5. Over(d.dispatch[i]) => Over(e.dispatch[i])
      BY <2>1, <2>2 DEF Over, RowKeeps, Dispatch
    <2> QED BY <2>1, <2>3, <2>4, <2>5 DEF RowKeeps, StepKeeps, RowBound
  <1>4. ASSUME NEW s \in Steps PROVE StepBound(e, s)
    <2>1. StepKeeps(d.step[s], e.step[s]) /\ StepBound(d, s)
      BY <1>4 DEF Keeps, Good
    <2>2. Len(d.dispatch) \in Nat
      BY <1>1, DatabaseFields
    <2>3. d.step[s].dispatch # 0 =>
            RowKeeps(d.dispatch[d.step[s].dispatch], e.dispatch[d.step[s].dispatch])
      BY <2>1, <2>2 DEF StepBound, Keeps
    <2> QED BY <1>1, <2>1, <2>3 DEF StepBound, StepKeeps, RowKeeps
  <1> QED BY <1>1, <1>2, <1>3, <1>4 DEF Good

LEMMA KeepsReflexive ==
  ASSUME NEW d, Good(d)
  PROVE  Keeps(d, d)
  <1>1. d \in Database
    BY DEF Good
  <1>2. \A i \in 1..Len(d.dispatch) : d.dispatch[i].revision \in Nat
    BY <1>1, DatabaseFields, RowNumbers
  <1> QED BY <1>1, <1>2 DEF Good, Keeps, RowKeeps, StepKeeps, StepBound

LEMMA KeepsTransitive ==
  ASSUME NEW d \in Database, NEW e, NEW g, Keeps(d, e), Keeps(e, g)
  PROVE  Keeps(d, g)
  <1>1. e \in Database /\ g \in Database /\ Len(e.dispatch) = Len(d.dispatch)
        /\ Len(g.dispatch) = Len(d.dispatch)
    BY DEF Keeps
  <1>2. ASSUME NEW i \in 1..Len(d.dispatch)
        PROVE  RowKeeps(d.dispatch[i], g.dispatch[i]) /\ RowGood(g.dispatch[i])
    <2>1. /\ RowKeeps(d.dispatch[i], e.dispatch[i])
          /\ RowKeeps(e.dispatch[i], g.dispatch[i]) /\ RowGood(g.dispatch[i])
      BY <1>1, <1>2 DEF Keeps
    <2>2. /\ d.dispatch[i].revision \in Nat /\ e.dispatch[i].revision \in Nat
          /\ g.dispatch[i].revision \in Nat
      BY <1>1, <1>2, DatabaseFields, RowNumbers
    <2> QED BY <2>1, <2>2 DEF RowKeeps
  <1>3. ASSUME NEW s \in Steps PROVE StepKeeps(d.step[s], g.step[s])
    BY <1>3 DEF Keeps, StepKeeps
  <1> QED BY <1>1, <1>2, <1>3 DEF Keeps

-----------------------------------------------------------------------------
(* A change of the run's status, of steps or of rows keeps the bindings.   *)
LEMMA StatusKeeps ==
  ASSUME NEW d, Good(d), NEW x \in RunStatus
  PROVE  Keeps(d, [d EXCEPT !.status = x])
  <1> DEFINE e == [d EXCEPT !.status = x]
  <1>1. e \in Database /\ e.step = d.step /\ e.dispatch = d.dispatch
    BY DEF Good, Database
  <1>2. Keeps(d, d)
    BY KeepsReflexive
  <1> HIDE DEF e
  <1>3. Keeps(d, e)
    BY <1>1, <1>2 DEF Keeps
  <1> QED BY <1>3 DEF e

LEMMA StepsKeep ==
  ASSUME NEW d, Good(d), NEW f \in [Steps -> Step],
         \A s \in Steps : StepKeeps(d.step[s], f[s])
  PROVE  Keeps(d, [d EXCEPT !.step = f])
  <1> DEFINE e == [d EXCEPT !.step = f]
  <1>1. e \in Database /\ e.step = f /\ e.dispatch = d.dispatch
    BY DEF Good, Database
  <1>2. Keeps(d, d)
    BY KeepsReflexive
  <1> HIDE DEF e
  <1>3. Keeps(d, e)
    BY <1>1, <1>2 DEF Keeps
  <1> QED BY <1>3 DEF e

LEMMA RowsKeep ==
  ASSUME NEW d, Good(d), NEW r \in [1..Len(d.dispatch) -> Dispatch],
         \A i \in 1..Len(d.dispatch) : RowKeeps(d.dispatch[i], r[i]) /\ RowGood(r[i])
  PROVE  Keeps(d, [d EXCEPT !.dispatch = r])
  <1> DEFINE e == [d EXCEPT !.dispatch = r]
  <1>1. d \in Database /\ d.dispatch \in Seq(Dispatch) /\ DOMAIN d.dispatch = 1..Len(d.dispatch)
    BY DatabaseFields DEF Good
  <1>2. r \in Seq(Dispatch) /\ Len(r) = Len(d.dispatch)
    BY <1>1, RowsType
  <1>3. e \in Database /\ e.step = d.step /\ e.dispatch = r
    BY <1>1, <1>2 DEF Database
  <1>4. Keeps(d, d)
    BY KeepsReflexive
  <1> HIDE DEF e
  <1>5. Keeps(d, e)
    BY <1>2, <1>3, <1>4 DEF Keeps
  <1> QED BY <1>5 DEF e

(* One row is changed.                                                     *)
LEMMA RowKept ==
  ASSUME NEW d, Good(d), NEW i \in 1..Len(d.dispatch), NEW b \in Dispatch,
         RowKeeps(d.dispatch[i], b), RowGood(b)
  PROVE  Keeps(d, [d EXCEPT !.dispatch[i] = b])
  <1> DEFINE r == [d.dispatch EXCEPT ![i] = b]
  <1>1. d.dispatch \in [1..Len(d.dispatch) -> Dispatch]
    BY DatabaseFields, LenProperties DEF Good
  <1>2. r \in [1..Len(d.dispatch) -> Dispatch]
    BY <1>1
  <1>3. \A j \in 1..Len(d.dispatch) : RowKeeps(d.dispatch[j], d.dispatch[j]) /\ RowGood(d.dispatch[j])
    BY KeepsReflexive DEF Keeps
  <1>4. \A j \in 1..Len(d.dispatch) : RowKeeps(d.dispatch[j], r[j]) /\ RowGood(r[j])
    BY <1>1, <1>3
  <1> HIDE DEF r
  <1>5. Keeps(d, [d EXCEPT !.dispatch = r])
    BY <1>2, <1>4, RowsKeep
  <1> QED BY <1>5 DEF r

LEMMA StepFieldsType ==
  ASSUME NEW t \in Step, NEW x \in StepStatus, NEW r \in Result
  PROVE  /\ [t EXCEPT !.status = x] \in Step
         /\ [t EXCEPT !.status = x, !.result = r] \in Step
         /\ [t EXCEPT !.rerunPending = TRUE, !.status = x, !.result = r] \in Step
         /\ [t EXCEPT !.status = x, !.needsRerun = TRUE, !.result = r] \in Step
  BY DEF Step

LEMMA NoResultType == NoResult \in Result
  BY DEF NoResult, Result

(* Every operator that changes no binding keeps them.                      *)
LEMMA ReconciledKeeps ==
  ASSUME NEW d, Good(d)
  PROVE  Keeps(d, Reconciled(d))
  <1>1. Keeps(d, d) /\ Keeps(d, [d EXCEPT !.status = "interrupted"])
        /\ Keeps(d, [d EXCEPT !.status = "running"])
    BY KeepsReflexive, StatusKeeps DEF RunStatus
  <1>2. Reconciled(d) \in {d, [d EXCEPT !.status = "interrupted"], [d EXCEPT !.status = "running"]}
    BY DEF Reconciled
  <1> QED BY <1>1, <1>2

LEMMA CurrentType ==
  ASSUME NEW d, Good(d), NEW s \in Steps, HasDispatch(d, s)
  PROVE  /\ CurrentOf(d, s) \in Dispatch
         /\ d.step[s].dispatch \in 1..Len(d.dispatch)
  <1>1. d.step[s].dispatch \in 1..Len(d.dispatch)
    <2>1. d.step[s].dispatch \in 0..Len(d.dispatch) /\ d.step[s].dispatch # 0
      BY DEF Good, StepBound, HasDispatch
    <2>2. Len(d.dispatch) \in Nat
      BY DatabaseFields DEF Good
    <2> QED BY <2>1, <2>2
  <1> QED BY <1>1, DatabaseFields DEF CurrentOf, Good

LEMMA WithReportKeeps ==
  ASSUME NEW d, Good(d), NEW s \in Steps, HasDispatch(d, s)
  PROVE  WithReport(d, s) \in Step /\ StepKeeps(d.step[s], WithReport(d, s))
  <1>1. d.step[s] \in Step /\ StepKeeps(d.step[s], d.step[s])
    BY KeepsReflexive DEF Good, Database, Keeps
  <1>2. CurrentOf(d, s) \in Dispatch /\ d.step[s].dispatch \in Nat
    BY CurrentType
  <1>3. [dispatch |-> d.step[s].dispatch, revision |-> CurrentOf(d, s).revision, commit |-> 0]
          \in Result
    BY <1>2, RowNumbers DEF Result
  <1> DEFINE x == ReportStatus(s, CurrentOf(d, s))
  <1>4. x \in StepStatus
    BY DEF ReportStatus, StepStatus
  <1> HIDE DEF x
  <1>5. PICK r \in Result :
          WithReport(d, s) = [d.step[s] EXCEPT !.status = x, !.result = r]
    BY <1>3, NoResultType DEF WithReport, x
  <1>6. [d.step[s] EXCEPT !.status = x, !.result = r] \in Step
    BY <1>1, <1>4, StepFieldsType
  <1>7. StepKeeps(d.step[s], [d.step[s] EXCEPT !.status = x, !.result = r])
    BY <1>1 DEF StepKeeps, Step
  <1> QED BY <1>5, <1>6, <1>7

LEMMA ApplyKeeps ==
  ASSUME NEW d, Good(d), NEW S
  PROVE  Keeps(d, Apply(d, S))
  <1> DEFINE T == {s \in S : AwaitsReport(d, s)}
             f == [s \in Steps |-> IF s \in T THEN WithReport(d, s) ELSE d.step[s]]
             e == [d EXCEPT !.step = f]
  <1>1. ASSUME NEW s \in Steps
        PROVE  f[s] \in Step /\ StepKeeps(d.step[s], f[s])
    <2>1. d.step[s] \in Step /\ StepKeeps(d.step[s], d.step[s])
      BY <1>1, KeepsReflexive DEF Good, Database, Keeps
    <2>2. CASE s \in T
      BY <1>1, <2>2, WithReportKeeps DEF AwaitsReport
    <2> QED BY <1>1, <2>1, <2>2
  <1>2. f \in [Steps -> Step]
    BY <1>1
  <1>3. Apply(d, S) = IF ~Active(d) THEN d ELSE Finish(e)
    BY DEF Apply, Replace
  <1> HIDE DEF f
  <1>4. Keeps(d, e)
    BY <1>1, <1>2, StepsKeep
  <1> HIDE DEF e
  <1>5. Keeps(d, Finish(e))
    <2>1. Good(e) /\ d \in Database
      BY <1>4, KeepsGood DEF Good
    <2>2. Keeps(e, [e EXCEPT !.status = "completed"])
      BY <2>1, StatusKeeps DEF RunStatus
    <2> QED BY <1>4, <2>1, <2>2, KeepsTransitive DEF Finish
  <1> QED BY <1>3, <1>5, KeepsReflexive

LEMMA RefreshedKeeps ==
  ASSUME NEW d, Good(d)
  PROVE  Keeps(d, Refreshed(d))
  BY ApplyKeeps DEF Refreshed

LEMMA CancelKeeps ==
  ASSUME NEW d, Good(d), NEW ids
  PROVE  Keeps(d, Cancel(d, ids))
  <1> DEFINE r == [i \in 1..Len(d.dispatch) |->
                     IF i \in ids /\ IsOpen(d, i)
                       THEN [d.dispatch[i] EXCEPT !.status = "cancelled"]
                       ELSE d.dispatch[i]]
  <1>1. ASSUME NEW c \in Dispatch
        PROVE  /\ [c EXCEPT !.status = "cancelled"] \in Dispatch
               /\ RowKeeps(c, [c EXCEPT !.status = "cancelled"])
               /\ RowGood([c EXCEPT !.status = "cancelled"])
    BY DEF Dispatch, RowKeeps, RowGood
  <1>2. ASSUME NEW i \in 1..Len(d.dispatch)
        PROVE  r[i] \in Dispatch /\ RowKeeps(d.dispatch[i], r[i]) /\ RowGood(r[i])
    <2>1. d.dispatch[i] \in Dispatch
      BY DatabaseFields DEF Good
    <2>2. RowKeeps(d.dispatch[i], d.dispatch[i]) /\ RowGood(d.dispatch[i])
      BY KeepsReflexive DEF Keeps
    <2> QED BY <1>1, <2>1, <2>2
  <1>3. r \in [1..Len(d.dispatch) -> Dispatch]
    BY <1>2
  <1>4. Cancel(d, ids) = [d EXCEPT !.dispatch = r]
    BY DatabaseFields DEF Cancel, Good
  <1> HIDE DEF r
  <1> QED BY <1>2, <1>3, <1>4, RowsKeep

(* The changes that a handler makes to a set of steps.                     *)
LEMMA StepsChange ==
  ASSUME NEW d, Good(d), NEW S, NEW g \in [Steps -> Step],
         \A s \in Steps \cap S : StepKeeps(d.step[s], g[s])
  PROVE  Keeps(d, [d EXCEPT !.step = [s \in Steps |-> IF s \in S THEN g[s] ELSE d.step[s]]])
  <1> DEFINE f == [s \in Steps |-> IF s \in S THEN g[s] ELSE d.step[s]]
  <1>1. \A s \in Steps : d.step[s] \in Step /\ StepKeeps(d.step[s], d.step[s])
    BY KeepsReflexive DEF Good, Database, Keeps
  <1>2. f \in [Steps -> Step] /\ \A s \in Steps : StepKeeps(d.step[s], f[s])
    BY <1>1
  <1> HIDE DEF f
  <1>3. Keeps(d, [d EXCEPT !.step = f])
    BY <1>2, StepsKeep
  <1> QED BY <1>3 DEF f

(* What a step may become without a change of its binding.                 *)
LEMMA StepFieldsKeep ==
  ASSUME NEW d, Good(d), NEW s \in Steps, NEW x \in StepStatus
  PROVE  /\ [d.step[s] EXCEPT !.status = x] \in Step
         /\ StepKeeps(d.step[s], [d.step[s] EXCEPT !.status = x])
  <1>1. d.step[s] \in Step /\ StepKeeps(d.step[s], d.step[s])
    BY KeepsReflexive DEF Good, Database, Keeps
  <1>2. ASSUME NEW t \in Step, StepKeeps(t, t)
        PROVE  StepKeeps(t, [t EXCEPT !.status = x])
    BY <1>2 DEF Step, StepKeeps
  <1> QED BY <1>1, <1>2, StepFieldsType, NoResultType

LEMMA StoppedKeeps ==
  ASSUME NEW d, Good(d)
  PROVE  Keeps(d, Stopped(d)) /\ Keeps(d, StopReconciled(d))
  <1> DEFINE S == {s \in Steps : d.step[s].status \notin {"completed", "failed"}}
             g == [s \in Steps |-> [d.step[s] EXCEPT !.status = "stopped"]]
             e == [d EXCEPT !.step = [s \in Steps |-> IF s \in S THEN g[s] ELSE d.step[s]]]
  <1>1. g \in [Steps -> Step] /\ \A s \in Steps : StepKeeps(d.step[s], g[s])
    BY StepFieldsKeep DEF StepStatus
  <1>2. Stopped(d) = [e EXCEPT !.status = "stopped"]
    BY DEF Stopped, Replace
  <1> HIDE DEF g, S
  <1>3. Keeps(d, e)
    BY <1>1, StepsChange
  <1> HIDE DEF e
  <1>4. Good(e) /\ d \in Database
    BY <1>3, KeepsGood DEF Good
  <1>5. Keeps(d, Stopped(d))
    BY <1>2, <1>3, <1>4, StatusKeeps, KeepsTransitive DEF RunStatus
  <1> QED BY <1>5, CancelKeeps DEF StopReconciled

LEMMA FailedKeeps ==
  ASSUME NEW d, Good(d)
  PROVE  Keeps(d, Failed(d))
  <1> DEFINE open == {s \in Steps : d.step[s].status \in {"queued", "running"}}
             c == Cancel(d, Bound(d, open))
             S == {s \in Steps : d.step[s].status \in
                     {"queued", "running", "blocked", "awaiting_review"}}
             g == [s \in Steps |-> [c.step[s] EXCEPT !.status = "failed"]]
             e == [c EXCEPT !.step = [s \in Steps |-> IF s \in S THEN g[s] ELSE c.step[s]]]
  <1>1. Failed(d) = IF ~Active(d) THEN d ELSE [e EXCEPT !.status = "failed"]
    BY DEF Failed, Replace
  <1>2. Keeps(d, c) /\ Good(c) /\ d \in Database
    BY CancelKeeps, KeepsGood DEF Good
  <1> HIDE DEF c
  <1>3. g \in [Steps -> Step] /\ \A s \in Steps : StepKeeps(c.step[s], g[s])
    BY <1>2, StepFieldsKeep DEF StepStatus
  <1> HIDE DEF g, S
  <1>4. Keeps(c, e)
    BY <1>2, <1>3, StepsChange
  <1> HIDE DEF e
  <1>5. Keeps(d, e) /\ Good(e)
    BY <1>2, <1>4, KeepsGood, KeepsTransitive
  <1>6. Keeps(d, [e EXCEPT !.status = "failed"])
    BY <1>2, <1>5, StatusKeeps, KeepsTransitive DEF RunStatus
  <1> QED BY <1>1, <1>6, KeepsReflexive

LEMMA CaughtKeeps ==
  ASSUME NEW d, Good(d), NEW s
  PROVE  Keeps(d, Caught(d, s))
  <1>1. Keeps(d, Reconciled(d)) /\ Good(Reconciled(d)) /\ d \in Database
    BY ReconciledKeeps, KeepsGood DEF Good
  <1>2. Keeps(d, Failed(Reconciled(d)))
    BY <1>1, FailedKeeps, KeepsTransitive
  <1> QED BY <1>1, <1>2 DEF Caught

(* Evidence that was read changes its own step.                            *)
LEMMA JudgedParts ==
  ASSUME NEW d, Good(d), NEW s \in Steps, NEW f \in Flight, StillCurrent(d, s, f)
  PROVE  LET e == Judged(d, s, f)
         IN /\ Keeps(d, e) /\ e.dispatch = d.dispatch /\ e.status = d.status
            /\ e.step[s].status = EvidenceStatus(f)
            /\ e.step[s].result = EvidenceResult(d, s, f)
            /\ e.step[s].used = d.step[s].used /\ e.step[s].dispatch = d.step[s].dispatch
            /\ e.step[s].rerunPending = d.step[s].rerunPending
            /\ e.step[s].needsRerun = d.step[s].needsRerun
            /\ \A t \in Steps : t # s => e.step[t] = d.step[t]
  <1> DEFINE t == [d.step[s] EXCEPT !.status = EvidenceStatus(f),
                                    !.result = EvidenceResult(d, s, f)]
             own == [d.step EXCEPT ![s] = t]
             e == [d EXCEPT !.step = own]
  <1>1. /\ d \in Database /\ d.step \in [Steps -> Step] /\ d.step[s] \in Step
        /\ \A u \in Steps : StepKeeps(d.step[u], d.step[u])
    BY DatabaseFields, KeepsReflexive DEF Good, Keeps
  <1>2. Judged(d, s, f) = e
    BY <1>1 DEF Judged, Database
  <1>3. EvidenceStatus(f) \in StepStatus /\ EvidenceResult(d, s, f) \in Result
    <2>1. f.revision \in Nat /\ f.seen.commit \in Nat
      BY Parameters DEF Flight
    <2>2. d.step[s].dispatch \in Nat
      BY CurrentType DEF StillCurrent
    <2> QED BY <2>1, <2>2, NoResultType DEF EvidenceStatus, EvidenceResult, StepStatus, Result
  <1>4. /\ t \in Step /\ StepKeeps(d.step[s], t)
        /\ t.status = EvidenceStatus(f) /\ t.result = EvidenceResult(d, s, f)
        /\ t.used = d.step[s].used /\ t.dispatch = d.step[s].dispatch
        /\ t.rerunPending = d.step[s].rerunPending /\ t.needsRerun = d.step[s].needsRerun
    <2>1. t \in Step
      BY <1>1, <1>3, StepFieldsType
    <2> QED BY <1>1, <2>1 DEF StepKeeps, Step
  <1> HIDE DEF t
  <1>5. own \in [Steps -> Step] /\ \A u \in Steps : StepKeeps(d.step[u], own[u])
    BY <1>1, <1>4
  <1>6. own[s] = t /\ \A u \in Steps : u # s => own[u] = d.step[u]
    BY <1>1
  <1> HIDE DEF own
  <1>7. Keeps(d, e) /\ e.step = own /\ e.dispatch = d.dispatch /\ e.status = d.status
    BY <1>1, <1>5, StepsKeep DEF Database
  <1> HIDE DEF e
  <1> QED BY <1>2, <1>4, <1>6, <1>7

(* With the run and the cancellations that were stored after it.           *)
LEMMA PartParts ==
  ASSUME NEW d, Good(d), NEW s \in Steps, NEW f \in Flight, StillCurrent(d, s, f), NEW ids
  PROVE  LET e == PartlyJudged(d, s, f, ids)
         IN /\ Keeps(d, e) /\ Good(e) /\ e.dispatch = Cancel(d, ids).dispatch
            /\ e.step = Judged(d, s, f).step
            /\ e.status = d.status \/ (d.status = "completed" /\ e.status = "running")
  <1> DEFINE j == Judged(d, s, f)
             r == Resumed(j, s)
             e == Cancel(r, ids)
  <1>1. Keeps(d, j) /\ Good(j) /\ j.dispatch = d.dispatch /\ j.status = d.status
        /\ d \in Database /\ j \in Database
    BY JudgedParts, KeepsGood DEF Good
  <1> HIDE DEF j
  <1>2. /\ Keeps(j, r) /\ r.dispatch = j.dispatch /\ r.step = j.step
        /\ r.status = d.status \/ (d.status = "completed" /\ r.status = "running")
    <2>1. Keeps(j, j) /\ Keeps(j, [j EXCEPT !.status = "running"])
      BY <1>1, KeepsReflexive, StatusKeeps DEF RunStatus
    <2>2. LET x == [j EXCEPT !.status = "running"]
          IN x.dispatch = j.dispatch /\ x.step = j.step /\ x.status = "running"
      BY <1>1 DEF Database
    <2>3. \/ r = j
          \/ j.status = "completed" /\ r = [j EXCEPT !.status = "running"]
      BY DEF Resumed
    <2> HIDE DEF r
    <2> QED BY <1>1, <2>1, <2>2, <2>3
  <1>3. Keeps(d, r) /\ Good(r)
    BY <1>1, <1>2, KeepsTransitive, KeepsGood
  <1> HIDE DEF r
  <1>4. Keeps(d, e) /\ Good(e)
    BY <1>1, <1>3, CancelKeeps, KeepsTransitive, KeepsGood
  <1>5. e.step = r.step /\ e.status = r.status
    BY <1>3 DEF Good, Cancel, Database
  <1>6. e.dispatch = Cancel(d, ids).dispatch
    <2>1. r.dispatch = d.dispatch /\ r \in Database
      BY <1>1, <1>2, <1>3 DEF Good
    <2> QED BY <1>1, <2>1 DEF Cancel, IsOpen, Database
  <1> HIDE DEF e
  <1> QED BY <1>2, <1>4, <1>5, <1>6 DEF PartlyJudged, e, r, j

(* And with the steps that are held back.                                  *)
LEMMA HeldBackParts ==
  ASSUME NEW d, Good(d), NEW S
  PROVE  LET e == HeldBack(d, S)
         IN /\ Keeps(d, e) /\ e.dispatch = d.dispatch /\ e.status = d.status
            /\ \A t \in Steps : t \in S => e.step[t].needsRerun /\ e.step[t].result = NoResult
            /\ \A t \in Steps : t \notin S => e.step[t] = d.step[t]
  <1> DEFINE g == [t \in Steps |-> [d.step[t] EXCEPT !.status = "blocked",
                                      !.needsRerun = TRUE, !.result = NoResult]]
             h == [t \in Steps |-> IF t \in S THEN g[t] ELSE d.step[t]]
             e == [d EXCEPT !.step = h]
  <1>1. HeldBack(d, S) = e
    BY DEF HeldBack, Replace
  <1>2. ASSUME NEW t \in Steps
        PROVE  /\ g[t] \in Step /\ StepKeeps(d.step[t], g[t])
               /\ g[t].needsRerun /\ g[t].result = NoResult
    <2>1. d.step[t] \in Step /\ StepKeeps(d.step[t], d.step[t])
      BY KeepsReflexive DEF Good, Database, Keeps
    <2>2. ASSUME NEW u \in Step, StepKeeps(u, u)
          PROVE  LET v == [u EXCEPT !.status = "blocked", !.needsRerun = TRUE,
                                    !.result = NoResult]
                 IN StepKeeps(u, v) /\ v.needsRerun /\ v.result = NoResult
      BY <2>2 DEF Step, StepKeeps
    <2> QED BY <2>1, <2>2, StepFieldsType, NoResultType DEF StepStatus
  <1>3. g \in [Steps -> Step]
    BY <1>2
  <1> HIDE DEF g
  <1>4. Keeps(d, e)
    BY <1>2, <1>3, StepsChange
  <1>5. e.step = h /\ e.dispatch = d.dispatch /\ e.status = d.status
    BY DEF Good, Database
  <1> HIDE DEF e
  <1> QED BY <1>1, <1>2, <1>4, <1>5

LEMMA WithEvidenceKeeps ==
  ASSUME NEW d, Good(d), NEW s \in Steps, NEW f \in Flight
  PROVE  Keeps(d, WithEvidence(d, s, f))
  <1> DEFINE p == PartlyJudged(d, s, f, Bound(d, Stale(d, s, f)))
             e == HeldBack(p, Stale(d, s, f))
  <1> SUFFICES ASSUME StillCurrent(d, s, f) PROVE Keeps(d, e)
    BY KeepsReflexive DEF WithEvidence
  <1>1. Keeps(d, p) /\ Good(p) /\ d \in Database
    BY PartParts DEF Good
  <1> HIDE DEF p
  <1>2. Keeps(p, e)
    BY <1>1, HeldBackParts
  <1> QED BY <1>1, <1>2, KeepsTransitive

(* A requested rerun marks its steps, none of which is at its last attempt. *)
LEMMA RerunKeeps ==
  ASSUME NEW d, Good(d), NEW s \in Steps,
         \A t \in Downstream({s}) : d.step[t].attempt < MaxAttempts
  PROVE  Keeps(d, RerunRequested(d, s))
  <1> DEFINE S == Downstream({s})
             g == [t \in Steps |-> [d.step[t] EXCEPT !.rerunPending = TRUE, !.status = "blocked",
                                                     !.result = NoResult]]
             e == [d EXCEPT !.step = [t \in Steps |-> IF t \in S THEN g[t] ELSE d.step[t]]]
  <1>1. RerunRequested(d, s) = [e EXCEPT !.status = "running"]
    BY DEF RerunRequested, Replace
  <1>2. \A t \in Steps : g[t] \in Step
    <2>1. ASSUME NEW t \in Steps PROVE g[t] \in Step
      BY StepFieldsType, NoResultType DEF Good, Database, StepStatus
    <2> QED BY <2>1
  <1>3. \A t \in Steps \cap S : StepKeeps(d.step[t], g[t])
    <2>1. ASSUME NEW t \in Steps \cap S PROVE StepKeeps(d.step[t], g[t])
      <3>1. d.step[t] \in Step /\ d.step[t].attempt < MaxAttempts
        BY DEF Good, Database
      <3> QED BY <3>1 DEF StepKeeps, Step
    <2> QED BY <2>1
  <1>4. g \in [Steps -> Step]
    BY <1>2
  <1> HIDE DEF g, S
  <1>5. Keeps(d, e)
    BY <1>3, <1>4, StepsChange
  <1> HIDE DEF e
  <1>6. Good(e) /\ d \in Database
    BY <1>5, KeepsGood DEF Good
  <1> QED BY <1>1, <1>5, <1>6, StatusKeeps, KeepsTransitive DEF RunStatus

-----------------------------------------------------------------------------
(* Steps are released from their dispatches once these are over.           *)
LEMMA SettledGood ==
  ASSUME NEW d, Good(d)
  PROVE  Good(Settled(d)) /\ Len(Settled(d).dispatch) = Len(d.dispatch)
  <1> DEFINE P == Pending(d)
             c == Cancel(d, Bound(d, P))
             f == [s \in Steps |-> IF s \in P THEN NextAttempt(c.step[s]) ELSE c.step[s]]
             e == [c EXCEPT !.step = f]
             waiting == \E i \in Bound(d, P) : ~Ended(c.dispatch[i])
  <1>1. /\ Good(c) /\ c \in Database /\ d \in Database
        /\ c.step = d.step /\ Len(c.dispatch) = Len(d.dispatch) /\ Len(d.dispatch) \in Nat
    <2>1. Keeps(d, c) /\ Good(c) /\ d \in Database
      BY CancelKeeps, KeepsGood DEF Good
    <2>2. c.step = d.step
      BY <2>1 DEF Cancel, Database
    <2> HIDE DEF c
    <2> QED BY <2>1, <2>2, DatabaseFields DEF Good, Keeps
  <1>2. Pending(c) = P
    BY <1>1 DEF Pending
  <1>3. Settled(d) = IF waiting \/ d.status # "running" THEN c ELSE e
    <2> HIDE DEF c
    <2>1. Settled(d) = IF waiting \/ d.status # "running" THEN c
                       ELSE Replace(c, Pending(c), LAMBDA s : NextAttempt(c.step[s]))
      BY DEF Settled, c
    <2> QED BY <1>2, <2>1 DEF Replace
  <1> SUFFICES ASSUME ~waiting PROVE Good(e) /\ Len(e.dispatch) = Len(d.dispatch)
    <2> HIDE DEF c, e, waiting
    <2> QED BY <1>1, <1>3
  <1>4. \A s \in Steps : c.step[s] \in Step /\ StepBound(c, s)
    <2> HIDE DEF c
    <2> QED BY <1>1, DatabaseFields DEF Good
  <1>5. \A i \in Bound(d, P) : Ended(c.dispatch[i])
    OBVIOUS
  <1> HIDE DEF c
  <1>6. ASSUME NEW s \in P
        PROVE  /\ NextAttempt(c.step[s]) \in Step
               /\ NextAttempt(c.step[s]).attempt = c.step[s].attempt + 1
               /\ NextAttempt(c.step[s]).dispatch = 0
               /\ NextAttempt(c.step[s]).rerunPending = FALSE
    <2>1. s \in Steps /\ c.step[s].rerunPending
      BY <1>1 DEF Pending
    <2>2. c.step[s].attempt \in 1..MaxAttempts /\ c.step[s].attempt < MaxAttempts
      BY <1>4, <2>1 DEF Step, StepBound
    <2>3. c.step[s].attempt + 1 \in 1..MaxAttempts
      BY <2>2, Parameters
    <2>4. \A n \in 1..MaxAttempts : [NewStep EXCEPT !.attempt = n] \in Step
      <3>1. NoResult \in Result /\ Unused \in [Steps -> Result]
        BY NoResultType DEF Unused
      <3> QED BY <3>1 DEF NewStep, Step, StepStatus
    <2> QED BY <2>3, <2>4 DEF NextAttempt, NewStep
  <1> HIDE DEF P
  <1>7. f \in [Steps -> Step]
    BY <1>4, <1>6
  <1>8. /\ e \in Database /\ e.dispatch = c.dispatch /\ e.status = c.status
        /\ e.step = f
    BY <1>1, <1>7 DEF Database
  <1>s. \A s \in Steps :
          /\ s \notin P => e.step[s] = c.step[s]
          /\ s \in P => /\ e.step[s].attempt = c.step[s].attempt + 1
                       /\ e.step[s].dispatch = 0 /\ e.step[s].rerunPending = FALSE
    <2>1. \A s \in Steps : s \in P => e.step[s] = NextAttempt(c.step[s])
      BY <1>8
    <2>2. \A s \in Steps : s \notin P => e.step[s] = c.step[s]
      BY <1>8
    <2> HIDE DEF e, f
    <2> QED BY <1>6, <2>1, <2>2
  <1> HIDE DEF e, f
  <1>9. AttemptsGrow(e)
    BY <1>1, <1>8 DEF AttemptsGrow, Good
  <1>10. ASSUME NEW i \in 1..Len(e.dispatch) PROVE RowGood(e.dispatch[i]) /\ RowBound(e, i)
    <2> DEFINE row == c.dispatch[i]
               s == row.step
    <2>1. i \in 1..Len(c.dispatch) /\ row \in Dispatch /\ s \in Steps
          /\ RowGood(row) /\ RowBound(c, i)
      BY <1>1, <1>8, <1>10, DatabaseFields, RowNumbers DEF Good
    <2>2. CASE s \notin P
      BY <1>s, <1>8, <2>1, <2>2 DEF RowBound
    <2>3. CASE s \in P
      <3>1. row.attempt \in Nat /\ c.step[s].attempt \in Nat
        BY <1>4, <2>1, RowNumbers DEF Step
      <3>2. row.attempt < e.step[s].attempt /\ e.step[s].dispatch = 0
            /\ e.step[s].attempt \in Nat
        <4>1. row.attempt <= c.step[s].attempt
          BY <2>1 DEF RowBound
        <4>2. e.step[s].attempt = c.step[s].attempt + 1 /\ e.step[s].dispatch = 0
          BY <1>s, <2>1, <2>3
        <4> HIDE DEF row, s
        <4> QED BY <3>1, <4>1, <4>2
      <3>3. Over(row)
        <4>1. c.step[s].dispatch = i => i \in Bound(d, P)
          BY <1>1, <2>1, <2>3 DEF Bound
        <4>2. Ended(row) => Over(row)
          BY <2>1 DEF Ended, Over, RowGood
        <4> QED BY <1>5, <2>1, <4>1, <4>2 DEF RowBound
      <3>4. e.dispatch[i] = row
        BY <1>8
      <3> QED BY <2>1, <3>1, <3>2, <3>3, <3>4, <1>10 DEF RowBound
    <2> QED BY <2>2, <2>3
  <1>11. ASSUME NEW s \in Steps PROVE StepBound(e, s)
    <2>1. CASE s \in P
      BY <1>1, <1>s, <1>8, <2>1 DEF StepBound
    <2>2. CASE s \notin P
      BY <1>4, <1>s, <1>8, <2>2 DEF StepBound
    <2> QED BY <2>1, <2>2
  <1> QED BY <1>1, <1>8, <1>9, <1>10, <1>11 DEF Good

(* A new row is the only one of the current attempt of its step.           *)
LEMMA CreatedGood ==
  ASSUME NEW d, Good(d), NEW s \in Steps, ~HasDispatch(d, s)
  PROVE  Good(Created(d, s)) /\ Len(Created(d, s).dispatch) = Len(d.dispatch) + 1
  <1> DEFINE n == Len(d.dispatch) + 1
             row == NewDispatch(s, d.step[s].attempt)
             rows == Append(d.dispatch, row)
             used == [m \in Steps |-> IF m \in Needs[s] THEN d.step[m].result ELSE NoResult]
             t == [d.step[s] EXCEPT !.dispatch = n, !.status = "queued", !.used = used]
             f == [d.step EXCEPT ![s] = t]
             e == [[d EXCEPT !.dispatch = rows] EXCEPT !.step = f]
  <1>1. /\ d \in Database /\ d.step \in [Steps -> Step] /\ d.dispatch \in Seq(Dispatch)
        /\ Len(d.dispatch) \in Nat /\ d.step[s] \in Step /\ d.step[s].attempt \in 1..MaxAttempts
        /\ d.step[s].dispatch = 0
    BY DatabaseFields DEF Good, Step, HasDispatch
  <1>2. row \in Dispatch /\ row.step = s /\ row.attempt = d.step[s].attempt /\ RowGood(row)
    BY <1>1, Parameters DEF NewDispatch, Dispatch, RowGood
  <1>3. used \in [Steps -> Result]
    BY <1>1, NoResultType DEF Step
  <1> HIDE DEF used, row
  <1>4. t \in Step /\ t.attempt = d.step[s].attempt /\ t.dispatch = n
        /\ t.rerunPending = d.step[s].rerunPending
    <2>1. t = [d.step[s] EXCEPT !.dispatch = n, !.status = "queued", !.used = used] /\ n \in Nat
      BY <1>1
    <2> HIDE DEF t, n
    <2>2. d.step[s] \in Step /\ used \in [Steps -> Result]
      BY <1>1, <1>3
    <2> HIDE DEF rows, e, f
    <2> QED BY <2>1, <2>2 DEF Step, StepStatus
  <1>5. /\ rows \in Seq(Dispatch) /\ Len(rows) = n /\ n \in Nat /\ rows[n] = row
        /\ \A i \in 1..Len(d.dispatch) : rows[i] = d.dispatch[i]
    BY <1>1, <1>2, AppendProperties
  <1>6. e = Created(d, s)
    <2> HIDE DEF rows
    <2> QED BY <1>1 DEF Created, used, row, rows, Database
  <1> HIDE DEF t, rows, n
  <1>7. f \in [Steps -> Step] /\ f[s] = t /\ \A u \in Steps \ {s} : f[u] = d.step[u]
    BY <1>1, <1>4
  <1> HIDE DEF f
  <1>8. e \in Database /\ e.dispatch = rows /\ e.step = f
    BY <1>1, <1>5, <1>7 DEF Database
  <1> HIDE DEF e
  <1>9. ASSUME NEW i \in 1..Len(d.dispatch), d.dispatch[i].step = s
        PROVE  d.dispatch[i].attempt < d.step[s].attempt /\ Over(d.dispatch[i])
    <2>1. d.dispatch[i].attempt \in Nat /\ d.step[s].attempt \in Nat
      BY <1>1, DatabaseFields, RowNumbers
    <2>2. RowBound(d, i)
      BY DEF Good
    <2> QED BY <1>1, <1>9, <2>1, <2>2 DEF RowBound
  <1>10. AttemptsGrow(e)
    <2>1. ASSUME NEW i \in 1..n, NEW j \in 1..n, i < j, rows[i].step = rows[j].step
          PROVE  rows[i].attempt < rows[j].attempt
      <3>1. i \in 1..Len(d.dispatch)
        BY <1>1, <2>1 DEF n
      <3>2. CASE j = n
        BY <1>2, <1>5, <1>9, <2>1, <3>1, <3>2
      <3>3. CASE j # n
        <4>1. j \in 1..Len(d.dispatch)
          BY <1>1, <3>3 DEF n
        <4> QED BY <1>5, <2>1, <3>1, <4>1 DEF Good, AttemptsGrow
      <3> QED BY <3>2, <3>3
    <2> QED BY <1>5, <1>8, <2>1 DEF AttemptsGrow
  <1>11. ASSUME NEW i \in 1..n PROVE RowGood(rows[i]) /\ RowBound(e, i)
    <2>1. CASE i = n
      BY <1>1, <1>2, <1>4, <1>5, <1>7, <1>8, <2>1 DEF RowBound
    <2>2. CASE i # n
      <3>1. i \in 1..Len(d.dispatch)
        BY <1>1, <2>2 DEF n
      <3>2. RowGood(d.dispatch[i]) /\ RowBound(d, i) /\ rows[i] = d.dispatch[i]
            /\ d.dispatch[i].step \in Steps /\ d.dispatch[i].attempt \in Nat
        BY <1>1, <1>5, <3>1, DatabaseFields, RowNumbers DEF Good
      <3>3. CASE d.dispatch[i].step = s
        <4>1. d.step[s].attempt \in Nat
          BY <1>1
        <4> QED BY <1>4, <1>7, <1>8, <1>9, <3>1, <3>2, <3>3, <4>1 DEF RowBound
      <3>4. CASE d.dispatch[i].step # s
        BY <1>7, <1>8, <3>2, <3>4 DEF RowBound
      <3> QED BY <3>3, <3>4
    <2> QED BY <2>1, <2>2
  <1>12. ASSUME NEW u \in Steps PROVE StepBound(e, u)
    <2>1. StepBound(d, u)
      BY DEF Good
    <2>2. CASE u = s
      BY <1>1, <1>2, <1>4, <1>5, <1>7, <1>8, <2>1, <2>2 DEF StepBound
    <2>3. CASE u # s
      <3>1. d.step[u].dispatch # 0 => d.step[u].dispatch \in 1..Len(d.dispatch)
        BY <1>1, <2>1 DEF StepBound
      <3>2. d.step[u].dispatch \in 0..n
        BY <1>1, <2>1 DEF StepBound, n
      <3> QED BY <1>5, <1>7, <1>8, <2>1, <2>3, <3>1, <3>2 DEF StepBound
    <2> QED BY <2>2, <2>3
  <1>13. Good(e)
    BY <1>5, <1>8, <1>10, <1>11, <1>12 DEF Good
  <1> QED BY <1>5, <1>6, <1>8, <1>13 DEF n

-----------------------------------------------------------------------------
(* The call in flight fits the run.                                        *)
LEMMA Bounds ==
  /\ MaxAttempts \in Nat /\ 0 \in 0..MaxAttempts /\ 1..MaxAttempts \subseteq 0..MaxAttempts
  /\ 0 \in 0..MaxCommits /\ 0 \in 0..MaxRestarts
  <1>1. MaxAttempts \in Nat /\ MaxCommits \in Nat /\ MaxRestarts \in Nat
    BY Parameters
  <1> QED BY <1>1

LEMMA FlightRecord ==
  ASSUME NEW phase \in {"idle", "reading", "ready", "creating", "starting"},
         NEW todo \in SUBSET Steps, NEW attempt \in 0..MaxAttempts, NEW revision \in Nat,
         NEW commit \in 0..MaxCommits, NEW checked \in BOOLEAN
  PROVE  [phase |-> phase, todo |-> todo, attempt |-> attempt, revision |-> revision,
          seen |-> [commit |-> commit, checked |-> checked]] \in Flight
  BY DEF Flight

LEMMA IdleGood ==
  ASSUME NEW d
  PROVE  FlightGood(d, Idle)
  BY Bounds DEF FlightGood, Flight, Idle

LEMMA ReadyFlightGood ==
  ASSUME NEW d, NEW S \in SUBSET Steps
  PROVE  FlightGood(d, [Idle EXCEPT !.phase = "ready", !.todo = S])
  <1>1. Idle \in Flight
    BY IdleGood DEF FlightGood
  <1>2. ASSUME NEW f \in Flight
        PROVE  LET g == [f EXCEPT !.phase = "ready", !.todo = S]
               IN g \in Flight /\ g.phase = "ready"
    BY DEF Flight
  <1> QED BY <1>1, <1>2 DEF FlightGood

LEMMA FlightKept ==
  ASSUME NEW d, NEW e, NEW f, FlightGood(d, f), Keeps(d, e)
  PROVE  FlightGood(e, f)
  <1>1. \A s \in f.todo : s \in Steps
    BY DEF FlightGood, Flight
  <1>2. \A s \in f.todo : HasDispatch(d, s) => HasDispatch(e, s)
    BY <1>1 DEF Keeps, StepKeeps, HasDispatch
  <1> QED BY <1>2 DEF FlightGood

LEMMA ReadNextGood ==
  ASSUME NEW d, Good(d), NEW todo \in SUBSET Steps, \A s \in todo : HasDispatch(d, s)
  PROVE  LET x == ReadNext(d, todo)
         IN Keeps(d, x.db) /\ FlightGood(x.db, x.flight)
  <1> DEFINE found == {s \in todo : IsReported(d, d.step[s].dispatch)}
             s == First(found)
             c == CurrentOf(d, s)
             e == Reconciled(d)
  <1>1. CASE found = {}
    <2>1. ReadNext(d, todo) = ToReady(e)
      BY <1>1 DEF ReadNext
    <2>2. Keeps(d, e)
      BY ReconciledKeeps
    <2> HIDE DEF e
    <2> DEFINE ready == [Idle EXCEPT !.phase = "ready", !.todo = ReadySteps(e)]
    <2>3. FlightGood(e, ready)
      <3>1. ReadySteps(e) \in SUBSET Steps
        BY DEF ReadySteps
      <3> QED BY <3>1, ReadyFlightGood
    <2> HIDE DEF ready
    <2>4. \/ ToReady(e) = [db |-> e, flight |-> Idle]
          \/ ToReady(e) = [db |-> e, flight |-> ready]
      BY DEF ToReady, ready
    <2> QED BY <2>1, <2>2, <2>3, <2>4, IdleGood
  <1>2. CASE found # {}
    <2> DEFINE rest == {t \in todo : First({s, t}) = s}
               f == [phase |-> "reading", todo |-> rest, attempt |-> d.step[s].attempt,
                     revision |-> c.revision,
                     seen |-> [commit |-> c.commit, checked |-> c.checked]]
    <2>1. ReadNext(d, todo) = [db |-> d, flight |-> f]
      BY <1>2 DEF ReadNext
    <2>2. s \in found
      BY <1>2, FirstIsOne
    <2> HIDE DEF s
    <2>3. s \in rest
      <3>1. {s, s} \in SUBSET Steps /\ {s, s} # {}
        BY <2>2
      <3>2. First({s, s}) \in {s, s}
        BY <3>1, FirstIsOne
      <3> QED BY <2>2, <3>2
    <2>4. c \in Dispatch /\ d.step[s].attempt \in 0..MaxAttempts
      <3>1. s \in Steps /\ HasDispatch(d, s)
        BY <2>2
      <3>2. d.step[s] \in Step
        BY <3>1 DEF Good, Database
      <3>3. d.step[s].attempt \in 1..MaxAttempts
        BY <3>2 DEF Step
      <3> QED BY <3>1, <3>3, CurrentType, Bounds
    <2>5. rest \in SUBSET Steps /\ rest # {} /\ \A t \in rest : HasDispatch(d, t)
      BY <2>3
    <2> HIDE DEF c, rest
    <2>7. c.revision \in Nat /\ c.commit \in 0..MaxCommits /\ c.checked \in BOOLEAN
      BY <2>4, RowNumbers DEF Dispatch
    <2>8. f \in Flight
      BY <2>4, <2>5, <2>7, FlightRecord
    <2>6. FlightGood(d, f)
      BY <2>5, <2>8 DEF FlightGood
    <2> HIDE DEF f
    <2> QED BY <2>1, <2>6, KeepsReflexive
  <1> QED BY <1>1, <1>2

LEMMA StartFlightGood ==
  ASSUME NEW d, Good(d)
  PROVE  LET x == StartFlight(d)
         IN Good(x.db) /\ FlightGood(x.db, x.flight) /\ Len(x.db.dispatch) = Len(d.dispatch)
  <1>1. CASE d.status = "stopped"
    <2>1. StartFlight(d) = [db |-> StopReconciled(d), flight |-> Idle]
      BY <1>1 DEF StartFlight
    <2>2. Keeps(d, StopReconciled(d))
      BY StoppedKeeps
    <2> QED BY <2>1, <2>2, KeepsGood, IdleGood DEF Keeps
  <1>2. CASE d.status = "failed"
    <2>1. StartFlight(d) = [db |-> d, flight |-> Idle]
      BY <1>2 DEF StartFlight
    <2> QED BY <2>1, IdleGood
  <1>3. CASE d.status \notin {"stopped", "failed"}
    <2> DEFINE r == Reconciled(Refreshed(d))
               e == Settled(r)
               x == ReadNext(e, EvidenceSteps(e))
    <2>1. StartFlight(d) = x
      BY <1>3 DEF StartFlight
    <2>2. Good(r) /\ Len(r.dispatch) = Len(d.dispatch)
      <3>1. Good(Refreshed(d)) /\ Len(Refreshed(d).dispatch) = Len(d.dispatch)
        BY RefreshedKeeps, KeepsGood DEF Keeps
      <3>2. Keeps(Refreshed(d), r)
        BY <3>1, ReconciledKeeps
      <3> HIDE DEF r
      <3> QED BY <3>1, <3>2, KeepsGood DEF Keeps
    <2> HIDE DEF r
    <2>3. Good(e) /\ Len(e.dispatch) = Len(d.dispatch)
      BY <2>2, SettledGood
    <2> HIDE DEF e
    <2>4. EvidenceSteps(e) \in SUBSET Steps /\ \A s \in EvidenceSteps(e) : HasDispatch(e, s)
      BY Parameters DEF EvidenceSteps
    <2>5. Keeps(e, x.db) /\ FlightGood(x.db, x.flight)
      BY <2>3, <2>4, ReadNextGood
    <2> HIDE DEF x
    <2> QED BY <2>1, <2>3, <2>5, KeepsGood DEF Keeps
  <1> QED BY <1>1, <1>2, <1>3

LEMMA NewRunGood == Good(NewRun)
  <1>1. NewStep \in Step /\ NewStep.dispatch = 0 /\ NewStep.rerunPending = FALSE
    BY Parameters, NoResultType DEF NewStep, Step, StepStatus, Unused
  <1>2. << >> \in Seq(Dispatch) /\ Len(<< >>) = 0
    BY EmptySeq
  <1>3. NewRun \in Database
    BY <1>1, <1>2 DEF NewRun, Database, RunStatus
  <1>4. NewRun.dispatch = << >> /\ \A s \in Steps : NewRun.step[s] = NewStep
    BY DEF NewRun
  <1>5. 1..Len(NewRun.dispatch) = {}
    BY <1>2, <1>4
  <1>6. \A s \in Steps : StepBound(NewRun, s)
    BY <1>1, <1>2, <1>4 DEF StepBound
  <1> QED BY <1>3, <1>5, <1>6 DEF Good, AttemptsGrow

LEMMA InitGood == Init => IInv
  <1> SUFFICES ASSUME Init PROVE IInv
    OBVIOUS
  <1>1. db = StartFlight(NewRun).db /\ flight = StartFlight(NewRun).flight
        /\ woken = FALSE /\ restarts = 0
    BY DEF Init
  <1>2. Good(db) /\ FlightGood(db, flight)
    BY <1>1, NewRunGood, StartFlightGood
  <1>3. woken \in BOOLEAN /\ restarts \in 0..MaxRestarts
    BY <1>1, Bounds
  <1> QED BY <1>2, <1>3 DEF IInv

-----------------------------------------------------------------------------
(* What every step but Create does to the run.                             *)
GoodStep ==
  /\ Good(db') /\ FlightGood(db', flight')
  /\ Len(db'.dispatch) = Len(db.dispatch)

(* A handler leaves its changes to the call in flight or starts one.       *)
LEMMA HandledStep ==
  ASSUME IInv, NEW d, Keeps(db, d),
         \/ db' = d /\ flight' = flight
         \/ Schedule(d)
         \/ DispatchReady(d)
  PROVE  GoodStep
  <1>1. Good(d) /\ Len(d.dispatch) = Len(db.dispatch) /\ FlightGood(d, flight)
    BY KeepsGood, FlightKept DEF IInv, Keeps
  <1>2. CASE db' = d /\ flight' = flight
    BY <1>1, <1>2 DEF GoodStep
  <1>3. CASE db' = StartFlight(d).db /\ flight' = StartFlight(d).flight
    BY <1>1, <1>3, StartFlightGood DEF GoodStep
  <1> QED BY <1>2, <1>3 DEF Schedule, DispatchReady, Go

LEMMA RecordedStep ==
  ASSUME IInv, NEW d, Keeps(db, d), NEW i, Recorded(d, i)
  PROVE  GoodStep
  <1> DEFINE bound == {s \in Steps : d.step[s].dispatch = i /\ AwaitsReport(d, s)}
             r == Reconciled(Apply(d, bound))
  <1>1. Keeps(db, r)
    <2>1. Good(d) /\ db \in Database
      BY KeepsGood DEF IInv, Good
    <2>2. Keeps(d, Apply(d, bound)) /\ Good(Apply(d, bound)) /\ d \in Database
      BY <2>1, ApplyKeeps, KeepsGood DEF Good
    <2>3. Keeps(d, r)
      BY <2>2, ReconciledKeeps, KeepsTransitive
    <2> HIDE DEF r
    <2> QED BY <2>1, <2>3, KeepsTransitive
  <1>2. \/ db' = d /\ flight' = flight
        \/ db' = r /\ flight' = flight
        \/ Schedule(r) \/ DispatchReady(r)
    <2> HIDE DEF bound
    <2> QED BY DEF Recorded, bound
  <1> HIDE DEF r
  <1> QED BY <1>1, <1>2, HandledStep

(* What may happen to one row besides its report.                          *)
Allowed(c, b) == b \in Dispatch /\ RowKeeps(c, b) /\ RowGood(b)

LEMMA SimilarRow ==
  ASSUME NEW c \in Dispatch, RowGood(c), NEW b \in Dispatch,
         b.step = c.step, b.attempt = c.attempt, b.revision = c.revision,
         c.confirmed => b.confirmed,
         \/ b.status \in {c.status, "cancelled"}
         \/ b.status = "submitted" /\ c.revision <= 1
  PROVE  Allowed(c, b)
  <1>1. c.revision \in Nat
    BY RowNumbers
  <1> QED BY <1>1 DEF Allowed, RowKeeps, RowGood

LEMMA RowChanges ==
  ASSUME NEW c \in Dispatch, RowGood(c)
  PROVE  /\ Allowed(c, [c EXCEPT !.status = "cancelled"])
         /\ Allowed(c, [c EXCEPT !.confirmed = TRUE, !.uncertain = FALSE])
         /\ \A x \in BOOLEAN : Allowed(c, [c EXCEPT !.uncertain = x])
         /\ Allowed(c, [c EXCEPT !.accepted = TRUE])
         /\ Allowed(c, [c EXCEPT !.checked = TRUE])
         /\ c.status = "queued" => Allowed(c, [c EXCEPT !.status = "submitted", !.uncertain = FALSE])
         /\ c.revision = 1 => Allowed(c, [c EXCEPT !.status = "submitted", !.outcome = "none",
                        !.accepted = FALSE, !.checked = FALSE])
         /\ \A n \in 0..MaxCommits : Allowed(c, [c EXCEPT !.commit = n, !.checked = FALSE])
  <1>1. Allowed(c, [c EXCEPT !.status = "cancelled"])
    <2> DEFINE b == [c EXCEPT !.status = "cancelled"]
    <2>1. /\ b \in Dispatch /\ b.step = c.step /\ b.attempt = c.attempt
          /\ b.revision = c.revision /\ (c.confirmed => b.confirmed)
      BY DEF Dispatch
    <2>2. b.status = "cancelled"
      BY DEF Dispatch
    <2> HIDE DEF b
    <2>3. Allowed(c, b)
      BY <2>1, <2>2, SimilarRow
    <2> QED BY <2>3 DEF b
  <1>2. Allowed(c, [c EXCEPT !.confirmed = TRUE, !.uncertain = FALSE])
    <2> DEFINE b == [c EXCEPT !.confirmed = TRUE, !.uncertain = FALSE]
    <2>1. /\ b \in Dispatch /\ b.step = c.step /\ b.attempt = c.attempt
          /\ b.revision = c.revision /\ (c.confirmed => b.confirmed)
      BY DEF Dispatch
    <2>2. b.status = c.status
      BY DEF Dispatch
    <2> HIDE DEF b
    <2>3. Allowed(c, b)
      BY <2>1, <2>2, SimilarRow
    <2> QED BY <2>3 DEF b
  <1>3. ASSUME NEW x \in BOOLEAN
        PROVE  Allowed(c, [c EXCEPT !.uncertain = x])
    <2> DEFINE b == [c EXCEPT !.uncertain = x]
    <2>1. /\ b \in Dispatch /\ b.step = c.step /\ b.attempt = c.attempt
          /\ b.revision = c.revision /\ (c.confirmed => b.confirmed)
      BY <1>3 DEF Dispatch
    <2>2. b.status = c.status
      BY <1>3 DEF Dispatch
    <2> HIDE DEF b
    <2>3. Allowed(c, b)
      BY <2>1, <2>2, SimilarRow
    <2> QED BY <2>3 DEF b
  <1>4. Allowed(c, [c EXCEPT !.accepted = TRUE])
    <2> DEFINE b == [c EXCEPT !.accepted = TRUE]
    <2>1. /\ b \in Dispatch /\ b.step = c.step /\ b.attempt = c.attempt
          /\ b.revision = c.revision /\ (c.confirmed => b.confirmed)
      BY DEF Dispatch
    <2>2. b.status = c.status
      BY DEF Dispatch
    <2> HIDE DEF b
    <2>3. Allowed(c, b)
      BY <2>1, <2>2, SimilarRow
    <2> QED BY <2>3 DEF b
  <1>5. Allowed(c, [c EXCEPT !.checked = TRUE])
    <2> DEFINE b == [c EXCEPT !.checked = TRUE]
    <2>1. /\ b \in Dispatch /\ b.step = c.step /\ b.attempt = c.attempt
          /\ b.revision = c.revision /\ (c.confirmed => b.confirmed)
      BY DEF Dispatch
    <2>2. b.status = c.status
      BY DEF Dispatch
    <2> HIDE DEF b
    <2>3. Allowed(c, b)
      BY <2>1, <2>2, SimilarRow
    <2> QED BY <2>3 DEF b
  <1>6. ASSUME c.status = "queued"
        PROVE  Allowed(c, [c EXCEPT !.status = "submitted", !.uncertain = FALSE])
    <2> DEFINE b == [c EXCEPT !.status = "submitted", !.uncertain = FALSE]
    <2>1. /\ b \in Dispatch /\ b.step = c.step /\ b.attempt = c.attempt
          /\ b.revision = c.revision /\ (c.confirmed => b.confirmed)
      BY <1>6 DEF Dispatch
    <2>2. b.status = "submitted" /\ c.revision <= 1
      BY <1>6 DEF Dispatch, RowGood
    <2> HIDE DEF b
    <2>3. Allowed(c, b)
      BY <2>1, <2>2, SimilarRow
    <2> QED BY <2>3 DEF b
  <1>7. ASSUME c.revision = 1
        PROVE  Allowed(c, [c EXCEPT !.status = "submitted", !.outcome = "none",
                        !.accepted = FALSE, !.checked = FALSE])
    <2> DEFINE b == [c EXCEPT !.status = "submitted", !.outcome = "none",
                        !.accepted = FALSE, !.checked = FALSE]
    <2>1. /\ b \in Dispatch /\ b.step = c.step /\ b.attempt = c.attempt
          /\ b.revision = c.revision /\ (c.confirmed => b.confirmed)
      BY <1>7 DEF Dispatch
    <2>2. b.status = "submitted" /\ c.revision <= 1
      BY <1>7 DEF Dispatch
    <2> HIDE DEF b
    <2>3. Allowed(c, b)
      BY <2>1, <2>2, SimilarRow
    <2> QED BY <2>3 DEF b
  <1>8. ASSUME NEW n \in 0..MaxCommits
        PROVE  Allowed(c, [c EXCEPT !.commit = n, !.checked = FALSE])
    <2> DEFINE b == [c EXCEPT !.commit = n, !.checked = FALSE]
    <2>1. /\ b \in Dispatch /\ b.step = c.step /\ b.attempt = c.attempt
          /\ b.revision = c.revision /\ (c.confirmed => b.confirmed)
      BY <1>8 DEF Dispatch
    <2>2. b.status = c.status
      BY <1>8 DEF Dispatch
    <2> HIDE DEF b
    <2>3. Allowed(c, b)
      BY <2>1, <2>2, SimilarRow
    <2> QED BY <2>3 DEF b
  <1> QED BY <1>1, <1>2, <1>3, <1>4, <1>5, <1>6, <1>7, <1>8

(* A report is counted.                                                    *)
LEMMA ReportedRow ==
  ASSUME NEW c \in Dispatch, RowGood(c), c.status \in {"queued", "submitted"},
         NEW outcome \in Outcomes
  PROVE  Allowed(c, [c EXCEPT !.status = "reported", !.outcome = outcome,
                              !.revision = c.revision + 1, !.checked = FALSE])
  <1> DEFINE b(n) == [c EXCEPT !.status = "reported", !.outcome = outcome,
                               !.revision = n, !.checked = FALSE]
  <1>1. outcome \in {"success", "failed", "none"}
    BY Parameters
  <1>2. c.revision \in 0..2 /\ c.revision <= 1
    BY DEF Dispatch, RowGood
  <1>3. c.revision + 1 \in 0..2 /\ c.revision <= c.revision + 1 /\ c.revision + 1 > 0
    BY <1>2
  <1>4. ASSUME NEW n \in 0..2
        PROVE  /\ b(n) \in Dispatch /\ b(n).step = c.step /\ b(n).attempt = c.attempt
               /\ b(n).revision = n /\ b(n).confirmed = c.confirmed
               /\ b(n).status = "reported"
    BY <1>1 DEF Dispatch
  <1> HIDE DEF b
  <1>5. Allowed(c, b(c.revision + 1))
    BY <1>3, <1>4 DEF Allowed, RowKeeps, RowGood
  <1> QED BY <1>5 DEF b

LEMMA RowStep ==
  ASSUME IInv, NEW i \in Dispatches, NEW b, Allowed(db.dispatch[i], b)
  PROVE  Keeps(db, [db EXCEPT !.dispatch[i] = b])
  <1>1. i \in 1..Len(db.dispatch)
    BY DatabaseFields DEF IInv, Good, Dispatches
  <1> QED BY <1>1, RowKept DEF IInv, Allowed

LEMMA RowHere ==
  ASSUME IInv, NEW i \in Dispatches
  PROVE  db.dispatch[i] \in Dispatch /\ RowGood(db.dispatch[i])
  BY DatabaseFields DEF IInv, Good, Dispatches

(* What happens at a dispatch.                                             *)
LEMMA WorkerStep ==
  ASSUME IInv, NEW i \in Dispatches, Worker(i)
  PROVE  GoodStep
  <1> DEFINE c == db.dispatch[i]
  <1>c. c \in Dispatch /\ RowGood(c)
    BY RowHere
  <1>1. CASE Submit(i)
    <2> DEFINE b == [c EXCEPT !.status = "submitted", !.uncertain = FALSE]
               sent == [db EXCEPT !.dispatch[i] = b]
               S == {s \in Steps : db.step[s].dispatch = i}
               g == [s \in Steps |-> [db.step[s] EXCEPT !.status =
                       IF @ = "queued" THEN "running" ELSE @]]
               e == [sent EXCEPT !.step =
                       [s \in Steps |-> IF s \in S THEN g[s] ELSE sent.step[s]]]
    <2>1. Allowed(c, b)
      BY <1>c, <1>1, RowChanges DEF Submit
    <2>2. db \in Database /\ db.step \in [Steps -> Step]
      BY DatabaseFields DEF IInv, Good
    <2>3. sent = [db EXCEPT !.dispatch[i].status = "submitted", !.dispatch[i].uncertain = FALSE]
      BY <2>2 DEF Database
    <2>4. flight' = flight /\ (db' = sent \/ db' = Reconciled(e))
      <3>1. /\ flight' = flight
            /\ LET bound == {s \in Steps : db.step[s].dispatch = i}
               IN db' = IF ~Active(db) \/ bound = {} THEN sent
                        ELSE Reconciled(Replace(sent, bound, LAMBDA s :
                               [db.step[s] EXCEPT !.status =
                                 IF @ = "queued" THEN "running" ELSE @]))
        <4> HIDE DEF sent
        <4> QED BY <1>1, <2>3 DEF Submit
      <3> HIDE DEF sent
      <3> QED BY <3>1 DEF Replace
    <2> HIDE DEF b
    <2>5. Keeps(db, sent)
      BY <2>1, RowStep
    <2>6. sent.step = db.step
      BY <2>2 DEF Database
    <2> HIDE DEF sent, c
    <2>7. Good(sent)
      BY <2>5, KeepsGood DEF IInv
    <2>8. \A s \in Steps : g[s] \in Step /\ StepKeeps(sent.step[s], g[s])
      <3>1. ASSUME NEW s \in Steps PROVE g[s] \in Step /\ StepKeeps(sent.step[s], g[s])
        <4> DEFINE x == IF db.step[s].status = "queued" THEN "running" ELSE db.step[s].status
        <4>1. x \in StepStatus
          BY <2>2 DEF Step, StepStatus
        <4>2. g[s] = [db.step[s] EXCEPT !.status = x]
          OBVIOUS
        <4> HIDE DEF x, g
        <4> QED BY <2>6, <2>7, <4>1, <4>2, StepFieldsKeep
      <3> QED BY <3>1
    <2>9. g \in [Steps -> Step]
      BY <2>8
    <2> HIDE DEF g, S
    <2>10. Keeps(sent, e)
      BY <2>7, <2>8, <2>9, StepsChange
    <2> HIDE DEF e
    <2>11. Keeps(db, e) /\ Good(e)
      BY <2>2, <2>5, <2>7, <2>10, KeepsGood, KeepsTransitive
    <2>12. Keeps(db, Reconciled(e))
      BY <2>2, <2>11, ReconciledKeeps, KeepsTransitive
    <2> QED BY <2>4, <2>5, <2>12, HandledStep
  <1>2. CASE ConfirmCancellation(i)
    <2> DEFINE b == [c EXCEPT !.confirmed = TRUE, !.uncertain = FALSE]
    <2>1. Keeps(db, [db EXCEPT !.dispatch[i] = b])
      BY <1>c, RowChanges, RowStep
    <2>2. db' = [db EXCEPT !.dispatch[i] = b] /\ flight' = flight
      BY <1>2 DEF ConfirmCancellation, Alone
    <2> HIDE DEF b
    <2> QED BY <2>1, <2>2, HandledStep
  <1>3. CASE Doubt(i)
    <2> DEFINE b == [c EXCEPT !.uncertain = TRUE]
    <2>1. Keeps(db, [db EXCEPT !.dispatch[i] = b])
      BY <1>c, RowChanges, RowStep
    <2>2. db' = [db EXCEPT !.dispatch[i] = b] /\ flight' = flight
      BY <1>3 DEF Doubt, Alone
    <2> HIDE DEF b
    <2> QED BY <2>1, <2>2, HandledStep
  <1>4. CASE Commit(i)
    <2> DEFINE b == [c EXCEPT !.commit = c.commit + 1, !.checked = FALSE]
    <2>1. c.commit + 1 \in 0..MaxCommits
      BY <1>c, <1>4, Parameters DEF Commit, Alone, Dispatch
    <2>2. Keeps(db, [db EXCEPT !.dispatch[i] = b])
      BY <1>c, <2>1, RowChanges, RowStep
    <2>3. db' = [db EXCEPT !.dispatch[i] = b] /\ flight' = flight
      BY <1>4 DEF Commit, Alone
    <2> HIDE DEF b
    <2> QED BY <2>2, <2>3, HandledStep
  <1>5. ASSUME NEW outcome \in Outcomes, NEW told \in BOOLEAN, Report(i, outcome, told)
        PROVE  GoodStep
    <2> DEFINE b == [c EXCEPT !.status = "reported", !.outcome = outcome,
                              !.revision = c.revision + 1, !.checked = FALSE]
               d == [db EXCEPT !.dispatch[i] = b]
    <2>1. c.status \in {"queued", "submitted"}
      BY <1>5 DEF Report, IsOpen
    <2>2. Allowed(c, b)
      BY <1>c, <2>1, ReportedRow
    <2>3. \/ db' = d /\ flight' = flight
          \/ Recorded(d, i)
      BY <1>5 DEF Report
    <2> HIDE DEF b
    <2>4. Keeps(db, d)
      BY <2>2, RowStep
    <2> HIDE DEF d
    <2> QED BY <2>3, <2>4, HandledStep, RecordedStep
  <1> QED BY <1>1, <1>2, <1>3, <1>4, <1>5 DEF Worker

LEMMA PersonStep ==
  ASSUME IInv, NEW i \in Dispatches, Person(i)
  PROVE  GoodStep
  <1> DEFINE c == db.dispatch[i]
  <1>c. c \in Dispatch /\ RowGood(c) /\ db \in Database
    BY RowHere DEF IInv, Good
  <1>1. CASE Accept(i)
    <2> DEFINE b == [c EXCEPT !.accepted = TRUE]
               d == [db EXCEPT !.dispatch[i] = b]
    <2>1. Keeps(db, d)
      BY <1>c, RowChanges, RowStep
    <2>2. Recorded(d, i)
      BY <1>1 DEF Accept
    <2> HIDE DEF d
    <2> QED BY <2>1, <2>2, RecordedStep
  <1>2. CASE FeedbackReruns(i)
    <2>1. PICK s \in Steps : MayRerun(db, s) /\ Schedule(RerunRequested(db, s))
      BY <1>2 DEF FeedbackReruns
    <2>2. Keeps(db, RerunRequested(db, s))
      BY <2>1, RerunKeeps DEF IInv, MayRerun
    <2> QED BY <2>1, <2>2, HandledStep
  <1>3. CASE FeedbackReopens(i)
    <2> DEFINE b == [c EXCEPT !.status = "submitted", !.outcome = "none",
                              !.accepted = FALSE, !.checked = FALSE]
    <2>1. c.revision = 1
      BY <1>3 DEF FeedbackReopens
    <2>2. Keeps(db, [db EXCEPT !.dispatch[i] = b])
      BY <1>c, <2>1, RowChanges, RowStep
    <2>3. db' = [db EXCEPT !.dispatch[i] = b] /\ flight' = flight
      BY <1>3 DEF FeedbackReopens
    <2> HIDE DEF b
    <2> QED BY <2>2, <2>3, HandledStep
  <1>4. CASE CancelTask(i)
    <2> DEFINE b == [c EXCEPT !.status = "cancelled"]
    <2>1. Keeps(db, [db EXCEPT !.dispatch[i] = b])
      BY <1>c, RowChanges, RowStep
    <2>2. db' = [db EXCEPT !.dispatch[i] = b] /\ flight' = flight
      BY <1>4 DEF CancelTask, Alone
    <2> HIDE DEF b
    <2> QED BY <2>1, <2>2, HandledStep
  <1>5. CASE Decide(i)
    <2> DEFINE b == [c EXCEPT !.uncertain = FALSE]
    <2>1. Keeps(db, [db EXCEPT !.dispatch[i] = b])
      BY <1>c, RowChanges, RowStep
    <2>2. db' = [db EXCEPT !.dispatch[i] = b] /\ flight' = flight
      BY <1>5 DEF Decide, Alone
    <2> HIDE DEF b
    <2> QED BY <2>1, <2>2, HandledStep
  <1>6. CASE Check(i)
    <2> DEFINE b == [c EXCEPT !.checked = TRUE]
               d == [db EXCEPT !.dispatch[i] = b]
    <2>1. Keeps(db, d)
      BY <1>c, RowChanges, RowStep
    <2>2. Schedule(d) \/ (db' = d /\ flight' = flight)
      BY <1>6 DEF Check
    <2> HIDE DEF d
    <2> QED BY <2>1, <2>2, HandledStep
  <1> QED BY <1>1, <1>2, <1>3, <1>4, <1>5, <1>6 DEF Person

(* The step that the call in flight is at.                                 *)
LEMMA HeadIsStep ==
  ASSUME IInv, flight.todo # {}
  PROVE  Head1 \in flight.todo /\ Head1 \in Steps /\ Rest(flight.todo) \in SUBSET Steps
  <1>1. flight.todo \in SUBSET Steps
    BY DEF IInv, FlightGood, Flight
  <1>2. Head1 \in flight.todo
    BY <1>1, FirstIsOne DEF Head1
  <1> QED BY <1>1, <1>2 DEF Rest

(* The call in flight goes on with other locals, or looks at fewer steps.  *)
LEMMA FlightChanges ==
  ASSUME NEW d, NEW f, FlightGood(d, f)
  PROVE  /\ f.todo # {} => FlightGood(d, [f EXCEPT !.phase = "starting"])
         /\ \A S \in SUBSET Steps : f.phase = "ready" => FlightGood(d, [f EXCEPT !.todo = S])
         /\ \A n \in 0..MaxAttempts :
              f.todo # {} => FlightGood(d, [f EXCEPT !.phase = "creating", !.attempt = n])
  <1>1. f \in Flight
    BY DEF FlightGood
  <1>2. LET g == [f EXCEPT !.phase = "starting"]
        IN g \in Flight /\ g.phase = "starting" /\ g.todo = f.todo
    BY <1>1 DEF Flight
  <1>3. ASSUME NEW S \in SUBSET Steps
        PROVE  LET g == [f EXCEPT !.todo = S] IN g \in Flight /\ g.phase = f.phase
    BY <1>1 DEF Flight
  <1>4. ASSUME NEW n \in 0..MaxAttempts
        PROVE  LET g == [f EXCEPT !.phase = "creating", !.attempt = n]
               IN g \in Flight /\ g.phase = "creating" /\ g.todo = f.todo
    BY <1>1 DEF Flight
  <1> QED BY <1>2, <1>3, <1>4 DEF FlightGood

LEMMA NowKeeps ==
  ASSUME IInv
  PROVE  /\ Keeps(db, Now) /\ Good(Now) /\ FlightGood(Now, flight)
         /\ Len(Now.dispatch) = Len(db.dispatch)
  BY ReconciledKeeps, KeepsGood, FlightKept DEF IInv, Now, Keeps

(* The call returns or goes on, and nothing but the bindings is kept.      *)
LEMMA ReturnStep ==
  ASSUME IInv, NEW d, Keeps(db, d), Return(d)
  PROVE  GoodStep
  BY KeepsGood, IdleGood DEF IInv, Return, GoodStep, Keeps

(* A dispatch is created while the run runs and awaits no decision.        *)
CreateStep ==
  /\ Good(db') /\ FlightGood(db', flight')
  /\ Active(db) /\ ~\E s \in Steps : Issue(db, s)

LEMMA CreatingStep ==
  ASSUME IInv, Create
  PROVE  GoodStep \/ CreateStep
  <1>1. Head1 \in Steps /\ flight.todo # {}
    BY HeadIsStep DEF Create, At, IInv, FlightGood
  <1>2. CASE MayCreate(Now, Head1)
    <2>1. db' = Created(Now, Head1) /\ flight' = [flight EXCEPT !.phase = "starting"]
      BY <1>2 DEF Create
    <2>2. Now.status = "running" /\ ~HasDispatch(Now, Head1)
      BY <1>2 DEF MayCreate, StepIsReady
    <2>3. Active(db) /\ ~\E s \in Steps : Issue(db, s)
      <3>1. CASE ~Active(db)
        <4>1. Now = db
          BY <3>1 DEF Now, Reconciled
        <4> QED BY <2>2, <3>1, <4>1 DEF Active
      <3>2. CASE Active(db) /\ \E s \in Steps : Issue(db, s)
        <4>1. Now = [db EXCEPT !.status = "interrupted"]
          BY <3>2 DEF Now, Reconciled
        <4>2. Now.status = "interrupted"
          BY <4>1 DEF IInv, Good, Database
        <4> QED BY <2>2, <4>2
      <3> QED BY <3>1, <3>2
    <2>4. Good(db')
      BY <1>1, <2>1, <2>2, NowKeeps, CreatedGood
    <2>5. FlightGood(db', flight')
      <3>1. flight \in Flight
        BY DEF IInv, FlightGood
      <3>2. flight' \in Flight /\ flight'.phase = "starting" /\ flight'.todo = flight.todo
        BY <2>1, <3>1 DEF Flight
      <3> QED BY <1>1, <3>2 DEF FlightGood
    <2> QED BY <2>3, <2>4, <2>5 DEF CreateStep
  <1>3. CASE ~MayCreate(Now, Head1)
    BY <1>3, CaughtKeeps, ReturnStep DEF Create, IInv
  <1> QED BY <1>2, <1>3

LEMMA SchedulerStep ==
  ASSUME IInv, Scheduler
  PROVE  GoodStep \/ CreateStep
  <1>1. CASE Timer \/ Rescheduled
    <2>1. Go(StartFlight(db))
      BY <1>1 DEF Timer, Rescheduled
    <2> QED BY <2>1, StartFlightGood DEF IInv, Go, GoodStep
  <1>2. CASE EvidenceRead
    <2> DEFINE e == WithEvidence(db, Head1, flight)
               todo == Rest(flight.todo)
    <2>1. /\ flight.phase = "reading" /\ flight.todo # {} /\ flight \in Flight
          /\ Go(ReadNext(e, todo))
      BY <1>2 DEF EvidenceRead, At, IInv, FlightGood
    <2>2. Keeps(db, e) /\ Good(e) /\ Len(e.dispatch) = Len(db.dispatch)
      BY <2>1, HeadIsStep, WithEvidenceKeeps, KeepsGood DEF IInv, Keeps
    <2>3. todo \in SUBSET Steps /\ \A s \in todo : HasDispatch(e, s)
      <3>1. FlightGood(e, flight)
        BY <2>2, FlightKept DEF IInv
      <3> QED BY <2>1, <3>1, HeadIsStep DEF FlightGood, Rest
    <2> HIDE DEF e, todo
    <2> DEFINE x == ReadNext(e, todo)
    <2>4. Keeps(e, x.db) /\ FlightGood(x.db, x.flight)
      BY <2>2, <2>3, ReadNextGood
    <2>5. db' = x.db /\ flight' = x.flight
      BY <2>1 DEF Go
    <2> HIDE DEF x
    <2> QED BY <2>2, <2>4, <2>5, KeepsGood DEF GoodStep, Keeps
  <1>3. CASE ReadyLeaves
    BY <1>3, NowKeeps, ReturnStep DEF ReadyLeaves
  <1>4. CASE ReadySkips
    <2>1. /\ flight.phase = "ready" /\ flight.todo # {}
          /\ db' = Now /\ flight' = [flight EXCEPT !.todo = Rest(flight.todo)]
      BY <1>4 DEF ReadySkips, At
    <2>2. FlightGood(Now, flight')
      BY <2>1, NowKeeps, HeadIsStep, FlightChanges
    <2> QED BY <2>1, <2>2, NowKeeps DEF GoodStep
  <1>5. CASE BeginDispatch
    <2>1. /\ flight.todo # {} /\ db' = Now
          /\ flight' = [flight EXCEPT !.phase = "creating", !.attempt = Now.step[Head1].attempt]
      BY <1>5 DEF BeginDispatch, MayBeginDispatch
    <2>2. Now.step[Head1].attempt \in 0..MaxAttempts
      <3>1. Now.step[Head1] \in Step
        BY <2>1, HeadIsStep, NowKeeps DEF Good, Database
      <3> QED BY <3>1, Bounds DEF Step
    <2>3. FlightGood(Now, flight')
      BY <2>1, <2>2, NowKeeps, FlightChanges
    <2> QED BY <2>1, <2>3, NowKeeps DEF GoodStep
  <1>6. CASE ReadyEnds
    <2>1. PICK d \in {db, [db EXCEPT !.status = "completed"], Failed(db)} : Return(d)
      BY <1>6 DEF ReadyEnds
    <2>2. Keeps(db, d)
      BY KeepsReflexive, StatusKeeps, FailedKeeps DEF IInv, RunStatus
    <2> QED BY <2>1, <2>2, ReturnStep
  <1>7. CASE Create
    BY <1>7, CreatingStep
  <1>8. CASE CreateFails \/ StartThrows
    <2>1. Return(Caught(db, Head1))
      BY <1>8 DEF CreateFails, StartThrows
    <2> QED BY <2>1, CaughtKeeps, ReturnStep DEF IInv
  <1>9. CASE Started
    <2> DEFINE i == db.step[Head1].dispatch
               x == IF db.step[Head1].status # "queued" \/ db.dispatch[i].status # "submitted"
                      THEN db.step[Head1].status ELSE "running"
               f == [db.step EXCEPT ![Head1] = [db.step[Head1] EXCEPT !.status = x]]
               next == [db EXCEPT !.step = f]
    <2>1. Head1 \in Steps /\ flight.todo # {} /\ Rest(flight.todo) \in SUBSET Steps
      BY <1>9, HeadIsStep DEF Started, At, IInv, FlightGood
    <2>2. db \in Database /\ db.step \in [Steps -> Step] /\ db.step[Head1] \in Step
      BY <2>1, DatabaseFields DEF IInv, Good
    <2>3. Keeps(db, next) /\ Good(next)
      <3>1. x \in StepStatus
        BY <2>2 DEF Step, StepStatus
      <3> HIDE DEF x
      <3> DEFINE t == [db.step[Head1] EXCEPT !.status = x]
      <3>2. t \in Step /\ StepKeeps(db.step[Head1], t)
        BY <2>1, <3>1, StepFieldsKeep DEF IInv
      <3>3. f = [db.step EXCEPT ![Head1] = t]
        OBVIOUS
      <3> HIDE DEF t, f
      <3>4. \A s \in Steps : StepKeeps(db.step[s], db.step[s])
        BY KeepsReflexive DEF Keeps, IInv
      <3>5. f \in [Steps -> Step] /\ \A s \in Steps : StepKeeps(db.step[s], f[s])
        BY <2>1, <2>2, <3>2, <3>3, <3>4
      <3>6. Keeps(db, next)
        BY <3>5, StepsKeep DEF IInv
      <3> HIDE DEF next
      <3> QED BY <3>6, KeepsGood DEF IInv
    <2>4. next = [db EXCEPT !.step[Head1].status =
                    IF @ # "queued" \/ db.dispatch[i].status # "submitted" THEN @ ELSE "running"]
      OBVIOUS
    <2>5. \/ Return(Cancel(db, {i}))
          \/ /\ db' = Reconciled(next)
             /\ flight' = [Idle EXCEPT !.phase = "ready", !.todo = Rest(flight.todo)]
      <3> HIDE DEF next
      <3> QED BY <1>9, <2>4 DEF Started
    <2> HIDE DEF next
    <2>6. CASE Return(Cancel(db, {i}))
      BY <2>6, CancelKeeps, ReturnStep DEF IInv
    <2>7. CASE /\ db' = Reconciled(next)
               /\ flight' = [Idle EXCEPT !.phase = "ready", !.todo = Rest(flight.todo)]
      <3>1. Keeps(next, db')
        BY <2>3, <2>7, ReconciledKeeps
      <3>2. FlightGood(db', flight')
        BY <2>1, <2>7, ReadyFlightGood
      <3> QED BY <2>3, <3>1, <3>2, KeepsGood DEF GoodStep, Keeps
    <2> QED BY <2>5, <2>6, <2>7
  <1> QED BY <1>1, <1>2, <1>3, <1>4, <1>5, <1>6, <1>7, <1>8, <1>9 DEF Scheduler

(* What a refreshQuality that is cut off leaves.                           *)
LEMMA CutOffStep ==
  ASSUME IInv, EvidenceDies \/ EvidenceThrows
  PROVE  GoodStep
  <1>g. Good(db) /\ db \in Database
    BY DEF IInv, Good
  <1>1. /\ Head1 \in Steps /\ flight \in Flight /\ StillCurrent(db, Head1, flight)
    <2>1. flight \in Flight /\ flight.todo # {}
      BY DEF EvidenceDies, EvidenceThrows, At, IInv, FlightGood
    <2> QED BY <2>1, HeadIsStep DEF EvidenceDies, EvidenceThrows
  <1>2. Keeps(db, Judged(db, Head1, flight))
    BY <1>g, <1>1, JudgedParts
  <1>3. \A ids : LET p == PartlyJudged(db, Head1, flight, ids) IN Keeps(db, p) /\ Good(p)
    BY <1>g, <1>1, PartParts
  <1>4. CASE EvidenceDies
    <2>1. Keeps(db, db') /\ flight' = Idle
      BY <1>2, <1>3, <1>4 DEF EvidenceDies
    <2> QED BY <1>g, <2>1, KeepsGood, IdleGood DEF GoodStep, Keeps
  <1>5. CASE EvidenceThrows
    <2> DEFINE p(ids) == PartlyJudged(db, Head1, flight, ids)
               next(ids) == IF woken THEN StartFlight(p(ids))
                                     ELSE [db |-> p(ids), flight |-> Idle]
    <2>1. PICK ids \in SUBSET Bound(db, Stales) :
            \/ Return(p(ids))
            \/ /\ db' = Failed(next(ids).db)
               /\ flight' = IF next(ids).flight.phase = "reading"
                              THEN next(ids).flight ELSE Idle
      BY <1>5 DEF EvidenceThrows
    <2>2. CASE Return(p(ids))
      BY <1>3, <2>2, ReturnStep
    <2>3. CASE /\ db' = Failed(next(ids).db)
               /\ flight' = IF next(ids).flight.phase = "reading"
                              THEN next(ids).flight ELSE Idle
      <3> DEFINE x == next(ids)
      <3>1. Keeps(db, p(ids)) /\ Good(p(ids))
        BY <1>3
      <3> HIDE DEF p
      <3>2. Good(x.db) /\ FlightGood(x.db, x.flight) /\ Len(x.db.dispatch) = Len(db.dispatch)
        BY <3>1, StartFlightGood, IdleGood DEF Keeps
      <3> HIDE DEF x
      <3>3. Keeps(x.db, db')
        BY <2>3, <3>2, FailedKeeps DEF x
      <3>4. FlightGood(db', flight')
        BY <2>3, <3>2, <3>3, FlightKept, IdleGood DEF x
      <3> QED BY <3>2, <3>3, <3>4, KeepsGood DEF GoodStep, Keeps
    <2> QED BY <2>1, <2>2, <2>3
  <1> QED BY <1>4, <1>5

LEMMA OtherStep ==
  ASSUME IInv, (\E s \in Steps : Rerun(s)) \/ Stop \/ Restart
  PROVE  GoodStep
  <1>g. Good(db) /\ db \in Database
    BY DEF IInv, Good
  <1>1. ASSUME NEW s \in Steps, Rerun(s) PROVE GoodStep
    <2> DEFINE d == StopReconciled(db)
    <2>1. Keeps(db, d) /\ Good(d)
      BY <1>g, StoppedKeeps, KeepsGood
    <2>2. d.step = db.step
      BY <1>g DEF StopReconciled, Cancel, Database
    <2> HIDE DEF d
    <2>3. Keeps(d, RerunRequested(d, s))
      BY <1>1, <2>1, <2>2, RerunKeeps DEF Rerun, MayRerun
    <2>4. Keeps(db, RerunRequested(d, s))
      BY <1>g, <2>1, <2>3, KeepsTransitive
    <2>5. Schedule(RerunRequested(d, s))
      BY <1>1 DEF Rerun, d
    <2> QED BY <2>4, <2>5, HandledStep
  <1>2. CASE Stop
    <2> DEFINE d == IF db.status = "stopped" THEN db ELSE Stopped(db)
    <2>1. Keeps(db, d) /\ Good(d)
      BY <1>g, KeepsReflexive, StoppedKeeps, KeepsGood
    <2>2. flight' = flight /\ \E ids \in SUBSET PendingStops(d) : db' = Cancel(d, ids)
      BY <1>2 DEF Stop
    <2> HIDE DEF d
    <2>3. PICK ids : db' = Cancel(d, ids)
      BY <2>2
    <2>4. Keeps(db, Cancel(d, ids))
      BY <1>g, <2>1, CancelKeeps, KeepsTransitive
    <2> QED BY <2>2, <2>3, <2>4, HandledStep
  <1>3. CASE Restart
    BY <1>3, IdleGood DEF Restart, GoodStep, IInv
  <1> QED BY <1>1, <1>2, <1>3

-----------------------------------------------------------------------------
LEMMA EveryStep ==
  ASSUME IInv, Next
  PROVE  GoodStep \/ CreateStep
  BY SchedulerStep, CutOffStep, WorkerStep, PersonStep, OtherStep DEF Next

LEMMA CountersType ==
  ASSUME IInv, Next
  PROVE  woken' \in BOOLEAN /\ restarts' \in 0..MaxRestarts
  <1> DEFINE Kept == woken' \in {woken, TRUE, FALSE} /\ restarts' = restarts
  <1>1. CASE Scheduler
    <2>1. ASSUME Timer \/ Rescheduled \/ EvidenceRead PROVE Kept
      BY <2>1 DEF Timer, Rescheduled, EvidenceRead
    <2>2. ASSUME ReadyLeaves \/ ReadySkips \/ BeginDispatch \/ ReadyEnds PROVE Kept
      BY <2>2 DEF ReadyLeaves, ReadySkips, BeginDispatch, ReadyEnds
    <2>3. ASSUME Create \/ CreateFails \/ Started \/ StartThrows PROVE Kept
      BY <2>3 DEF Create, CreateFails, Started, StartThrows
    <2> HIDE DEF Kept
    <2>4. Kept
      BY <1>1, <2>1, <2>2, <2>3 DEF Scheduler
    <2> QED BY <2>4 DEF IInv, Kept
  <1>2. ASSUME NEW d, Schedule(d) \/ DispatchReady(d)
        PROVE  woken' \in {woken, TRUE, FALSE}
    BY <1>2 DEF Schedule, DispatchReady
  <1>3. ASSUME NEW d, NEW i, Recorded(d, i)
        PROVE  woken' \in {woken, TRUE, FALSE}
    BY <1>2, <1>3 DEF Recorded
  <1>4. ASSUME NEW i \in Dispatches, Worker(i) \/ Person(i)
        PROVE  woken' \in {woken, TRUE, FALSE} /\ restarts' = restarts
    <2>1. CASE Submit(i) \/ ConfirmCancellation(i) \/ Doubt(i) \/ Commit(i)
      BY <2>1 DEF Submit, ConfirmCancellation, Doubt, Commit, Alone
    <2>2. CASE \E outcome \in Outcomes, told \in BOOLEAN : Report(i, outcome, told)
      BY <1>3, <2>2 DEF Report
    <2>3. CASE Accept(i) \/ FeedbackReruns(i)
      BY <1>2, <1>3, <2>3 DEF Accept, FeedbackReruns
    <2>4. CASE FeedbackReopens(i) \/ CancelTask(i) \/ Decide(i)
      BY <2>4 DEF FeedbackReopens, CancelTask, Decide, Alone
    <2>5. CASE Check(i)
      BY <1>2, <2>5 DEF Check
    <2> QED BY <1>4, <2>1, <2>2, <2>3, <2>4, <2>5 DEF Worker, Person
  <1>5. ASSUME NEW s \in Steps, Rerun(s)
        PROVE  woken' \in {woken, TRUE, FALSE} /\ restarts' = restarts
    BY <1>2, <1>5 DEF Rerun
  <1>6. CASE Stop
    BY <1>6 DEF Stop, IInv
  <1>7. CASE Restart
    <2>1. MaxRestarts \in Nat
      BY Parameters
    <2>2. restarts \in 0..MaxRestarts /\ restarts < MaxRestarts
          /\ restarts' = restarts + 1 /\ woken' = FALSE
      BY <1>7 DEF Restart, IInv
    <2>3. restarts + 1 \in 0..MaxRestarts
      BY <2>1, <2>2
    <2> QED BY <2>2, <2>3
  <1>e. CASE EvidenceDies
    <2>1. MaxRestarts \in Nat
      BY Parameters
    <2>2. restarts \in 0..MaxRestarts /\ restarts < MaxRestarts
          /\ restarts' = restarts + 1 /\ woken' = FALSE
      BY <1>e DEF EvidenceDies, IInv
    <2>3. restarts + 1 \in 0..MaxRestarts
      BY <2>1, <2>2
    <2> QED BY <2>2, <2>3
  <1>t. CASE EvidenceThrows
    BY <1>t DEF EvidenceThrows, IInv
  <1>8. woken \in BOOLEAN /\ restarts \in 0..MaxRestarts
    BY DEF IInv
  <1>9. CASE \E i \in Dispatches : Worker(i) \/ Person(i)
    BY <1>4, <1>8, <1>9
  <1>10. CASE \E s \in Steps : Rerun(s)
    BY <1>5, <1>8, <1>10
  <1> HIDE DEF Kept
  <1> QED BY <1>1, <1>6, <1>7, <1>9, <1>10, <1>e, <1>t DEF Next

LEMMA IInvIsInductive == IInv /\ [Next]_vars => IInv'
  <1>1. ASSUME IInv, Next PROVE IInv'
    BY <1>1, EveryStep, CountersType DEF GoodStep, CreateStep, IInv
  <1>2. ASSUME IInv, UNCHANGED vars PROVE IInv'
    BY <1>2 DEF vars, IInv, Good, FlightGood, AttemptsGrow, RowBound, StepBound, HasDispatch
  <1> QED BY <1>1, <1>2

(* Every state of a run is good: its rows and steps are bound to each      *)
(* other, and later dispatches of a step are of later attempts.            *)
THEOREM AlwaysGood == Spec => []IInv
  BY InitGood, IInvIsInductive, PTL DEF Spec

(* The run, its dispatches and the flight have their types, whatever the   *)
(* definition of the workflow and the bounds (workflow-run-store.ts).      *)
THEOREM WorkflowTypeCorrect == Spec => []TypeOK
  <1>1. IInv => TypeOK
    BY DEF IInv, Good, FlightGood, TypeOK, Database
  <1> QED BY <1>1, AlwaysGood, PTL

(* No attempt of a step of any workflow is dispatched twice, whatever      *)
(* reruns, stops, deaths and failed starts come between choosing a step    *)
(* and creating its dispatch (onCreated, settleRerun).                     *)
THEOREM AttemptsAreDispatchedOnce == Spec => []EachAttemptIsDispatchedOnce
  <1>1. ASSUME IInv PROVE EachAttemptIsDispatchedOnce
    <2> SUFFICES ASSUME NEW i \in Dispatches, NEW j \in Dispatches,
                        db.dispatch[i].step = db.dispatch[j].step,
                        db.dispatch[i].attempt = db.dispatch[j].attempt
                 PROVE  i = j
      BY DEF EachAttemptIsDispatchedOnce
    <2>1. i \in 1..Len(db.dispatch) /\ j \in 1..Len(db.dispatch) /\ Len(db.dispatch) \in Nat
      BY <1>1, DatabaseFields DEF IInv, Good, Dispatches
    <2>2. db.dispatch[i].attempt \in Nat
      BY <1>1, <2>1, DatabaseFields, RowNumbers DEF IInv, Good
    <2>3. ~(i < j) /\ ~(j < i)
      BY <1>1, <2>1, <2>2 DEF IInv, Good, AttemptsGrow
    <2> QED BY <2>1, <2>3
  <1> QED BY <1>1, AlwaysGood, PTL

(* An attempt of a step follows only on attempts that reported or whose    *)
(* workers are known to have stopped (settleRerun).                        *)
THEOREM AttemptsNeverOverlap == Spec => []AttemptsDoNotOverlap
  <1>1. ASSUME IInv PROVE AttemptsDoNotOverlap
    <2> SUFFICES ASSUME NEW i \in Dispatches, NEW j \in Dispatches, i < j,
                        db.dispatch[i].step = db.dispatch[j].step
                 PROVE  Over(db.dispatch[i])
      BY DEF AttemptsDoNotOverlap, Over
    <2> DEFINE s == db.dispatch[i].step
    <2>1. /\ i \in 1..Len(db.dispatch) /\ j \in 1..Len(db.dispatch)
          /\ s \in Steps
          /\ db.dispatch[i].attempt \in Nat /\ db.dispatch[j].attempt \in Nat
          /\ db.step[s].attempt \in Nat
      BY <1>1, DatabaseFields, RowNumbers DEF IInv, Good, Dispatches, Step
    <2>2. db.dispatch[i].attempt < db.dispatch[j].attempt
      BY <1>1, <2>1 DEF IInv, Good, AttemptsGrow
    <2>3. RowBound(db, i) /\ RowBound(db, j) /\ StepBound(db, s)
      BY <1>1, <2>1 DEF IInv, Good
    <2>4. db.dispatch[i].attempt # db.step[s].attempt
      BY <2>1, <2>2, <2>3 DEF RowBound
    <2>5. db.step[s].dispatch # i
      <3>1. i # 0
        BY <1>1, DatabaseFields DEF IInv, Good, Dispatches
      <3>2. db.step[s].dispatch # 0 =>
              db.dispatch[db.step[s].dispatch].attempt = db.step[s].attempt
        BY <2>3 DEF StepBound
      <3> HIDE DEF s
      <3> QED BY <2>4, <3>1, <3>2
    <2> QED BY <2>3, <2>5 DEF RowBound
  <1> QED BY <1>1, AlwaysGood, PTL

(* A dispatch is created only while the run is active and nothing of it    *)
(* waits for a person, though the step was chosen before an await          *)
(* (README.md:217, onCreated).                                             *)
THEOREM NewWorkWaits == Spec => NewWorkAwaitsDecisions
  <1>1. ASSUME IInv, [Next]_vars
        PROVE  [Len(db'.dispatch) > Len(db.dispatch) =>
                  Active(db) /\ ~\E s \in Steps : Issue(db, s)]_vars
    <2>1. CASE UNCHANGED vars
      BY <2>1
    <2>2. CASE Next
      <3>1. Len(db.dispatch) \in Nat
        BY <1>1, DatabaseFields DEF IInv, Good
      <3> QED BY <1>1, <2>2, <3>1, EveryStep DEF GoodStep, CreateStep
    <2> QED BY <1>1, <2>1, <2>2
  <1> QED BY <1>1, AlwaysGood, PTL DEF Spec, NewWorkAwaitsDecisions

-----------------------------------------------------------------------------
(* Results, and work that nobody has touched.                              *)

(* A result stands only while its step is complete and not held back.      *)
ResultSound(d, s) ==
  d.step[s].result # NoResult =>
    /\ d.step[s].status = "completed" /\ ~OnHold(d, s)
    /\ HasDispatch(d, s) /\ d.step[s].result.dispatch = d.step[s].dispatch

(* Work goes on only with the results that stand.                          *)
UsedSound(d, s) ==
  HasDispatch(d, s) /\ ~OnHold(d, s) =>
    \A n \in Needs[s] : /\ d.step[n].result # NoResult
                        /\ d.step[s].used[n] = d.step[n].result

(* K: the steps whose work is known to go on with the results that stand.  *)
ResultsSound(d, K) ==
  /\ \A s \in Steps : ResultSound(d, s)
  /\ \A s \in K \cap Steps : UsedSound(d, s)

(* A dispatch that was never reported keeps its step at work, waits with   *)
(* it for a rerun or is left to the stop of the run.                       *)
Fresh(c) == c.status \in {"queued", "submitted"} /\ c.revision = 0

Excused(status, s) ==
  \/ s.rerunPending
  \/ s.status \in {"queued", "running"} /\ status \in {"running", "interrupted", "completed"}
  \/ s.status = "stopped" /\ status = "stopped"

RowFine(d, i) ==
  /\ d.dispatch[i].confirmed => d.dispatch[i].status = "cancelled"
  /\ Fresh(d.dispatch[i]) => Excused(d.status, d.step[d.dispatch[i].step])

RowsFine(d) == \A i \in 1..Len(d.dispatch) : RowFine(d, i)

Fine(d, K) == ResultsSound(d, K) /\ RowsFine(d)

(* What is below a step: closed, and never above it.                       *)
LEMMA DownstreamSteps ==
  ASSUME NEW s \in Steps
  PROVE  /\ Downstream({s}) \subseteq Steps /\ s \in Downstream({s})
         /\ \A u \in Steps : \A n \in Needs[u] : n \in Downstream({s}) => u \in Downstream({s})
         /\ \A n \in Needs[s] : n \notin Downstream({s})
  <1>1. Downstream({s}) \subseteq Steps /\ s \in Downstream({s})
    BY DEF Downstream
  <1>2. ASSUME NEW u \in Steps, NEW n \in Needs[u], n \in Downstream({s})
        PROVE  u \in Downstream({s})
    <2> SUFFICES ASSUME NEW A \in SUBSET Steps, {s} \subseteq A,
                        \A x \in Steps : Needs[x] \cap A # {} => x \in A
                 PROVE  u \in A
      BY DEF Downstream
    <2>1. n \in A
      BY <1>2 DEF Downstream
    <2> QED BY <1>2, <2>1
  <1>3. ASSUME NEW n \in Needs[s], n \in Downstream({s})
        PROVE  FALSE
    <2>1. PICK depth \in [Steps -> 1..Len(Order)] :
            \A x \in Steps : \A y \in Needs[x] : depth[y] < depth[x]
      BY WorkflowAssumption
    <2>2. Len(Order) \in Nat /\ \A x \in Steps : depth[x] \in Nat /\ Needs[x] \subseteq Steps
      <3>1. Len(Order) \in Nat
        BY Parameters, LenProperties
      <3>2. \A x \in Steps : depth[x] \in Nat
        BY <3>1
      <3> QED BY <3>1, <3>2, Parameters
    <2> DEFINE A == {x \in Steps : x = s \/ depth[s] < depth[x]}
    <2>3. \A x \in Steps : Needs[x] \cap A # {} => x \in A
      <3> SUFFICES ASSUME NEW x \in Steps, NEW y \in Needs[x], y \in A
                   PROVE  x \in A
        OBVIOUS
      <3>1. depth[y] < depth[x] /\ y \in Steps
        BY <2>1, <2>2
      <3> QED BY <2>2, <3>1
    <2>4. n \in A
      <3> HIDE DEF A
      <3>1. A \in SUBSET Steps /\ {s} \subseteq A
        BY DEF A
      <3> QED BY <1>3, <2>3, <3>1 DEF Downstream
    <2>5. depth[n] < depth[s] /\ n \in Steps
      BY <1>3, <2>1, <2>2
    <2> QED BY <2>2, <2>4, <2>5
  <1> QED BY <1>1, <1>2, <1>3

-----------------------------------------------------------------------------
(* Changes of statuses leave the results as they are.                      *)
Quiet(s, t) ==
  /\ t.result = s.result /\ t.used = s.used /\ t.dispatch = s.dispatch
  /\ t.rerunPending = s.rerunPending /\ t.needsRerun = s.needsRerun
  /\ s.status = "completed" => t.status = "completed"

(* Quiet changes keep the results sound.                                   *)
LEMMA QuietResults ==
  ASSUME NEW K, NEW d, NEW e, ResultsSound(d, K), \A s \in Steps : Quiet(d.step[s], e.step[s])
  PROVE  ResultsSound(e, K)
  <1>1. \A s \in Steps : Needs[s] \subseteq Steps
    BY Parameters
  <1>2. ASSUME NEW s \in Steps PROVE ResultSound(e, s)
    BY <1>2 DEF ResultsSound, ResultSound, Quiet, OnHold, HasDispatch
  <1>3. ASSUME NEW s \in K \cap Steps PROVE UsedSound(e, s)
    BY <1>1, <1>3 DEF ResultsSound, UsedSound, Quiet, OnHold, HasDispatch
  <1> QED BY <1>2, <1>3 DEF ResultsSound

(* The steps alone decide which results are sound.                         *)
LEMMA SameSteps ==
  ASSUME NEW K, NEW d, NEW e, Fine(d, K), e.step = d.step
  PROVE  ResultsSound(e, K)
  BY QuietResults DEF Fine, Quiet

(* A dispatch nobody touched is the one of its step.                       *)
LEMMA FreshIsBound ==
  ASSUME NEW d, Good(d), RowsFine(d), NEW i \in 1..Len(d.dispatch), Fresh(d.dispatch[i])
  PROVE  /\ d.dispatch[i] \in Dispatch /\ d.dispatch[i].step \in Steps
         /\ d.step[d.dispatch[i].step].dispatch = i /\ i # 0
  <1>1. d.dispatch[i] \in Dispatch /\ i # 0
    BY DatabaseFields DEF Good
  <1>2. ~Over(d.dispatch[i])
    BY <1>1 DEF Over, Fresh, RowsFine, RowFine
  <1> QED BY <1>1, <1>2, RowNumbers DEF Good, RowBound

(* What is left of the rows after a cancellation.                          *)
LEMMA CancelledRows ==
  ASSUME NEW d, Good(d), NEW ids
  PROVE  LET c == Cancel(d, ids)
         IN /\ c.step = d.step /\ c.status = d.status /\ Len(c.dispatch) = Len(d.dispatch)
            /\ Len(d.dispatch) \in Nat
            /\ \A i \in 1..Len(d.dispatch) :
                 /\ c.dispatch[i].step = d.dispatch[i].step
                 /\ c.dispatch[i].confirmed = d.dispatch[i].confirmed
                 /\ c.dispatch[i].status \in {d.dispatch[i].status, "cancelled"}
                 /\ Fresh(c.dispatch[i]) => Fresh(d.dispatch[i]) /\ i \notin ids
  <1> DEFINE c == Cancel(d, ids)
  <1>1. Keeps(d, c) /\ d \in Database /\ Len(d.dispatch) \in Nat
    BY CancelKeeps, DatabaseFields DEF Good
  <1>2. c.step = d.step /\ c.status = d.status /\ Len(c.dispatch) = Len(d.dispatch)
    BY <1>1 DEF Keeps, Cancel, Database
  <1>3. ASSUME NEW i \in 1..Len(d.dispatch)
        PROVE  /\ c.dispatch[i].step = d.dispatch[i].step
               /\ c.dispatch[i].confirmed = d.dispatch[i].confirmed
               /\ c.dispatch[i].status \in {d.dispatch[i].status, "cancelled"}
               /\ Fresh(c.dispatch[i]) => Fresh(d.dispatch[i]) /\ i \notin ids
    <2>1. d.dispatch[i] \in Dispatch /\ i \in DOMAIN d.dispatch
      BY <1>1, DatabaseFields
    <2>2. c.dispatch[i] = IF i \in ids /\ IsOpen(d, i)
                            THEN [d.dispatch[i] EXCEPT !.status = "cancelled"]
                            ELSE d.dispatch[i]
      BY <1>1, <2>1 DEF Cancel, Database
    <2> HIDE DEF c
    <2>3. CASE i \in ids /\ IsOpen(d, i)
      BY <2>1, <2>2, <2>3 DEF Dispatch, Fresh
    <2>4. CASE ~(i \in ids /\ IsOpen(d, i))
      BY <2>2, <2>4 DEF Fresh, IsOpen
    <2> QED BY <2>3, <2>4
  <1> QED BY <1>1, <1>2, <1>3

(* Rows that are only cancelled stay fine where their steps stay excused.  *)
LEMMA FewerRows ==
  ASSUME NEW d, Good(d), RowsFine(d), NEW ids, NEW e, e.dispatch = Cancel(d, ids).dispatch,
         \A i \in 1..Len(d.dispatch) \ ids :
           LET s == d.dispatch[i].step
           IN /\ Fresh(d.dispatch[i]) /\ s \in Steps
              /\ d.step[s].dispatch = i /\ i # 0
              /\ Excused(d.status, d.step[s])
              => Excused(e.status, e.step[s])
  PROVE  RowsFine(e)
  <1> DEFINE c == Cancel(d, ids)
  <1>1. /\ Len(c.dispatch) = Len(d.dispatch) /\ Len(d.dispatch) \in Nat
        /\ \A i \in 1..Len(d.dispatch) :
             /\ c.dispatch[i].step = d.dispatch[i].step
             /\ c.dispatch[i].confirmed = d.dispatch[i].confirmed
             /\ c.dispatch[i].status \in {d.dispatch[i].status, "cancelled"}
             /\ Fresh(c.dispatch[i]) => Fresh(d.dispatch[i]) /\ i \notin ids
    BY CancelledRows
  <1> HIDE DEF c
  <1>2. e.dispatch = c.dispatch
    BY DEF c
  <1> SUFFICES ASSUME NEW i \in 1..Len(d.dispatch)
               PROVE  RowFine(e, i)
    BY <1>1, <1>2 DEF RowsFine
  <1>3. RowFine(d, i)
    BY DEF RowsFine
  <1>4. ASSUME Fresh(e.dispatch[i])
        PROVE  Excused(e.status, e.step[e.dispatch[i].step])
    <2>1. Fresh(d.dispatch[i]) /\ i \notin ids /\ e.dispatch[i].step = d.dispatch[i].step
      BY <1>1, <1>2, <1>4
    <2> QED BY <1>3, <2>1, FreshIsBound DEF RowFine
  <1> QED BY <1>1, <1>2, <1>3, <1>4 DEF RowFine

(* Rows that stay as they are.                                             *)
LEMMA SameRows ==
  ASSUME NEW d, Good(d), RowsFine(d), NEW e, e.dispatch = d.dispatch,
         \A i \in 1..Len(d.dispatch) :
           LET s == d.dispatch[i].step
           IN /\ Fresh(d.dispatch[i]) /\ s \in Steps
              /\ d.step[s].dispatch = i /\ i # 0
              /\ Excused(d.status, d.step[s])
              => Excused(e.status, e.step[s])
  PROVE  RowsFine(e)
  BY FreshIsBound DEF RowsFine, RowFine

-----------------------------------------------------------------------------
(* Every operator keeps what is fine so.                                   *)
LEMMA ReconciledFine ==
  ASSUME NEW K, NEW d, Good(d), Fine(d, K)
  PROVE  Fine(Reconciled(d), K)
  <1> DEFINE e == Reconciled(d)
  <1>1. /\ e.step = d.step /\ e.dispatch = d.dispatch
        /\ e.status = d.status \/ {d.status, e.status} \subseteq {"running", "interrupted"}
    <2>1. d \in Database
      BY DEF Good
    <2> QED BY <2>1 DEF Reconciled, Active, Database
  <1> HIDE DEF e
  <1>2. RowsFine(e)
    BY <1>1, SameRows DEF Fine, Excused
  <1> QED BY <1>1, <1>2, SameSteps DEF Fine, e

(* After the decisions of a run are applied again.                         *)
LEMMA ApplyFine ==
  ASSUME NEW K, NEW d, Good(d), Fine(d, K), NEW S
  PROVE  Fine(Apply(d, S), K)
  <1> DEFINE T == {s \in S : AwaitsReport(d, s)}
             f == [s \in Steps |-> IF s \in T THEN WithReport(d, s) ELSE d.step[s]]
             m == [d EXCEPT !.step = f]
             e == Finish(m)
  <1> SUFFICES ASSUME Active(d) PROVE Fine(Apply(d, S), K)
    BY DEF Apply
  <1>1. d \in Database /\ Apply(d, S) = e
    BY DEF Good, Apply, Replace
  <1>2. /\ e.step = f /\ e.dispatch = d.dispatch
        /\ e.status \in {"running", "interrupted", "completed"}
    BY <1>1 DEF Finish, Active, Database
  <1> HIDE DEF e, m
  <1>3. ASSUME NEW s \in Steps, s \in T
        PROVE  /\ f[s].used = d.step[s].used /\ f[s].dispatch = d.step[s].dispatch
               /\ OnHold(e, s) = FALSE /\ OnHold(d, s) = FALSE
               /\ d.step[s].status # "completed" /\ HasDispatch(d, s)
               /\ f[s].result # NoResult =>
                    f[s].status = "completed" /\ f[s].result.dispatch = d.step[s].dispatch
    <2>1. /\ HasDispatch(d, s) /\ ~OnHold(d, s) /\ d.step[s].status # "completed"
          /\ d.step[s] \in Step
      BY <1>1, <1>3, DatabaseFields DEF AwaitsReport
    <2>2. f[s] = WithReport(d, s)
      BY <1>3
    <2>3. /\ f[s].used = d.step[s].used /\ f[s].dispatch = d.step[s].dispatch
          /\ f[s].rerunPending = d.step[s].rerunPending
          /\ f[s].needsRerun = d.step[s].needsRerun
          /\ f[s].status = ReportStatus(s, CurrentOf(d, s))
          /\ f[s].result = IF s \notin Quality /\ Advances(CurrentOf(d, s))
                             THEN [dispatch |-> d.step[s].dispatch,
                                   revision |-> CurrentOf(d, s).revision, commit |-> 0]
                             ELSE NoResult
      <3> HIDE DEF f
      <3> QED BY <2>1, <2>2 DEF WithReport, Step
    <2> HIDE DEF f, T
    <2> QED BY <1>2, <2>1, <2>3 DEF OnHold, ReportStatus
  <1>4. \A s \in Steps : s \notin T => f[s] = d.step[s]
    OBVIOUS
  <1>t. \A s \in T : AwaitsReport(d, s)
    OBVIOUS
  <1> HIDE DEF f, T
  <1>5. ASSUME NEW s \in Steps PROVE ResultSound(e, s)
    <2>1. CASE s \in T
      BY <1>2, <1>3, <2>1 DEF ResultSound, HasDispatch
    <2>2. CASE s \notin T
      BY <1>2, <1>4, <2>2 DEF Fine, ResultsSound, ResultSound, HasDispatch, OnHold
    <2> QED BY <2>1, <2>2
  <1>6. ASSUME NEW s \in K \cap Steps PROVE UsedSound(e, s)
    <2> SUFFICES ASSUME HasDispatch(e, s), ~OnHold(e, s), NEW n \in Needs[s]
                 PROVE  e.step[n].result # NoResult /\ e.step[s].used[n] = e.step[n].result
      BY DEF UsedSound
    <2>1. HasDispatch(d, s) /\ ~OnHold(d, s) /\ e.step[s].used = d.step[s].used
      BY <1>2, <1>3, <1>4 DEF HasDispatch, OnHold
    <2>2. n \in Steps
      BY Parameters
    <2>3. d.step[n].result # NoResult /\ d.step[s].used[n] = d.step[n].result
      BY <2>1 DEF Fine, ResultsSound, UsedSound
    <2>4. d.step[n].status = "completed"
      BY <2>2, <2>3 DEF Fine, ResultsSound, ResultSound
    <2>5. n \notin T
      BY <1>3, <2>2, <2>4
    <2> QED BY <1>2, <1>4, <2>1, <2>2, <2>3, <2>5
  <1>7. RowsFine(e)
    <2> SUFFICES ASSUME NEW i \in 1..Len(d.dispatch), NEW s \in Steps,
                        Fresh(d.dispatch[i]), d.step[s].dispatch = i,
                        Excused(d.status, d.step[s])
                 PROVE  Excused(e.status, e.step[s])
      BY <1>2, SameRows DEF Fine
    <2>1. s \notin T
      BY <1>t DEF AwaitsReport, IsReported, Fresh
    <2> QED BY <1>2, <1>4, <2>1 DEF Excused, Active
  <1> QED BY <1>1, <1>5, <1>6, <1>7 DEF Fine, ResultsSound

(* A cancellation touches rows only.                                       *)
LEMMA CancelFine ==
  ASSUME NEW K, NEW d, Good(d), Fine(d, K), NEW ids
  PROVE  Fine(Cancel(d, ids), K)
  <1> DEFINE c == Cancel(d, ids)
  <1>1. c.step = d.step /\ c.status = d.status
    BY CancelledRows
  <1> HIDE DEF c
  <1>2. c.dispatch = Cancel(d, ids).dispatch
    BY DEF c
  <1>3. RowsFine(c)
    BY <1>1, <1>2, FewerRows DEF Fine
  <1> QED BY <1>1, <1>3, SameSteps DEF Fine, c

(* A failed run stops its open steps and cancels their rows.               *)
LEMMA FailedFine ==
  ASSUME NEW K, NEW d, Good(d), Fine(d, K)
  PROVE  Fine(Failed(d), K)
  <1> DEFINE open == {s \in Steps : d.step[s].status \in {"queued", "running"}}
             S == {s \in Steps : d.step[s].status \in
                     {"queued", "running", "blocked", "awaiting_review"}}
             ids == Bound(d, open)
             c == Cancel(d, ids)
             e == Failed(d)
  <1> SUFFICES ASSUME Active(d) PROVE Fine(e, K)
    BY DEF Failed
  <1>1. c \in Database /\ c.step = d.step /\ \A s \in Steps : d.step[s] \in Step
    BY CancelKeeps, CancelledRows, DatabaseFields DEF Keeps, Good
  <1>2. e = [[c EXCEPT !.step = [s \in Steps |-> IF s \in S
                 THEN [c.step[s] EXCEPT !.status = "failed"] ELSE c.step[s]]]
             EXCEPT !.status = "failed"]
    BY DEF Failed, Replace
  <1> HIDE DEF c, e
  <1>3. /\ e.dispatch = c.dispatch /\ e.status = "failed"
        /\ e.step = [s \in Steps |-> IF s \in S THEN [d.step[s] EXCEPT !.status = "failed"]
                                                ELSE d.step[s]]
    BY <1>1, <1>2 DEF Database
  <1>4. ASSUME NEW s \in Steps, Excused(d.status, d.step[s]), d.step[s].dispatch \notin ids,
               d.step[s].dispatch # 0
        PROVE  Excused(e.status, e.step[s])
    <2>1. d.step[s].status \notin {"queued", "running"}
      BY <1>4 DEF Bound
    <2>2. d.step[s].rerunPending
      BY <1>4, <2>1 DEF Excused, Active
    <2>3. e.step[s] = IF s \in S THEN [d.step[s] EXCEPT !.status = "failed"] ELSE d.step[s]
      BY <1>3
    <2>4. e.step[s].rerunPending
      BY <1>1, <2>2, <2>3 DEF Step
    <2> QED BY <2>4 DEF Excused
  <1>5. \A s \in Steps : Quiet(d.step[s], e.step[s])
    <2> SUFFICES ASSUME NEW s \in Steps PROVE Quiet(d.step[s], e.step[s])
      OBVIOUS
    <2>1. e.step[s] = IF s \in S THEN [d.step[s] EXCEPT !.status = "failed"] ELSE d.step[s]
      BY <1>3
    <2> QED BY <1>1, <2>1 DEF Quiet, Step
  <1>6. e.dispatch = Cancel(d, ids).dispatch
    BY <1>3 DEF c
  <1> HIDE DEF S, ids
  <1>7. RowsFine(e)
    BY <1>4, <1>6, FewerRows DEF Fine
  <1>8. ResultsSound(e, K)
    BY <1>5, QuietResults DEF Fine
  <1> QED BY <1>7, <1>8 DEF Fine

(* So does a run that a person stops.                                      *)
LEMMA StoppedFine ==
  ASSUME NEW K, NEW d, Good(d), Fine(d, K)
  PROVE  Fine(Stopped(d), K)
  <1> DEFINE S == {s \in Steps : d.step[s].status \notin {"completed", "failed"}}
             c == Cancel(d, {})
             e == Stopped(d)
  <1>1. d \in Database /\ \A s \in Steps : d.step[s] \in Step
    BY DatabaseFields DEF Good
  <1>2. e = [[d EXCEPT !.step = [s \in Steps |-> IF s \in S
                 THEN [d.step[s] EXCEPT !.status = "stopped"] ELSE d.step[s]]]
             EXCEPT !.status = "stopped"]
    BY DEF Stopped, Replace
  <1> HIDE DEF e
  <1>3. /\ e.dispatch = d.dispatch /\ e.status = "stopped"
        /\ e.step = [s \in Steps |-> IF s \in S THEN [d.step[s] EXCEPT !.status = "stopped"]
                                                ELSE d.step[s]]
    BY <1>1, <1>2 DEF Database
  <1>4. \A s \in Steps : Excused(d.status, d.step[s]) => Excused(e.status, e.step[s])
    <2> SUFFICES ASSUME NEW s \in Steps, Excused(d.status, d.step[s])
                 PROVE  Excused(e.status, e.step[s])
      OBVIOUS
    <2>1. e.step[s] = IF s \in S THEN [d.step[s] EXCEPT !.status = "stopped"] ELSE d.step[s]
      BY <1>3
    <2> QED BY <1>1, <1>3, <2>1 DEF Excused, Step
  <1>5. \A s \in Steps : Quiet(d.step[s], e.step[s])
    <2> SUFFICES ASSUME NEW s \in Steps PROVE Quiet(d.step[s], e.step[s])
      OBVIOUS
    <2>1. e.step[s] = IF s \in S THEN [d.step[s] EXCEPT !.status = "stopped"] ELSE d.step[s]
      BY <1>3
    <2> QED BY <1>1, <2>1 DEF Quiet, Step
  <1> HIDE DEF S
  <1>6. RowsFine(e)
    BY <1>3, <1>4, SameRows DEF Fine
  <1>7. ResultsSound(e, K)
    BY <1>5, QuietResults DEF Fine
  <1> QED BY <1>6, <1>7 DEF Fine, e

(* An error of a start fails the run.                                      *)
LEMMA CaughtFine ==
  ASSUME NEW K, NEW d, Good(d), Fine(d, K), NEW s
  PROVE  Fine(Caught(d, s), K)
  <1>1. Good(Reconciled(d)) /\ Fine(Reconciled(d), K)
    BY ReconciledKeeps, KeepsGood, ReconciledFine
  <1> QED BY <1>1, FailedFine DEF Caught

(* A rerun takes back the results of its steps, with all that used them;   *)
(* the work of a stopped run was cancelled before.                         *)
Unstopped(d) ==
  \A i \in 1..Len(d.dispatch) :
    Fresh(d.dispatch[i]) /\ d.status = "stopped"
      => d.step[d.dispatch[i].step].status # "stopped"

(* A rerun takes back the results of everything below the step.            *)
LEMMA RerunFine ==
  ASSUME NEW K, NEW d, Good(d), Fine(d, K), NEW s \in Steps, Unstopped(d)
  PROVE  Fine(RerunRequested(d, s), K)
  <1> DEFINE S == Downstream({s})
             e == RerunRequested(d, s)
             marked(t) == [d.step[t] EXCEPT !.rerunPending = TRUE, !.status = "blocked",
                                            !.result = NoResult]
  <1>1. d \in Database /\ \A t \in Steps : d.step[t] \in Step
    BY DatabaseFields DEF Good
  <1>2. e = [[d EXCEPT !.step = [t \in Steps |-> IF t \in S THEN marked(t) ELSE d.step[t]]]
             EXCEPT !.status = "running"]
    BY DEF RerunRequested, Replace
  <1> HIDE DEF e, S
  <1>3. /\ e.dispatch = d.dispatch /\ e.status = "running"
        /\ \A t \in Steps : e.step[t] = IF t \in S THEN marked(t) ELSE d.step[t]
    BY <1>1, <1>2 DEF Database
  <1>4. \A t \in Steps :
          /\ t \in S => e.step[t].rerunPending /\ e.step[t].result = NoResult
          /\ t \notin S => e.step[t] = d.step[t]
    <2>1. ASSUME NEW t \in Steps, t \in S
          PROVE  e.step[t].rerunPending /\ e.step[t].result = NoResult
      <3>1. e.step[t] = marked(t) /\ d.step[t] \in Step
        BY <1>1, <1>3, <2>1
      <3> QED BY <3>1 DEF Step
    <2> QED BY <1>3, <2>1
  <1>5. ASSUME NEW t \in Steps PROVE ResultSound(e, t)
    BY <1>4 DEF Fine, ResultsSound, ResultSound, HasDispatch, OnHold
  <1>6. ASSUME NEW t \in K \cap Steps PROVE UsedSound(e, t)
    <2> SUFFICES ASSUME HasDispatch(e, t), ~OnHold(e, t), NEW n \in Needs[t]
                 PROVE  e.step[n].result # NoResult /\ e.step[t].used[n] = e.step[n].result
      BY DEF UsedSound
    <2>1. t \notin S /\ n \in Steps
      BY <1>4, Parameters DEF OnHold
    <2>2. n \notin S
      BY <2>1, DownstreamSteps DEF S
    <2> QED BY <1>4, <2>1, <2>2 DEF Fine, ResultsSound, UsedSound, HasDispatch, OnHold
  <1>7. RowsFine(e)
    <2> SUFFICES ASSUME NEW i \in 1..Len(d.dispatch), Fresh(d.dispatch[i]),
                        d.dispatch[i].step \in Steps,
                        Excused(d.status, d.step[d.dispatch[i].step])
                 PROVE  Excused(e.status, e.step[d.dispatch[i].step])
      BY <1>3, SameRows DEF Fine
    <2> DEFINE t == d.dispatch[i].step
    <2>1. d.status = "stopped" => d.step[t].status # "stopped"
      BY DEF Unstopped
    <2>2. CASE t \in S
      BY <1>4, <2>2 DEF Excused
    <2>3. CASE t \notin S
      BY <1>3, <1>4, <2>1, <2>3 DEF Excused
    <2> QED BY <2>2, <2>3
  <1> QED BY <1>5, <1>6, <1>7 DEF Fine, ResultsSound, e

(* A stop that a restart finds unfinished is finished.                     *)
LEMMA StopReconciledFine ==
  ASSUME NEW K, NEW d, Good(d), Fine(d, K)
  PROVE  Fine(StopReconciled(d), K) /\ Unstopped(StopReconciled(d))
  <1> DEFINE ids == PendingStops(d)
             e == Cancel(d, ids)
  <1>1. /\ e.step = d.step /\ e.status = d.status /\ Len(e.dispatch) = Len(d.dispatch)
        /\ \A i \in 1..Len(d.dispatch) :
             /\ e.dispatch[i].step = d.dispatch[i].step
             /\ Fresh(e.dispatch[i]) => Fresh(d.dispatch[i]) /\ i \notin ids
    BY CancelledRows
  <1>2. ASSUME NEW i \in 1..Len(d.dispatch), Fresh(e.dispatch[i]), d.status = "stopped",
               d.step[d.dispatch[i].step].status = "stopped"
        PROVE  FALSE
    <2>1. Fresh(d.dispatch[i]) /\ i \notin ids
      BY <1>1, <1>2
    <2>2. d.dispatch[i].step \in Steps /\ d.step[d.dispatch[i].step].dispatch = i /\ i # 0
      BY <2>1, FreshIsBound DEF Fine
    <2> QED BY <1>2, <2>1, <2>2 DEF PendingStops, Bound, IsOpen, Fresh
  <1> HIDE DEF e
  <1>3. Unstopped(e)
    BY <1>1, <1>2 DEF Unstopped
  <1> QED BY <1>3, CancelFine DEF StopReconciled, e

(* Steps that are released for a later attempt have no result.             *)
LEMMA SettledFine ==
  ASSUME NEW K, NEW d, Good(d), Fine(d, K)
  PROVE  Fine(Settled(d), K)
  <1> DEFINE P == Pending(d)
             ids == Bound(d, P)
             c == Cancel(d, ids)
             e == [c EXCEPT !.step = [s \in Steps |-> IF s \in P THEN NextAttempt(c.step[s])
                                                                 ELSE c.step[s]]]
  <1>1. c \in Database /\ c.step = d.step /\ c.status = d.status /\ Fine(c, K)
        /\ \A s \in Steps : d.step[s] \in Step
    BY CancelKeeps, CancelledRows, CancelFine, DatabaseFields DEF Keeps, Good
  <1>2. Pending(c) = P
    BY <1>1 DEF Pending
  <1>3. Settled(d) \in {c, e}
    <2>1. \/ Settled(d) = c
          \/ Settled(d) = Replace(c, Pending(c), LAMBDA s : NextAttempt(c.step[s]))
      BY DEF Settled
    <2> HIDE DEF c, P
    <2> QED BY <1>2, <2>1 DEF Replace
  <1> SUFFICES Fine(e, K)
    BY <1>1, <1>3
  <1>p. \A s \in Steps : s \in P <=> d.step[s].rerunPending
    BY DEF Pending
  <1>b. \A s \in Steps : s \in P /\ d.step[s].dispatch # 0 => d.step[s].dispatch \in ids
    BY DEF Bound
  <1> HIDE DEF c, P, ids
  <1>4. /\ e.dispatch = c.dispatch /\ e.status = d.status
        /\ \A s \in Steps : e.step[s] = IF s \in P THEN NextAttempt(d.step[s]) ELSE d.step[s]
    BY <1>1 DEF Database
  <1>5. \A s \in Steps :
          /\ s \in P => e.step[s].dispatch = 0 /\ e.step[s].result = NoResult
          /\ s \notin P => e.step[s] = d.step[s]
    <2>1. \A s \in Steps : /\ NextAttempt(d.step[s]).dispatch = 0
                            /\ NextAttempt(d.step[s]).result = NoResult
      BY DEF NextAttempt, NewStep
    <2> HIDE DEF e
    <2> QED BY <1>4, <2>1
  <1> HIDE DEF e
  <1>6. ASSUME NEW s \in Steps PROVE ResultSound(e, s)
    BY <1>5 DEF Fine, ResultsSound, ResultSound, HasDispatch, OnHold
  <1>7. ASSUME NEW s \in K \cap Steps PROVE UsedSound(e, s)
    <2> SUFFICES ASSUME HasDispatch(e, s), ~OnHold(e, s), NEW n \in Needs[s]
                 PROVE  e.step[n].result # NoResult /\ e.step[s].used[n] = e.step[n].result
      BY DEF UsedSound
    <2>1. s \notin P /\ n \in Steps
      BY <1>5, Parameters DEF HasDispatch
    <2>2. d.step[n].result # NoResult /\ d.step[s].used[n] = d.step[n].result
      BY <1>5, <2>1 DEF Fine, ResultsSound, UsedSound, HasDispatch, OnHold
    <2>3. n \notin P
      BY <1>p, <2>1, <2>2 DEF Fine, ResultsSound, ResultSound, OnHold
    <2> QED BY <1>5, <2>1, <2>2, <2>3
  <1>8. RowsFine(e)
    <2>1. e.dispatch = Cancel(d, ids).dispatch
      BY <1>4 DEF c
    <2>2. \A s \in Steps :
            d.step[s].dispatch \notin ids /\ d.step[s].dispatch # 0 => e.step[s] = d.step[s]
      BY <1>5, <1>b
    <2> QED BY <1>4, <2>1, <2>2, FewerRows DEF Fine
  <1> QED BY <1>6, <1>7, <1>8 DEF Fine, ResultsSound

(* Evidence that is stored, before anything below it is held back, leaves  *)
(* what used the earlier result and nothing else without current results.  *)
LEMMA JudgedFine ==
  ASSUME NEW K, NEW d, Good(d), Fine(d, K), NEW s \in Steps, NEW f \in Flight,
         StillCurrent(d, s, f), NEW ids,
         NEW e, e.step = Judged(d, s, f).step,
         e.status = d.status \/ (d.status = "completed" /\ e.status = "running"),
         e.dispatch = d.dispatch \/ e.dispatch = Cancel(d, ids).dispatch
  PROVE  Fine(e, K \ Stale(d, s, f))
  <1> DEFINE stale == Stale(d, s, f)
  <1>1. /\ e.step[s].status = EvidenceStatus(f)
        /\ e.step[s].result = EvidenceResult(d, s, f)
        /\ e.step[s].used = d.step[s].used /\ e.step[s].dispatch = d.step[s].dispatch
        /\ e.step[s].rerunPending = d.step[s].rerunPending
        /\ e.step[s].needsRerun = d.step[s].needsRerun
        /\ \A t \in Steps : t # s => e.step[t] = d.step[t]
    BY JudgedParts
  <1>2. ~OnHold(d, s) /\ HasDispatch(d, s) /\ IsReported(d, d.step[s].dispatch)
    BY DEF StillCurrent
  <1>3. ASSUME NEW t \in Steps PROVE ResultSound(e, t)
    <2>1. CASE t = s
      <3>1. EvidenceResult(d, s, f) # NoResult =>
              /\ EvidenceStatus(f) = "completed"
              /\ EvidenceResult(d, s, f).dispatch = d.step[s].dispatch
        BY DEF EvidenceResult, EvidenceStatus
      <3> QED BY <1>1, <1>2, <2>1, <3>1 DEF ResultSound, HasDispatch, OnHold
    <2>2. CASE t # s
      BY <1>1, <2>2 DEF Fine, ResultsSound, ResultSound, HasDispatch, OnHold
    <2> QED BY <2>1, <2>2
  <1>4. ASSUME NEW t \in (K \ stale) \cap Steps PROVE UsedSound(e, t)
    <2> SUFFICES ASSUME HasDispatch(e, t), ~OnHold(e, t), NEW n \in Needs[t]
                 PROVE  e.step[n].result # NoResult /\ e.step[t].used[n] = e.step[n].result
      BY DEF UsedSound
    <2>1. t \in K \cap Steps /\ t \in Steps /\ t \notin stale
      OBVIOUS
    <2>2. n \in Steps
      BY <2>1, Parameters
    <2>3. HasDispatch(d, t) /\ ~OnHold(d, t) /\ e.step[t].used = d.step[t].used
      BY <1>1, <2>1 DEF HasDispatch, OnHold
    <2>4. d.step[n].result # NoResult /\ d.step[t].used[n] = d.step[n].result
      BY <2>1, <2>3 DEF Fine, ResultsSound, UsedSound
    <2>5. CASE n = s
      <3>1. d.step[s].status = "completed"
        BY <2>4, <2>5 DEF Fine, ResultsSound, ResultSound
      <3>2. t \in Downstream({s}) /\ t # s
        BY <2>1, <2>5, DownstreamSteps
      <3>3. d.step[s].result = EvidenceResult(d, s, f)
        BY <2>1, <2>3, <3>1, <3>2 DEF Stale
      <3> QED BY <1>1, <2>3, <2>4, <2>5, <3>3
    <2>6. CASE n # s
      BY <1>1, <2>2, <2>3, <2>4, <2>6
    <2> QED BY <2>5, <2>6
  <1>5. ASSUME NEW t \in Steps, Fresh(d.dispatch[d.step[t].dispatch]),
               Excused(d.status, d.step[t])
        PROVE  Excused(e.status, e.step[t])
    <2>1. t # s
      BY <1>2, <1>5 DEF IsReported, Fresh
    <2> QED BY <1>1, <1>5, <2>1 DEF Excused
  <1>6. RowsFine(e)
    <2>1. CASE e.dispatch = d.dispatch
      BY <1>5, <2>1, SameRows DEF Fine
    <2>2. CASE e.dispatch = Cancel(d, ids).dispatch
      BY <1>5, <2>2, FewerRows DEF Fine
    <2> QED BY <2>1, <2>2
  <1> QED BY <1>3, <1>4, <1>6 DEF Fine, ResultsSound

(* Holding back a set that is closed below and at whose steps nobody works *)
(* gives these steps what they lacked: no result, and none in use.         *)
LEMMA HeldBackFine ==
  ASSUME NEW K, NEW S, NEW d, Good(d), Fine(d, K \ S),
         \A t \in Steps \ S : \A n \in Needs[t] : n \in S => ~HasDispatch(d, t),
         \A t \in Steps \cap S : ~Fresh(d.dispatch[d.step[t].dispatch])
  PROVE  Fine(HeldBack(d, S), K)
  <1> DEFINE e == HeldBack(d, S)
  <1>1. /\ e.dispatch = d.dispatch /\ e.status = d.status
        /\ \A t \in Steps : t \in S => e.step[t].needsRerun /\ e.step[t].result = NoResult
        /\ \A t \in Steps : t \notin S => e.step[t] = d.step[t]
    BY HeldBackParts
  <1> HIDE DEF e
  <1>2. ASSUME NEW t \in Steps PROVE ResultSound(e, t)
    BY <1>1 DEF Fine, ResultsSound, ResultSound, HasDispatch, OnHold
  <1>3. ASSUME NEW t \in K \cap Steps PROVE UsedSound(e, t)
    <2> SUFFICES ASSUME HasDispatch(e, t), ~OnHold(e, t), NEW n \in Needs[t]
                 PROVE  e.step[n].result # NoResult /\ e.step[t].used[n] = e.step[n].result
      BY DEF UsedSound
    <2>1. t \notin S /\ n \in Steps
      BY <1>1, Parameters DEF OnHold
    <2>2. HasDispatch(d, t) /\ ~OnHold(d, t) /\ e.step[t] = d.step[t]
      BY <1>1, <2>1 DEF HasDispatch, OnHold
    <2>3. n \notin S
      BY <2>1, <2>2
    <2>4. t \in (K \ S) \cap Steps
      BY <2>1
    <2>5. d.step[n].result # NoResult /\ d.step[t].used[n] = d.step[n].result
      BY <2>2, <2>4 DEF Fine, ResultsSound, UsedSound
    <2> QED BY <1>1, <2>1, <2>2, <2>3, <2>5
  <1>4. RowsFine(e)
    <2>1. ASSUME NEW t \in Steps, Fresh(d.dispatch[d.step[t].dispatch]),
                 Excused(d.status, d.step[t])
          PROVE  Excused(e.status, e.step[t])
      BY <1>1, <2>1
    <2> QED BY <1>1, <2>1, SameRows DEF Fine
  <1> QED BY <1>2, <1>3, <1>4 DEF Fine, ResultsSound, e

(* What is stored when refreshQuality is cut off.                          *)
LEMMA CutOffFine ==
  ASSUME NEW K, NEW d, Good(d), Fine(d, K), NEW s \in Steps, NEW f \in Flight,
         StillCurrent(d, s, f), NEW ids
  PROVE  /\ Fine(Judged(d, s, f), K \ Stale(d, s, f))
         /\ Fine(PartlyJudged(d, s, f, ids), K \ Stale(d, s, f))
  <1>1. Fine(Judged(d, s, f), K \ Stale(d, s, f))
    <2> DEFINE e == Judged(d, s, f)
    <2>1. e.dispatch = d.dispatch /\ e.status = d.status /\ e.step = Judged(d, s, f).step
      BY JudgedParts
    <2> HIDE DEF e
    <2> QED BY <2>1, JudgedFine DEF e
  <1>2. Fine(PartlyJudged(d, s, f, ids), K \ Stale(d, s, f))
    <2> DEFINE e == PartlyJudged(d, s, f, ids)
    <2>1. /\ e.step = Judged(d, s, f).step
          /\ e.status = d.status \/ (d.status = "completed" /\ e.status = "running")
          /\ e.dispatch = Cancel(d, ids).dispatch
      BY PartParts
    <2> HIDE DEF e
    <2> QED BY <2>1, JudgedFine DEF e
  <1> QED BY <1>1, <1>2

(* Evidence that changes a result holds back whatever used it.             *)
LEMMA WithEvidenceFine ==
  ASSUME NEW K, NEW d, Good(d), Fine(d, K), NEW s \in Steps, NEW f \in Flight
  PROVE  Fine(WithEvidence(d, s, f), K)
  <1> DEFINE S == Stale(d, s, f)
             ids == Bound(d, S)
             p == PartlyJudged(d, s, f, ids)
  <1> SUFFICES ASSUME StillCurrent(d, s, f) PROVE Fine(HeldBack(p, S), K)
    BY DEF WithEvidence
  <1>1. Good(p) /\ Fine(p, K \ S)
    BY PartParts, CutOffFine
  <1>2. ASSUME NEW t \in Steps
        PROVE  /\ p.step[t].dispatch = d.step[t].dispatch
               /\ t \in S => t \in Downstream({s}) /\ t # s /\ HasDispatch(d, t)
    <2>1. p.step[t].dispatch = d.step[t].dispatch
      BY PartParts, JudgedParts
    <2> QED BY <2>1 DEF Stale
  <1>3. ASSUME NEW t \in Steps \ S, NEW n \in Needs[t], n \in S
        PROVE  ~HasDispatch(p, t)
    <2>1. n \in Downstream({s}) /\ n \in Steps /\ t \in Steps
      BY <1>3, Parameters DEF Stale
    <2>2. t \in Downstream({s}) /\ t # s
      BY <2>1, DownstreamSteps
    <2>3. ~HasDispatch(d, t)
      BY <1>3, <2>2 DEF Stale
    <2> QED BY <1>2, <2>1, <2>3 DEF HasDispatch
  <1>4. ASSUME NEW t \in Steps \cap S
        PROVE  ~Fresh(p.dispatch[p.step[t].dispatch])
    <2> DEFINE i == d.step[t].dispatch
    <2>1. i \in ids /\ HasDispatch(d, t) /\ t \in Steps
      BY <1>2 DEF Bound, HasDispatch
    <2>2. i \in 1..Len(d.dispatch)
      BY <2>1, CurrentType
    <2>3. p.dispatch = Cancel(d, ids).dispatch
      BY PartParts
    <2>4. ~Fresh(p.dispatch[i])
      BY <2>1, <2>2, <2>3, CancelledRows
    <2> QED BY <1>2, <2>1, <2>4
  <1> HIDE DEF p, S
  <1> QED BY <1>1, <1>3, <1>4, HeldBackFine

(* A dispatch is created with the results that its step needs.             *)
LEMMA CreatedFine ==
  ASSUME NEW K, NEW d, Good(d), Fine(d, K), NEW s \in Steps, ~HasDispatch(d, s), ~OnHold(d, s),
         d.step[s].status = "queued", d.status = "running",
         \A n \in Needs[s] : d.step[n].result # NoResult
  PROVE  Fine(Created(d, s), K)
  <1> DEFINE k == Len(d.dispatch) + 1
             row == NewDispatch(s, d.step[s].attempt)
             used == [m \in Steps |-> IF m \in Needs[s] THEN d.step[m].result ELSE NoResult]
             t == [d.step[s] EXCEPT !.dispatch = k, !.status = "queued", !.used = used]
             e == [[d EXCEPT !.dispatch = Append(d.dispatch, row)]
                     EXCEPT !.step = [d.step EXCEPT ![s] = t]]
  <1>1. /\ d \in Database /\ d.step \in [Steps -> Step] /\ d.dispatch \in Seq(Dispatch)
        /\ Len(d.dispatch) \in Nat /\ d.step[s] \in Step /\ d.step[s].attempt \in 1..MaxAttempts
    BY DatabaseFields DEF Good, Step
  <1>2. row \in Dispatch /\ row.step = s /\ row.confirmed = FALSE
    BY <1>1, Parameters DEF NewDispatch, Dispatch
  <1>3. e = Created(d, s)
    BY <1>1 DEF Created, Database
  <1> HIDE DEF row
  <1>4. /\ t.dispatch = k /\ t.status = "queued" /\ t.used = used
        /\ t.result = d.step[s].result
        /\ t.rerunPending = d.step[s].rerunPending /\ t.needsRerun = d.step[s].needsRerun
    <2> HIDE DEF used, k
    <2> QED BY <1>1 DEF Step
  <1> HIDE DEF t
  <1>5. /\ e.dispatch = Append(d.dispatch, row) /\ e.status = "running"
        /\ e.step[s] = t /\ \A u \in Steps : u # s => e.step[u] = d.step[u]
    BY <1>1 DEF Database
  <1> HIDE DEF e
  <1>6. /\ Len(e.dispatch) = k /\ e.dispatch[k] = row /\ k \in Nat
        /\ \A i \in 1..Len(d.dispatch) : e.dispatch[i] = d.dispatch[i]
    BY <1>1, <1>2, <1>5, AppendProperties
  <1>7. d.step[s].result = NoResult
    BY DEF Fine, ResultsSound, ResultSound
  <1>8. ASSUME NEW u \in Steps PROVE ResultSound(e, u)
    BY <1>4, <1>5, <1>7 DEF Fine, ResultsSound, ResultSound, HasDispatch, OnHold
  <1>9. ASSUME NEW u \in K \cap Steps PROVE UsedSound(e, u)
    <2> SUFFICES ASSUME HasDispatch(e, u), ~OnHold(e, u), NEW n \in Needs[u]
                 PROVE  e.step[n].result # NoResult /\ e.step[u].used[n] = e.step[n].result
      BY DEF UsedSound
    <2>1. n \in Steps /\ e.step[n].result = d.step[n].result
      BY <1>4, <1>5, Parameters
    <2>2. CASE u = s
      BY <1>4, <1>5, <2>1, <2>2
    <2>3. CASE u # s
      BY <1>5, <2>1, <2>3 DEF Fine, ResultsSound, UsedSound, HasDispatch, OnHold
    <2> QED BY <2>2, <2>3
  <1>10. ASSUME NEW i \in 1..k PROVE RowFine(e, i)
    <2>1. CASE i = k
      BY <1>2, <1>4, <1>5, <1>6, <2>1 DEF RowFine, Excused
    <2>2. CASE i # k
      <3>1. i \in 1..Len(d.dispatch)
        BY <1>1, <2>2
      <3>2. RowFine(d, i) /\ e.dispatch[i] = d.dispatch[i]
        BY <1>6, <3>1 DEF Fine, RowsFine
      <3>3. ASSUME Fresh(d.dispatch[i])
            PROVE  Excused(e.status, e.step[d.dispatch[i].step])
        <4>1. /\ d.dispatch[i].step \in Steps /\ i # 0
              /\ d.step[d.dispatch[i].step].dispatch = i
          BY <3>1, <3>3, FreshIsBound DEF Fine
        <4>2. d.dispatch[i].step # s
          BY <4>1 DEF HasDispatch
        <4> QED BY <1>5, <3>2, <3>3, <4>1, <4>2 DEF RowFine
      <3> QED BY <3>2, <3>3 DEF RowFine
    <2> QED BY <2>1, <2>2
  <1> QED BY <1>3, <1>6, <1>8, <1>9, <1>10 DEF Fine, ResultsSound, RowsFine

(* Statuses of the run and of open steps.                                  *)
LEMMA StatusesFine ==
  ASSUME NEW K, NEW d, Good(d), Fine(d, K), NEW e, e.dispatch = d.dispatch,
         \A s \in Steps : /\ Quiet(d.step[s], e.step[s])
                          /\ Excused(d.status, d.step[s]) => Excused(e.status, e.step[s])
  PROVE  Fine(e, K)
  <1>1. RowsFine(e)
    BY SameRows DEF Fine
  <1>2. ResultsSound(e, K)
    BY QuietResults DEF Fine
  <1> QED BY <1>1, <1>2 DEF Fine

(* The run becomes complete.                                               *)
LEMMA CompletedFine ==
  ASSUME NEW K, NEW d, Good(d), Fine(d, K), d.status = "running"
  PROVE  Fine([d EXCEPT !.status = "completed"], K)
  <1> DEFINE e == [d EXCEPT !.status = "completed"]
  <1>1. e.step = d.step /\ e.dispatch = d.dispatch /\ e.status = "completed"
    BY DEF Good, Database
  <1> HIDE DEF e
  <1>2. Fine(e, K)
    BY <1>1, StatusesFine DEF Quiet, Excused
  <1> QED BY <1>2 DEF e

(* A queued step whose task was accepted runs.                             *)
LEMMA RunningFine ==
  ASSUME NEW K, NEW d, Good(d), Fine(d, K), NEW S,
         NEW e, e.dispatch = d.dispatch, e.status = d.status,
         \A s \in Steps : e.step[s] = IF s \in S /\ d.step[s].status = "queued"
                                        THEN [d.step[s] EXCEPT !.status = "running"]
                                        ELSE d.step[s]
  PROVE  Fine(e, K)
  <1>1. ASSUME NEW s \in Steps
        PROVE  /\ Quiet(d.step[s], e.step[s])
               /\ Excused(d.status, d.step[s]) => Excused(e.status, e.step[s])
    <2>1. d.step[s] \in Step
      BY DatabaseFields DEF Good
    <2>2. CASE e.step[s] = d.step[s]
      BY <2>2 DEF Quiet, Excused
    <2>3. CASE /\ d.step[s].status = "queued"
               /\ e.step[s] = [d.step[s] EXCEPT !.status = "running"]
      <3>1. Quiet(d.step[s], e.step[s])
        BY <2>1, <2>3 DEF Quiet, Step
      <3>2. e.step[s].status = "running" /\ e.step[s].rerunPending = d.step[s].rerunPending
        BY <2>1, <2>3 DEF Step
      <3> QED BY <2>3, <3>1, <3>2 DEF Excused
    <2> QED BY <2>2, <2>3
  <1> QED BY <1>1, StatusesFine

(* One row changes.                                                        *)
RowMoves(c, b) ==
  /\ b.step = c.step /\ (Fresh(b) => Fresh(c))
  /\ (c.confirmed => c.status = "cancelled") => (b.confirmed => b.status = "cancelled")

(* A move of one row disturbs no other row and no result.                  *)
LEMMA OneRowFine ==
  ASSUME NEW K, NEW d, Good(d), Fine(d, K), NEW i \in 1..Len(d.dispatch), NEW b,
         RowMoves(d.dispatch[i], b)
  PROVE  Fine([d EXCEPT !.dispatch[i] = b], K)
  <1> DEFINE e == [d EXCEPT !.dispatch[i] = b]
  <1>1. /\ d \in Database /\ d.dispatch \in [1..Len(d.dispatch) -> Dispatch]
        /\ Len(d.dispatch) \in Nat
    BY DatabaseFields, LenProperties DEF Good
  <1>2. /\ e.step = d.step /\ e.status = d.status
        /\ e.dispatch = [d.dispatch EXCEPT ![i] = b]
    BY <1>1 DEF Database
  <1> HIDE DEF e
  <1>3. DOMAIN e.dispatch = 1..Len(d.dispatch) /\ e.dispatch[i] = b
        /\ \A j \in 1..Len(d.dispatch) : j # i => e.dispatch[j] = d.dispatch[j]
    BY <1>1, <1>2
  <1>4. Len(e.dispatch) = Len(d.dispatch)
    <2>1. d.dispatch \in Seq(Dispatch \cup {b})
      BY <1>1, SeqDef
    <2> QED BY <1>2, <2>1, ExceptSeq
  <1>5. ASSUME NEW j \in 1..Len(d.dispatch) PROVE RowFine(e, j)
    <2>1. RowFine(d, j)
      BY DEF Fine, RowsFine
    <2>2. CASE j = i
      BY <1>2, <1>3, <2>1, <2>2 DEF RowFine, RowMoves
    <2>3. CASE j # i
      BY <1>2, <1>3, <2>1, <2>3 DEF RowFine
    <2> QED BY <2>2, <2>3
  <1>6. RowsFine(e)
    BY <1>4, <1>5 DEF RowsFine
  <1> QED BY <1>2, <1>6, SameSteps DEF Fine, e

(* The changes of rows that the program makes, besides reports, are moves. *)
LEMMA RowMovesFacts ==
  ASSUME NEW c \in Dispatch
  PROVE  /\ RowMoves(c, [c EXCEPT !.status = "cancelled"])
         /\ c.status = "cancelled" =>
              RowMoves(c, [c EXCEPT !.confirmed = TRUE, !.uncertain = FALSE])
         /\ \A x \in BOOLEAN : RowMoves(c, [c EXCEPT !.uncertain = x])
         /\ RowMoves(c, [c EXCEPT !.accepted = TRUE])
         /\ RowMoves(c, [c EXCEPT !.checked = TRUE])
         /\ c.status = "queued" =>
              RowMoves(c, [c EXCEPT !.status = "submitted", !.uncertain = FALSE])
         /\ c.status = "reported" /\ c.revision = 1 =>
              RowMoves(c, [c EXCEPT !.status = "submitted", !.outcome = "none",
                                    !.accepted = FALSE, !.checked = FALSE])
         /\ \A n : RowMoves(c, [c EXCEPT !.commit = n, !.checked = FALSE])
         /\ \A outcome, n : c.status \in {"queued", "submitted"} =>
              RowMoves(c, [c EXCEPT !.status = "reported", !.outcome = outcome,
                                    !.revision = n, !.checked = FALSE])
  <1>1. RowMoves(c, [c EXCEPT !.status = "cancelled"])
    BY DEF RowMoves, Fresh, Dispatch
  <1>2. c.status = "cancelled" =>
          RowMoves(c, [c EXCEPT !.confirmed = TRUE, !.uncertain = FALSE])
    BY DEF RowMoves, Fresh, Dispatch
  <1>3. ASSUME NEW x \in BOOLEAN PROVE RowMoves(c, [c EXCEPT !.uncertain = x])
    BY <1>3 DEF RowMoves, Fresh, Dispatch
  <1>4. RowMoves(c, [c EXCEPT !.accepted = TRUE]) /\ RowMoves(c, [c EXCEPT !.checked = TRUE])
    BY DEF RowMoves, Fresh, Dispatch
  <1>5. c.status = "queued" =>
          RowMoves(c, [c EXCEPT !.status = "submitted", !.uncertain = FALSE])
    BY DEF RowMoves, Fresh, Dispatch
  <1>6. c.status = "reported" /\ c.revision = 1 =>
          RowMoves(c, [c EXCEPT !.status = "submitted", !.outcome = "none",
                                !.accepted = FALSE, !.checked = FALSE])
    BY DEF RowMoves, Fresh, Dispatch
  <1>7. ASSUME NEW n PROVE RowMoves(c, [c EXCEPT !.commit = n, !.checked = FALSE])
    BY DEF RowMoves, Fresh, Dispatch
  <1>8. ASSUME NEW outcome, NEW n, c.status \in {"queued", "submitted"}
        PROVE  RowMoves(c, [c EXCEPT !.status = "reported", !.outcome = outcome,
                                     !.revision = n, !.checked = FALSE])
    BY <1>8 DEF RowMoves, Fresh, Dispatch
  <1> QED BY <1>1, <1>2, <1>3, <1>4, <1>5, <1>6, <1>7, <1>8

-----------------------------------------------------------------------------
(* The scheduler and the handlers.                                         *)
LEMMA ReadNextFine ==
  ASSUME NEW K, NEW d, Good(d), Fine(d, K), NEW todo
  PROVE  Fine(ReadNext(d, todo).db, K)
  <1>1. Fine(Reconciled(d), K)
    BY ReconciledFine
  <1>2. \A e : ToReady(e).db = e
    BY DEF ToReady
  <1>3. ReadNext(d, todo).db \in {d, ToReady(Reconciled(d)).db}
    BY DEF ReadNext
  <1> QED BY <1>1, <1>2, <1>3

(* What a flight stores before it starts work.                             *)
LEMMA StartFlightFine ==
  ASSUME NEW K, NEW d, Good(d), Fine(d, K)
  PROVE  Fine(StartFlight(d).db, K)
  <1>1. CASE d.status = "stopped"
    BY <1>1, StopReconciledFine DEF StartFlight
  <1>2. CASE d.status = "failed"
    BY <1>2 DEF StartFlight
  <1>3. CASE d.status \notin {"stopped", "failed"}
    <2> DEFINE a == Refreshed(d)
               r == Reconciled(a)
               e == Settled(r)
    <2>1. Good(a) /\ Fine(a, K)
      BY RefreshedKeeps, KeepsGood, ApplyFine DEF Refreshed
    <2> HIDE DEF a
    <2>2. Good(r) /\ Fine(r, K)
      BY <2>1, ReconciledKeeps, KeepsGood, ReconciledFine
    <2> HIDE DEF r
    <2>3. Good(e) /\ Fine(e, K)
      BY <2>2, SettledGood, SettledFine
    <2>4. StartFlight(d) = ReadNext(e, EvidenceSteps(e))
      BY <1>3 DEF StartFlight, r, a
    <2> HIDE DEF e
    <2> QED BY <2>3, <2>4, ReadNextFine
  <1> QED BY <1>1, <1>2, <1>3

(* The handlers of a report or an acceptance.                              *)
LEMMA HandledFine ==
  ASSUME NEW K, NEW d, Good(d), Fine(d, K), db' = d \/ Schedule(d) \/ DispatchReady(d)
  PROVE  Fine(db', K)
  BY StartFlightFine DEF Schedule, DispatchReady, Go

(* What is recorded after a row changed.                                   *)
LEMMA RecordedFine ==
  ASSUME NEW K, NEW d, Good(d), Fine(d, K), NEW i, Recorded(d, i)
  PROVE  Fine(db', K)
  <1> DEFINE bound == {s \in Steps : d.step[s].dispatch = i /\ AwaitsReport(d, s)}
             a == Apply(d, bound)
             r == Reconciled(a)
  <1>1. Good(a) /\ Fine(a, K)
    BY ApplyKeeps, KeepsGood, ApplyFine
  <1>2. db' = d \/ db' = r \/ Schedule(r) \/ DispatchReady(r)
    <2> HIDE DEF bound
    <2> QED BY DEF Recorded, bound
  <1> HIDE DEF a
  <1>3. Good(r) /\ Fine(r, K)
    BY <1>1, ReconciledKeeps, KeepsGood, ReconciledFine
  <1> HIDE DEF r
  <1> QED BY <1>2, <1>3, HandledFine

(* One row changes, and the handlers go on from there.                     *)
LEMMA RowMoved ==
  ASSUME NEW K, IInv, Fine(db, K), NEW i \in Dispatches, NEW b, Allowed(db.dispatch[i], b),
         RowMoves(db.dispatch[i], b)
  PROVE  Good([db EXCEPT !.dispatch[i] = b]) /\ Fine([db EXCEPT !.dispatch[i] = b], K)
  <1>1. i \in 1..Len(db.dispatch)
    BY DatabaseFields DEF IInv, Good, Dispatches
  <1>2. Good([db EXCEPT !.dispatch[i] = b])
    BY RowStep, KeepsGood DEF IInv
  <1> QED BY <1>1, <1>2, OneRowFine DEF IInv

(* The steps of workers keep what is fine.                                 *)
LEMMA WorkerFine ==
  ASSUME NEW K, IInv, Fine(db, K), NEW i \in Dispatches, Worker(i)
  PROVE  Fine(db', K)
  <1> DEFINE c == db.dispatch[i]
  <1>c. c \in Dispatch /\ RowGood(c)
    BY RowHere
  <1>1. CASE Submit(i)
    <2> DEFINE b == [c EXCEPT !.status = "submitted", !.uncertain = FALSE]
               sent == [db EXCEPT !.dispatch[i] = b]
               S == {s \in Steps : db.step[s].dispatch = i}
               g == [s \in Steps |-> [db.step[s] EXCEPT !.status =
                       IF @ = "queued" THEN "running" ELSE @]]
               e == [sent EXCEPT !.step =
                       [s \in Steps |-> IF s \in S THEN g[s] ELSE sent.step[s]]]
    <2>1. Good(sent) /\ Fine(sent, K)
      <3>1. Allowed(c, b) /\ RowMoves(c, b)
        BY <1>c, <1>1, RowChanges, RowMovesFacts DEF Submit
      <3> HIDE DEF b
      <3> QED BY <3>1, RowMoved
    <2>2. db \in Database
      BY DEF IInv, Good
    <2>3. sent = [db EXCEPT !.dispatch[i].status = "submitted", !.dispatch[i].uncertain = FALSE]
      BY <2>2 DEF Database
    <2>4. db' = sent \/ db' = Reconciled(e)
      <3>1. LET bound == {s \in Steps : db.step[s].dispatch = i}
            IN db' = IF ~Active(db) \/ bound = {} THEN sent
                     ELSE Reconciled(Replace(sent, bound, LAMBDA s :
                            [db.step[s] EXCEPT !.status =
                              IF @ = "queued" THEN "running" ELSE @]))
        <4> HIDE DEF sent
        <4> QED BY <1>1, <2>3 DEF Submit
      <3> HIDE DEF sent
      <3> QED BY <3>1 DEF Replace
    <2>5. sent.step = db.step /\ sent \in Database
      BY <2>1, <2>2 DEF Database, Good
    <2> HIDE DEF sent
    <2>6. /\ e.dispatch = sent.dispatch /\ e.status = sent.status
          /\ \A s \in Steps : e.step[s] = IF s \in S THEN g[s] ELSE sent.step[s]
      BY <2>5 DEF Database
    <2>7. \A s \in Steps : sent.step[s] \in Step
      BY <2>5, DatabaseFields
    <2> HIDE DEF e
    <2>8. \A s \in Steps : g[s] = IF sent.step[s].status = "queued"
                                    THEN [sent.step[s] EXCEPT !.status = "running"]
                                    ELSE sent.step[s]
      <3> SUFFICES ASSUME NEW s \in Steps
                   PROVE  g[s] = IF sent.step[s].status = "queued"
                                   THEN [sent.step[s] EXCEPT !.status = "running"]
                                   ELSE sent.step[s]
        OBVIOUS
      <3>1. g[s] = [sent.step[s] EXCEPT !.status =
                      IF sent.step[s].status = "queued" THEN "running" ELSE sent.step[s].status]
        BY <2>5
      <3>2. sent.step[s] = [sent.step[s] EXCEPT !.status = sent.step[s].status]
        BY <2>7 DEF Step
      <3> HIDE DEF g
      <3> QED BY <3>1, <3>2
    <2> HIDE DEF g, S
    <2>9. \A s \in Steps : e.step[s] = IF s \in S /\ sent.step[s].status = "queued"
                                         THEN [sent.step[s] EXCEPT !.status = "running"]
                                         ELSE sent.step[s]
      BY <2>6, <2>8
    <2>10. Fine(e, K)
      BY <2>1, <2>6, <2>9, RunningFine
    <2>11. Good(e)
      <3>1. [s \in Steps |-> e.step[s]] \in [Steps -> Step]
            /\ \A s \in Steps : StepKeeps(sent.step[s], e.step[s])
        <4>1. ASSUME NEW s \in Steps
              PROVE  e.step[s] \in Step /\ StepKeeps(sent.step[s], e.step[s])
          <5>1. sent.step[s] \in Step /\ StepKeeps(sent.step[s], sent.step[s])
            BY <2>1, <2>7, KeepsReflexive DEF Keeps
          <5>2. /\ [sent.step[s] EXCEPT !.status = "running"] \in Step
                /\ StepKeeps(sent.step[s], [sent.step[s] EXCEPT !.status = "running"])
            BY <2>1, StepFieldsKeep DEF StepStatus
          <5> QED BY <2>9, <5>1, <5>2
        <4> QED BY <4>1
      <3>2. e = [sent EXCEPT !.step = [s \in Steps |-> e.step[s]]]
        <4>1. e.step = [s \in Steps |-> IF s \in S THEN g[s] ELSE sent.step[s]]
          BY <2>5 DEF e, Database
        <4>2. [s \in Steps |-> e.step[s]] = e.step
          BY <4>1
        <4>3. e = [sent EXCEPT !.step = e.step]
          BY <4>1 DEF e
        <4> QED BY <4>2, <4>3
      <3> DEFINE h == [s \in Steps |-> e.step[s]]
      <3>3. h \in [Steps -> Step] /\ \A s \in Steps : StepKeeps(sent.step[s], h[s])
        BY <3>1
      <3> HIDE DEF h
      <3>4. Keeps(sent, [sent EXCEPT !.step = h])
        BY <2>1, <3>3, StepsKeep
      <3> QED BY <2>1, <3>2, <3>4, KeepsGood DEF h
    <2> QED BY <2>1, <2>4, <2>10, <2>11, ReconciledFine
  <1>2. CASE ConfirmCancellation(i)
    <2> DEFINE b == [c EXCEPT !.confirmed = TRUE, !.uncertain = FALSE]
    <2>1. Allowed(c, b) /\ RowMoves(c, b)
      BY <1>c, <1>2, RowChanges, RowMovesFacts DEF ConfirmCancellation, Alone
    <2>2. db' = [db EXCEPT !.dispatch[i] = b]
      BY <1>2 DEF ConfirmCancellation, Alone
    <2> HIDE DEF b
    <2> QED BY <2>1, <2>2, RowMoved
  <1>3. CASE Doubt(i)
    <2> DEFINE b == [c EXCEPT !.uncertain = TRUE]
    <2>1. Allowed(c, b) /\ RowMoves(c, b)
      BY <1>c, RowChanges, RowMovesFacts
    <2>2. db' = [db EXCEPT !.dispatch[i] = b]
      BY <1>3 DEF Doubt, Alone
    <2> HIDE DEF b
    <2> QED BY <2>1, <2>2, RowMoved
  <1>4. CASE Commit(i)
    <2> DEFINE b == [c EXCEPT !.commit = c.commit + 1, !.checked = FALSE]
    <2>1. c.commit + 1 \in 0..MaxCommits
      BY <1>c, <1>4, Parameters DEF Commit, Alone, Dispatch
    <2>2. Allowed(c, b) /\ RowMoves(c, b)
      BY <1>c, <2>1, RowChanges, RowMovesFacts
    <2>3. db' = [db EXCEPT !.dispatch[i] = b]
      BY <1>4 DEF Commit, Alone
    <2> HIDE DEF b
    <2> QED BY <2>2, <2>3, RowMoved
  <1>5. ASSUME NEW outcome \in Outcomes, NEW told \in BOOLEAN, Report(i, outcome, told)
        PROVE  Fine(db', K)
    <2> DEFINE b == [c EXCEPT !.status = "reported", !.outcome = outcome,
                              !.revision = c.revision + 1, !.checked = FALSE]
               d == [db EXCEPT !.dispatch[i] = b]
    <2>1. c.status \in {"queued", "submitted"}
      BY <1>5 DEF Report, IsOpen
    <2>2. Allowed(c, b) /\ RowMoves(c, b)
      <3>1. Allowed(c, b)
        BY <1>c, <2>1, ReportedRow
      <3>2. RowMoves(c, b)
        BY <1>c, <2>1 DEF RowMoves, Fresh, Dispatch
      <3> QED BY <3>1, <3>2
    <2>3. db' = d \/ Recorded(d, i)
      BY <1>5 DEF Report
    <2> HIDE DEF b
    <2>4. Good(d) /\ Fine(d, K)
      BY <2>2, RowMoved
    <2> HIDE DEF d
    <2> QED BY <2>3, <2>4, RecordedFine
  <1> QED BY <1>1, <1>2, <1>3, <1>4, <1>5 DEF Worker

(* The steps of people keep it.                                            *)
LEMMA PersonFine ==
  ASSUME NEW K, IInv, Fine(db, K), NEW i \in Dispatches, Person(i)
  PROVE  Fine(db', K)
  <1> DEFINE c == db.dispatch[i]
  <1>c. c \in Dispatch /\ RowGood(c) /\ Good(db)
    BY RowHere DEF IInv
  <1>1. CASE Accept(i)
    <2> DEFINE b == [c EXCEPT !.accepted = TRUE]
               d == [db EXCEPT !.dispatch[i] = b]
    <2>1. Allowed(c, b) /\ RowMoves(c, b)
      BY <1>c, RowChanges, RowMovesFacts
    <2>2. Recorded(d, i)
      BY <1>1 DEF Accept
    <2> HIDE DEF b
    <2>3. Good(d) /\ Fine(d, K)
      BY <2>1, RowMoved
    <2> HIDE DEF d
    <2> QED BY <2>2, <2>3, RecordedFine
  <1>2. CASE FeedbackReruns(i)
    <2>1. PICK s \in Steps : MayRerun(db, s) /\ Schedule(RerunRequested(db, s))
      BY <1>2 DEF FeedbackReruns
    <2>2. Unstopped(db)
      BY <1>2 DEF FeedbackReruns, Unstopped
    <2>3. Good(RerunRequested(db, s)) /\ Fine(RerunRequested(db, s), K)
      BY <1>c, <2>1, <2>2, RerunKeeps, KeepsGood, RerunFine DEF MayRerun
    <2> QED BY <2>1, <2>3, HandledFine
  <1>3. CASE FeedbackReopens(i)
    <2> DEFINE b == [c EXCEPT !.status = "submitted", !.outcome = "none",
                              !.accepted = FALSE, !.checked = FALSE]
    <2>1. c.revision = 1 /\ c.status = "reported"
      BY <1>3 DEF FeedbackReopens, IsReported
    <2>2. Allowed(c, b) /\ RowMoves(c, b)
      BY <1>c, <2>1, RowChanges, RowMovesFacts
    <2>3. db' = [db EXCEPT !.dispatch[i] = b]
      BY <1>3 DEF FeedbackReopens
    <2> HIDE DEF b
    <2> QED BY <2>2, <2>3, RowMoved
  <1>4. CASE CancelTask(i)
    <2> DEFINE b == [c EXCEPT !.status = "cancelled"]
    <2>1. Allowed(c, b) /\ RowMoves(c, b)
      BY <1>c, RowChanges, RowMovesFacts
    <2>2. db' = [db EXCEPT !.dispatch[i] = b]
      BY <1>4 DEF CancelTask, Alone
    <2> HIDE DEF b
    <2> QED BY <2>1, <2>2, RowMoved
  <1>5. CASE Decide(i)
    <2> DEFINE b == [c EXCEPT !.uncertain = FALSE]
    <2>1. Allowed(c, b) /\ RowMoves(c, b)
      BY <1>c, RowChanges, RowMovesFacts
    <2>2. db' = [db EXCEPT !.dispatch[i] = b]
      BY <1>5 DEF Decide, Alone
    <2> HIDE DEF b
    <2> QED BY <2>1, <2>2, RowMoved
  <1>6. CASE Check(i)
    <2> DEFINE b == [c EXCEPT !.checked = TRUE]
               d == [db EXCEPT !.dispatch[i] = b]
    <2>1. Allowed(c, b) /\ RowMoves(c, b)
      BY <1>c, RowChanges, RowMovesFacts
    <2>2. Schedule(d) \/ db' = d
      BY <1>6 DEF Check
    <2> HIDE DEF b
    <2>3. Good(d) /\ Fine(d, K)
      BY <2>1, RowMoved
    <2> HIDE DEF d
    <2> QED BY <2>2, <2>3, HandledFine
  <1> QED BY <1>1, <1>2, <1>3, <1>4, <1>5, <1>6 DEF Person

(* The steps of the scheduler keep it.                                     *)
LEMMA SchedulerFine ==
  ASSUME NEW K, IInv, Fine(db, K), Scheduler
  PROVE  Fine(db', K)
  <1>g. Good(db) /\ Good(Now) /\ Fine(Now, K)
    BY NowKeeps, ReconciledFine DEF IInv, Now
  <1>1. CASE Timer \/ Rescheduled
    BY <1>1, <1>g, StartFlightFine DEF Timer, Rescheduled, Go
  <1>2. CASE EvidenceRead
    <2> DEFINE e == WithEvidence(db, Head1, flight)
    <2>1. flight \in Flight /\ flight.todo # {}
      BY <1>2 DEF EvidenceRead, At, IInv, FlightGood
    <2>2. Good(e) /\ Fine(e, K)
      BY <1>g, <2>1, HeadIsStep, WithEvidenceKeeps, KeepsGood, WithEvidenceFine
    <2>3. db' = ReadNext(e, Rest(flight.todo)).db
      BY <1>2 DEF EvidenceRead, Go
    <2> HIDE DEF e
    <2> QED BY <2>2, <2>3, ReadNextFine
  <1>3. CASE ReadyLeaves \/ ReadySkips \/ BeginDispatch
    BY <1>3, <1>g DEF ReadyLeaves, ReadySkips, BeginDispatch, Return
  <1>4. CASE ReadyEnds
    <2>1. \/ db' = db \/ db' = Failed(db)
          \/ db.status = "running" /\ db' = [db EXCEPT !.status = "completed"]
      BY <1>4 DEF ReadyEnds, Return
    <2> QED BY <1>g, <2>1, FailedFine, CompletedFine
  <1>5. CASE Create
    <2>1. CASE MayCreate(Now, Head1)
      <3>1. Head1 \in Steps
        BY <1>5, HeadIsStep DEF Create, At, IInv, FlightGood
      <3>2. db' = Created(Now, Head1)
        BY <1>5, <2>1 DEF Create
      <3>3. Fine(Created(Now, Head1), K)
        BY <1>g, <2>1, <3>1, CreatedFine DEF MayCreate, StepIsReady
      <3> QED BY <3>2, <3>3
    <2>2. CASE ~MayCreate(Now, Head1)
      BY <1>5, <1>g, <2>2, CaughtFine DEF Create, Return
    <2> QED BY <2>1, <2>2
  <1>6. CASE CreateFails \/ StartThrows
    BY <1>6, <1>g, CaughtFine DEF CreateFails, StartThrows, Return
  <1>7. CASE Started
    <2> DEFINE i == db.step[Head1].dispatch
               x == IF db.step[Head1].status # "queued" \/ db.dispatch[i].status # "submitted"
                      THEN db.step[Head1].status ELSE "running"
               f == [db.step EXCEPT ![Head1] = [db.step[Head1] EXCEPT !.status = x]]
               next == [db EXCEPT !.step = f]
    <2>1. Head1 \in Steps
      BY <1>7, HeadIsStep DEF Started, At, IInv, FlightGood
    <2>2. db \in Database /\ db.step \in [Steps -> Step] /\ db.step[Head1] \in Step
      BY <1>g, <2>1, DatabaseFields DEF Good
    <2>3. next = [db EXCEPT !.step[Head1].status =
                    IF @ # "queued" \/ db.dispatch[i].status # "submitted" THEN @ ELSE "running"]
      OBVIOUS
    <2>4. db' = Cancel(db, {i}) \/ db' = Reconciled(next)
      <3> HIDE DEF next
      <3> QED BY <1>7, <2>3 DEF Started, Return
    <2> DEFINE S == IF x = db.step[Head1].status THEN {} ELSE {Head1}
    <2>5. [db.step[Head1] EXCEPT !.status = x]
            = IF Head1 \in S /\ db.step[Head1].status = "queued"
                THEN [db.step[Head1] EXCEPT !.status = "running"] ELSE db.step[Head1]
      <3>1. db.step[Head1] = [db.step[Head1] EXCEPT !.status = db.step[Head1].status]
        BY <2>2 DEF Step
      <3> QED BY <3>1
    <2>6. S \subseteq {Head1}
      OBVIOUS
    <2>x. x \in StepStatus
      BY <2>2 DEF Step, StepStatus
    <2> HIDE DEF S, x
    <2>7. /\ next.dispatch = db.dispatch /\ next.status = db.status /\ next.step = f
          /\ \A s \in Steps : next.step[s] = IF s \in S /\ db.step[s].status = "queued"
                                               THEN [db.step[s] EXCEPT !.status = "running"]
                                               ELSE db.step[s]
      BY <2>1, <2>2, <2>5, <2>6 DEF Database
    <2>8. Good(next)
      <3>1. /\ [db.step[Head1] EXCEPT !.status = x] \in Step
            /\ StepKeeps(db.step[Head1], [db.step[Head1] EXCEPT !.status = x])
            /\ \A s \in Steps : StepKeeps(db.step[s], db.step[s])
        BY <1>g, <2>1, <2>x, StepFieldsKeep, KeepsReflexive DEF Keeps
      <3> DEFINE t == [db.step[Head1] EXCEPT !.status = x]
      <3> HIDE DEF t
      <3>2. f \in [Steps -> Step] /\ \A s \in Steps : StepKeeps(db.step[s], f[s])
        BY <2>1, <2>2, <3>1
      <3> HIDE DEF f
      <3>3. Keeps(db, next)
        BY <1>g, <3>2, StepsKeep
      <3> QED BY <1>g, <3>3, KeepsGood
    <2> HIDE DEF next, f
    <2>9. Fine(next, K)
      BY <1>g, <2>7, RunningFine
    <2> QED BY <1>g, <2>4, <2>8, <2>9, CancelFine, ReconciledFine
  <1> QED BY <1>1, <1>2, <1>3, <1>4, <1>5, <1>6, <1>7 DEF Scheduler

(* Reruns, the stop and the restart keep it.                               *)
LEMMA OtherFine ==
  ASSUME NEW K, IInv, Fine(db, K), (\E s \in Steps : Rerun(s)) \/ Stop \/ Restart
  PROVE  Fine(db', K)
  <1>g. Good(db)
    BY DEF IInv
  <1>1. ASSUME NEW s \in Steps, Rerun(s) PROVE Fine(db', K)
    <2> DEFINE d == StopReconciled(db)
    <2>1. Good(d) /\ Fine(d, K) /\ Unstopped(d)
      BY <1>g, StoppedKeeps, KeepsGood, StopReconciledFine
    <2>2. d.step = db.step
      BY CancelledRows, <1>g DEF StopReconciled
    <2>3. Schedule(RerunRequested(d, s)) /\ MayRerun(db, s)
      BY <1>1 DEF Rerun
    <2> HIDE DEF d
    <2>4. Good(RerunRequested(d, s)) /\ Fine(RerunRequested(d, s), K)
      BY <2>1, <2>2, <2>3, RerunKeeps, KeepsGood, RerunFine DEF MayRerun
    <2> QED BY <2>3, <2>4, HandledFine
  <1>2. CASE Stop
    <2> DEFINE d == IF db.status = "stopped" THEN db ELSE Stopped(db)
    <2>1. Good(d) /\ Fine(d, K)
      BY <1>g, StoppedKeeps, KeepsGood, StoppedFine
    <2>2. \E ids \in SUBSET PendingStops(d) : db' = Cancel(d, ids)
      BY <1>2 DEF Stop
    <2> HIDE DEF d
    <2> QED BY <2>1, <2>2, CancelFine
  <1>3. CASE Restart
    BY <1>3 DEF Restart
  <1> QED BY <1>1, <1>2, <1>3

(* Every step keeps it, but for the steps below the evidence that was      *)
(* being stored when it was cut off.                                       *)
LEMMA CutOffStepFine ==
  ASSUME NEW K, IInv, Fine(db, K), EvidenceDies \/ EvidenceThrows
  PROVE  Fine(db', K \ Stales)
  <1>1. /\ Good(db) /\ Head1 \in Steps /\ flight \in Flight
        /\ StillCurrent(db, Head1, flight)
    <2>1. flight \in Flight /\ flight.todo # {}
      BY DEF EvidenceDies, EvidenceThrows, At, IInv, FlightGood
    <2> QED BY <2>1, HeadIsStep DEF EvidenceDies, EvidenceThrows, IInv
  <1>2. /\ Fine(Judged(db, Head1, flight), K \ Stales)
        /\ \A ids : LET p == PartlyJudged(db, Head1, flight, ids)
                    IN Good(p) /\ Fine(p, K \ Stales)
    BY <1>1, CutOffFine, PartParts DEF Stales
  <1>3. CASE EvidenceDies
    BY <1>2, <1>3 DEF EvidenceDies
  <1>4. CASE EvidenceThrows
    <2> DEFINE p(ids) == PartlyJudged(db, Head1, flight, ids)
               next(ids) == IF woken THEN StartFlight(p(ids))
                                     ELSE [db |-> p(ids), flight |-> Idle]
    <2>1. PICK ids \in SUBSET Bound(db, Stales) :
            db' = p(ids) \/ db' = Failed(next(ids).db)
      BY <1>4 DEF EvidenceThrows, Return
    <2> DEFINE x == next(ids)
    <2>2. Good(p(ids)) /\ Fine(p(ids), K \ Stales)
      BY <1>2
    <2> HIDE DEF p
    <2>3. Good(x.db) /\ Fine(x.db, K \ Stales)
      BY <2>2, StartFlightGood, StartFlightFine
    <2> HIDE DEF x
    <2> QED BY <2>1, <2>2, <2>3, FailedFine DEF x
  <1> QED BY <1>3, <1>4

LEMMA FineIsInductive ==
  ASSUME NEW K, IInv, Fine(db, K), [Next]_vars
  PROVE  \/ Fine(db', K)
         \/ (EvidenceDies \/ EvidenceThrows) /\ Fine(db', K \ Stales)
  <1>1. CASE Next
    BY <1>1, CutOffStepFine, WorkerFine, PersonFine, SchedulerFine, OtherFine DEF Next
  <1>2. CASE UNCHANGED vars
    BY <1>2 DEF vars
  <1> QED BY <1>1, <1>2

(* A new run has neither results nor dispatches.                           *)
LEMMA InitFine == Init => Fine(db, {})
  <1>1. Fine(NewRun, {})
    <2>1. NewRun.dispatch = << >> /\ \A s \in Steps : NewRun.step[s] = NewStep
      BY DEF NewRun
    <2>2. NewStep.result = NoResult
      BY DEF NewStep
    <2>3. 1..Len(NewRun.dispatch) = {}
      BY <2>1, EmptySeq
    <2> QED BY <2>1, <2>2, <2>3 DEF Fine, ResultsSound, ResultSound, RowsFine
  <1> QED BY <1>1, NewRunGood, StartFlightFine DEF Init

(* In every state of every workflow a result is that of the attempt its    *)
(* step has completed, and a dispatch that nobody has reported on keeps    *)
(* its step at work, waits with it for a rerun or is left to the stop of   *)
(* the run: a refreshQuality that is cut off breaks neither.               *)
THEOREM AlwaysFine == Spec => []Fine(db, {})
  <1>1. Fine(db, {})' <=> Fine(db', {})
    BY DEF Fine, ResultsSound, ResultSound, UsedSound, HasDispatch, OnHold, RowsFine, RowFine,
           Fresh, Excused
  <1>2. IInv /\ Fine(db, {}) /\ [Next]_vars => Fine(db, {})'
    <2> SUFFICES ASSUME IInv, Fine(db, {}), [Next]_vars PROVE Fine(db', {})
      BY <1>1
    <2>1. {} \ Stales = {}
      OBVIOUS
    <2> QED BY <2>1, FineIsInductive
  <1> QED BY <1>2, InitFine, AlwaysGood, PTL DEF Spec

(* A step of any workflow goes on only with the results that its           *)
(* dependencies have now, and no result is that of an attempt that waits   *)
(* for its rerun (requestRerun, refreshQuality, onCreated); only a         *)
(* refreshQuality that dies or throws while it stores evidence leaves the  *)
(* steps below that evidence, and no others, on the results they had.      *)
THEOREM CurrentResultsAreKept == Spec => StepsKeepToCurrentResults
  <1>1. ASSUME IInv, Fine(db, {}), [Next]_vars
        PROVE  [\A s \in Steps : UsesCurrentResults(db, s) =>
                  UsesCurrentResults(db', s) \/ LeftBehind(s)]_vars
    <2> SUFFICES ASSUME NEW s \in Steps, UsesCurrentResults(db, s), ~LeftBehind(s)
                 PROVE  UsesCurrentResults(db', s)
      OBVIOUS
    <2>1. UsedSound(db, s)
      BY DEF UsesCurrentResults, UsedSound
    <2>2. Fine(db, {s})
      BY <1>1, <2>1 DEF Fine, ResultsSound
    <2>3. Fine(db', {s})
      <3>1. CASE Fine(db', {s})
        BY <3>1
      <3>2. CASE (EvidenceDies \/ EvidenceThrows) /\ Fine(db', {s} \ Stales)
        <4>1. s \notin Stales
          BY <3>2 DEF LeftBehind
        <4>2. {s} \ Stales = {s}
          BY <4>1
        <4> QED BY <3>2, <4>2
      <3> QED BY <1>1, <2>2, <3>1, <3>2, FineIsInductive
    <2>4. ResultSound(db', s) /\ UsedSound(db', s)
      BY <2>3 DEF Fine, ResultsSound
    <2> QED BY <2>4 DEF ResultSound, UsedSound, UsesCurrentResults
  <1> QED BY <1>1, AlwaysGood, AlwaysFine, PTL DEF Spec, StepsKeepToCurrentResults

(* A failed run leaves no worker at a task of it that no person gave back  *)
(* or wants rerun (failRun, dispatchReady).                                *)
THEOREM FailedRunsLeaveNoWork == Spec => []FailedRunsLeaveNoOpenWork
  <1>1. ASSUME IInv, Fine(db, {}) PROVE FailedRunsLeaveNoOpenWork
    <2> SUFFICES ASSUME db.status = "failed", NEW i \in Dispatches, IsOpen(db, i)
                 PROVE  Reclaimed(i)
      BY DEF FailedRunsLeaveNoOpenWork
    <2>1. i \in 1..Len(db.dispatch) /\ db.dispatch[i].revision \in Nat
      BY <1>1, DatabaseFields, RowNumbers DEF IInv, Good, Dispatches
    <2>2. CASE db.dispatch[i].revision > 0
      BY <2>2 DEF Reclaimed
    <2>3. CASE db.dispatch[i].revision = 0
      <3>1. Fresh(db.dispatch[i])
        BY <2>3 DEF Fresh, IsOpen
      <3>2. /\ db.dispatch[i].step \in Steps
            /\ db.step[db.dispatch[i].step].dispatch = i
        BY <1>1, <2>1, <3>1, FreshIsBound DEF IInv, Fine
      <3>3. db.step[db.dispatch[i].step].rerunPending
        BY <1>1, <2>1, <3>1 DEF Fine, RowsFine, RowFine, Excused
      <3> QED BY <3>2, <3>3 DEF Reclaimed, Pending
    <2> QED BY <2>1, <2>2, <2>3
  <1> QED BY <1>1, AlwaysFine, AlwaysGood, PTL
====
