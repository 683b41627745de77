-------------------------- MODULE TeamDeliveryProofs --------------------------
(***************************************************************************)
(* Proofs about TeamDelivery, for every value of its constants.            *)
(***************************************************************************)
EXTENDS TeamDelivery, MessageDeliveryStoreProofs

Ledger == [Dispatches -> LedgerRecord]
Outbox == [Dispatches -> OutboxRecord]

(* The inductive invariant behind the type invariant and the order of the  *)
(* lanes: a recipient's run can be looked up only if the row has one.      *)
Ordered == TypeOK /\ InOrder(deliveries)

(* What every step does. *)
GoodStep == TypeOK' /\ StoreStep(deliveries, deliveries')

-----------------------------------------------------------------------------
(* The writes of the ledger keep its type.                                 *)
LEMMA LedgerWritesType ==
  ASSUME ledger \in Ledger, NEW d
  PROVE  /\ MarkSubmitted(d) \in Ledger
         /\ MarkDeliveryFailed(d) \in Ledger
         /\ MarkReported(d) \in Ledger
         /\ [ledger EXCEPT ![d].status = "cancelled", ![d].failed = FALSE] \in Ledger
  <1>1. CASE d \in Dispatches
    <2> DEFINE new(s, b, n) == [ledger[d] EXCEPT !.status = s, !.failed = b, !.revision = n]
    <2>1. ledger[d] \in LedgerRecord
      BY <1>1 DEF Ledger
    <2>2. ASSUME NEW r \in LedgerRecord, NEW s \in LedgerStatus, NEW b \in BOOLEAN, NEW n \in Nat
          PROVE  [r EXCEPT !.status = s, !.failed = b, !.revision = n] \in LedgerRecord
      BY DEF LedgerRecord
    <2>3. \A s \in LedgerStatus, b \in BOOLEAN, n \in Nat :
            [ledger EXCEPT ![d] = new(s, b, n)] \in Ledger
      <3>1. \A r \in LedgerRecord : [ledger EXCEPT ![d] = r] \in Ledger
        BY DEF Ledger
      <3>2. \A s \in LedgerStatus, b \in BOOLEAN, n \in Nat : new(s, b, n) \in LedgerRecord
        BY <2>1, <2>2
      <3> HIDE DEF new
      <3> QED BY <3>1, <3>2
    <2>4. /\ ledger[d].status \in LedgerStatus /\ ledger[d].failed \in BOOLEAN
          /\ ledger[d].revision \in Nat /\ ledger[d].revision + 1 \in Nat
      BY <2>1 DEF LedgerRecord
    <2>5. /\ MarkSubmitted(d) = [ledger EXCEPT ![d] = new("submitted", FALSE, ledger[d].revision)]
          /\ MarkReported(d) = [ledger EXCEPT ![d] = new("reported", FALSE, ledger[d].revision + 1)]
      BY <1>1, <2>1 DEF MarkSubmitted, MarkReported, LedgerRecord, Ledger
    <2>6. MarkDeliveryFailed(d)
            = [ledger EXCEPT ![d] = new(ledger[d].status, TRUE, ledger[d].revision)]
      BY <1>1, <2>1 DEF MarkDeliveryFailed, LedgerRecord, Ledger
    <2>7. [ledger EXCEPT ![d].status = "cancelled", ![d].failed = FALSE]
            = [ledger EXCEPT ![d] = new("cancelled", FALSE, ledger[d].revision)]
      BY <1>1, <2>1 DEF LedgerRecord, Ledger
    <2> HIDE DEF new, Ledger
    <2>8. MarkSubmitted(d) \in Ledger /\ MarkReported(d) \in Ledger
      BY <2>3, <2>4, <2>5 DEF LedgerStatus
    <2>9. MarkDeliveryFailed(d) \in Ledger
      BY <2>3, <2>4, <2>6
    <2>10. [ledger EXCEPT ![d].status = "cancelled", ![d].failed = FALSE] \in Ledger
      BY <2>3, <2>4, <2>7 DEF LedgerStatus
    <2> QED BY <2>8, <2>9, <2>10
  <1>2. CASE d \notin Dispatches
    <2>1. /\ MarkSubmitted(d) = ledger /\ MarkDeliveryFailed(d) = ledger
          /\ MarkReported(d) = ledger
          /\ [ledger EXCEPT ![d].status = "cancelled", ![d].failed = FALSE] = ledger
      BY <1>2 DEF MarkSubmitted, MarkDeliveryFailed, MarkReported, Ledger
    <2> QED BY <2>1
  <1> QED BY <1>1, <1>2

(* The writes that several operations share keep the types.                *)
LEMMA SharedWritesType ==
  ASSUME TypeOK, NEW i
  PROVE  /\ \A d : MarkSubmitted(d) \in Ledger /\ MarkDeliveryFailed(d) \in Ledger
         /\ LedgerAccepted(i) \in Ledger
         /\ LedgerAfterFailure(i) \in Ledger
         /\ OutboxAccepted(i) \in Outbox
         /\ Abort(i) \in [RowIds -> Attempt]
         /\ [active EXCEPT ![i] = NoAttempt] \in [RowIds -> Attempt]
  <1>1. \A d : MarkSubmitted(d) \in Ledger /\ MarkDeliveryFailed(d) \in Ledger
    BY LedgerWritesType DEF TypeOK, Ledger
  <1>2. LedgerAccepted(i) \in Ledger /\ LedgerAfterFailure(i) \in Ledger
    BY <1>1 DEF TypeOK, Ledger, LedgerAccepted, LedgerAfterFailure
  <1>3. OutboxAccepted(i) \in Outbox
    BY DEF TypeOK, Outbox, OutboxRecord, OutboxAccepted
  <1>4. Abort(i) \in [RowIds -> Attempt]
    <2>1. ASSUME NEW r \in Attempt
          PROVE  [r EXCEPT !.aborted = TRUE] \in Attempt
      BY DEF Attempt
    <2>2. active \in [RowIds -> Attempt]
      BY DEF TypeOK
    <2>3. CASE i \in RowIds
      <3>1. [active[i] EXCEPT !.aborted = TRUE] \in Attempt
        BY <2>1, <2>2, <2>3
      <3>2. \A r \in Attempt : [active EXCEPT ![i] = r] \in [RowIds -> Attempt]
        BY <2>2
      <3> QED BY <2>2, <3>1, <3>2 DEF Abort
    <2>4. CASE i \notin RowIds
      <3>1. [active EXCEPT ![i].aborted = TRUE] = active
        BY <2>2, <2>4
      <3> QED BY <2>2, <3>1 DEF Abort
    <2> QED BY <2>3, <2>4
  <1>5. [active EXCEPT ![i] = NoAttempt] \in [RowIds -> Attempt]
    BY DEF TypeOK, Attempt, NoAttempt
  <1> QED BY <1>1, <1>2, <1>3, <1>4, <1>5

(* So does the end of the server process.                                  *)
LEMMA RestartedType ==
  ASSUME TypeOK, NEW t, Restarted(t)
  PROVE  /\ ledger' \in Ledger /\ outbox' \in Outbox /\ manualStop' \subseteq Agents
         /\ run' \in [Agents -> Nat] /\ starts' \in [Agents -> Nat]
         /\ active' \in [RowIds -> Attempt] /\ starting' \in [Workers -> Starting]
         /\ sending' \subseteq Dispatches /\ closing' \in BOOLEAN
         /\ copies' \in [RowIds -> Nat] /\ resends' \in Nat /\ restarts' \in Nat
  <1> USE DEF TypeOK, Ledger, Outbox, Restarted
  <1>1. NoAttempt \in Attempt /\ NotStarting \in Starting
    BY StoreAssumption DEF NoAttempt, Attempt, NotStarting, Starting
  <1>2. active' \in [RowIds -> Attempt] /\ starting' \in [Workers -> Starting]
    BY <1>1
  <1>3. run' \in [Agents -> Nat] /\ restarts' \in Nat
    OBVIOUS
  <1> QED BY <1>2, <1>3

(* A step of an attempt, of its receipt or of the person.                  *)
LEMMA AttemptingStep ==
  ASSUME Ordered, NEW i \in RowIds, Attempting(i)
  PROVE  GoodStep
  <1> USE DEF Ordered, GoodStep, TypeOK, Table, Ledger, Outbox, history, memory, persistent
  <1>0. deliveries \in Table
    OBVIOUS
  <1>1. /\ WriteIntent(i) \in Table /\ Eases(deliveries, WriteIntent(i))
        /\ JournalAfterIntent(i) \subseteq RowIds
    BY RowType, RowEases DEF WriteIntent, JournalAfterIntent
  <1>2. \A t \in Table : \A terminal :
          FailAttempt(t, i, terminal) /\ Eases(deliveries, t) =>
            /\ deliveries' \in Table /\ StoreStep(deliveries, deliveries')
            /\ ledger' \in Ledger /\ active' \in [RowIds -> Attempt]
    <2> SUFFICES ASSUME NEW t \in Table, NEW terminal, FailAttempt(t, i, terminal),
                        Eases(deliveries, t)
                 PROVE  /\ deliveries' \in Table /\ StoreStep(deliveries, deliveries')
                        /\ ledger' \in Ledger /\ active' \in [RowIds -> Attempt]
      OBVIOUS
    <2>1. deliveries' \in Table /\ Eases(t, deliveries')
      BY RowType, RowEases DEF FailAttempt
    <2>2. StoreStep(deliveries, deliveries')
      BY <1>0, <2>1, EasesTransitive, StoreStepForms
    <2> QED BY <2>1, <2>2, SharedWritesType DEF FailAttempt
  <1>3. PersistAccepted(i) => ledger' \in Ledger /\ outbox' \in Outbox
    BY SharedWritesType DEF PersistAccepted
  <1>4. CASE Deliver(i)
    <2>1. Claims(deliveries, deliveries') /\ deliveries' \in Table
      BY <1>4, <1>0, RowType DEF Deliver, Claims
    <2>2. deliveries[i].recipient \in Agents
      BY <1>4 DEF Deliver, CanClaim, InOrder, Addressed
    <2>3. deliveries[i].attempt + 1 \in Nat /\ run[deliveries[i].recipient] \in Nat
      BY <2>2 DEF DeliveryRecord
    <2>4. \A n, r \in Nat : [NoAttempt EXCEPT !.phase = "claimed", !.attempt = n, !.run = r]
                            \in Attempt
      BY DEF NoAttempt, Attempt
    <2>5. active' \in [RowIds -> Attempt]
      BY <1>4, <2>3, <2>4 DEF Deliver
    <2> QED BY <1>4, <1>0, <2>1, <2>5, StoreStepForms DEF Deliver
  <1>5. CASE WriteInput(i)
    <2>1. deliveries' \in Table /\ Eases(deliveries, deliveries') /\ journal' \subseteq RowIds
      BY <1>5, <1>1 DEF WriteInput
    <2>2. active' \in [RowIds -> Attempt] /\ copies' \in [RowIds -> Nat]
      BY <1>5 DEF WriteInput, Attempt
    <2> QED BY <1>5, <1>0, <2>1, <2>2, StoreStepForms DEF WriteInput
  <1>6. CASE WriteRejected(i)
    BY <1>6, <1>1, <1>2 DEF WriteRejected
  <1>7. CASE CrashBeforeWrite(i)
    <2>1. deliveries' \in Table /\ Eases(WriteIntent(i), deliveries')
      BY <1>7, <1>1, TableType, TableEases DEF CrashBeforeWrite, Restarted
    <2>2. StoreStep(deliveries, deliveries')
      BY <1>0, <1>1, <2>1, EasesTransitive, StoreStepForms
    <2> QED BY <1>7, <1>1, <2>1, <2>2, RestartedType DEF CrashBeforeWrite
  <1>8. CASE PressEnter(i)
    <2>1. deliveries' \in Table /\ StoreStep(deliveries, deliveries')
      BY <1>8, <1>0, RowType, RowEases, StoreStepForms DEF PressEnter
    <2>2. active' \in [RowIds -> Attempt]
      BY <1>8 DEF PressEnter, Attempt
    <2> QED BY <1>8, <2>1, <2>2 DEF PressEnter
  <1>9. CASE CompleteNative(i) \/ CompletePty(i)
    <2>1. deliveries[i].state = "attempting"
      BY <1>9 DEF CompleteNative, CompletePty, Owned, OwnsAttempt
    <2>2. \A native \in BOOLEAN : /\ Submitted(deliveries, i, native) \in Table
                                   /\ Eases(deliveries, Submitted(deliveries, i, native))
      BY <1>0, <2>1, RowType, RowEases
    <2>3. PICK native \in BOOLEAN : deliveries' = Submitted(deliveries, i, native)
      BY <1>9 DEF CompleteNative, CompletePty
    <2>4. deliveries' \in Table /\ StoreStep(deliveries, deliveries')
      BY <1>0, <2>2, <2>3, StoreStepForms
    <2>5. ledger' \in Ledger /\ outbox' \in Outbox
      BY <1>3, <1>9 DEF CompleteNative, CompletePty
    <2>6. active' \in [RowIds -> Attempt]
      <3>1. active' = [active EXCEPT ![i] = NoAttempt]
        BY <1>9 DEF CompleteNative, CompletePty
      <3> QED BY <3>1, SharedWritesType
    <2>7. UNCHANGED <<manualStop, run, starts, starting, sending, closing, journal, history>>
      BY <1>9 DEF CompleteNative, CompletePty
    <2> QED BY <2>4, <2>5, <2>6, <2>7
  <1>10. CASE AttemptFails(i) \/ AttemptNeedsReview(i) \/ AttemptDropped(i)
    BY <1>10, <1>0, <1>2, TableEases DEF AttemptFails, AttemptNeedsReview, AttemptDropped
  <1>11. CASE Recheck(i)
    <2>1. deliveries' \in Table /\ StoreStep(deliveries, deliveries')
      BY <1>11, <1>0, RowType, RowEases, StoreStepForms DEF Recheck
    <2> QED BY <1>11, <1>3, <2>1 DEF Recheck
  <1>12. CASE Journal(i)
    BY <1>12, <1>0, TableEases, StoreStepForms DEF Journal
  <1>13. CASE HandledByUser(i)
    <2>1. deliveries' \in Table /\ StoreStep(deliveries, deliveries')
      BY <1>13, <1>0, RowType, RowEases, StoreStepForms DEF HandledByUser
    <2> QED BY <1>13, <1>3, <2>1 DEF HandledByUser
  <1>14. CASE ResendByUser(i)
    <2>1. deliveries' \in Table /\ StoreStep(deliveries, deliveries')
      BY <1>14, <1>0, RowType, RowEases, StoreStepForms DEF ResendByUser
    <2>2. copies' \in [RowIds -> Nat] /\ journal' \subseteq RowIds /\ resends' \in Nat
      BY <1>14 DEF ResendByUser
    <2>3. UNCHANGED <<ledger, outbox, manualStop, memory, restarts>>
      BY <1>14 DEF ResendByUser
    <2> QED BY <2>1, <2>2, <2>3
  <1> QED BY <1>4, <1>5, <1>6, <1>7, <1>8, <1>9, <1>10, <1>11, <1>12, <1>13, <1>14
          DEF Attempting

(* A step about a dispatch.                                                *)
LEMMA DispatchingStep ==
  ASSUME Ordered, NEW d \in Dispatches, Dispatching(d)
  PROVE  GoodStep
  <1> USE DEF Ordered, GoodStep, TypeOK, Ledger, Outbox, history, memory, persistent
  <1>0. deliveries \in Table /\ Assignee[d] \in Agents /\ Orchestrator \in Agents
    BY DeliveryAssumption DEF Table, Workers
  <1>1. \A t \in Table, n \in RowIds, kind \in Kinds, r \in Agents :
          Fresh(n) /\ Eases(deliveries, t) =>
            Insert(t, n, kind, d, r) \in Table /\ Sends(t, Insert(t, n, kind, d, r))
    <2> SUFFICES ASSUME NEW t \in Table, NEW n \in RowIds, NEW kind \in Kinds,
                        NEW r \in Agents, Fresh(n), Eases(deliveries, t)
                 PROVE  Insert(t, n, kind, d, r) \in Table /\ Sends(t, Insert(t, n, kind, d, r))
      OBVIOUS
    <2>1. \A m \in RowIds : t[m].state = "absent" <=> deliveries[m].state = "absent"
      BY DEF Eases, Settled, Fencing
    <2>2. \A m \in 1..(n - 1) : m \in RowIds
      BY StoreAssumption DEF RowIds
    <2>3. t[n].state = "absent" /\ \A m \in 1..(n - 1) : t[m].state # "absent"
      BY <2>1, <2>2 DEF Fresh
    <2> QED BY <2>3, InsertType DEF Sends
  <1>2. \A n \in RowIds, kind \in Kinds, r \in Agents :
          Fresh(n) => /\ Insert(deliveries, n, kind, d, r) \in Table
                      /\ StoreStep(deliveries, Insert(deliveries, n, kind, d, r))
    BY <1>0, <1>1, TableEases, StoreStepForms
  <1>3. \A t \in Table : ReportedRows(t, d) \in Table /\ Eases(t, ReportedRows(t, d))
    <2> SUFFICES ASSUME NEW t \in Table
                 PROVE  ReportedRows(t, d) \in Table /\ Eases(t, ReportedRows(t, d))
      OBVIOUS
    <2>1. ClosePending(t, d) \in Table /\ Eases(t, ClosePending(t, d))
      BY TableType, TableEases
    <2>2. /\ ReportedRows(t, d) \in Table
          /\ Eases(ClosePending(t, d), ReportedRows(t, d))
      BY <2>1, RowType, RowEases DEF ReportedRows
    <2> QED BY <2>1, <2>2, EasesTransitive
  <1>4. MarkReported(d) \in Ledger
    BY LedgerWritesType
  <1>5. CASE CreateDispatch(d)
    <2>1. PICK n \in RowIds :
            /\ Fresh(n)
            /\ deliveries' = Insert(deliveries, n, "dispatch", d, Assignee[d])
            /\ ledger' = [ledger EXCEPT ![d] = [status |-> "queued", failed |-> FALSE,
                                                revision |-> 0, row |-> n]]
      BY <1>5 DEF CreateDispatch
    <2>2. deliveries' \in Table /\ StoreStep(deliveries, deliveries')
      BY <1>0, <1>2, <2>1 DEF Kinds
    <2>3. ledger' \in Ledger
      BY <2>1 DEF LedgerRecord, LedgerStatus, RowIds
    <2>4. sending' \subseteq Dispatches
      BY <1>5 DEF CreateDispatch
    <2>5. UNCHANGED <<outbox, manualStop, run, starts, active, starting, closing, journal,
                      history>>
      BY <1>5 DEF CreateDispatch
    <2> QED BY <2>2, <2>3, <2>4, <2>5 DEF Table
  <1>6. CASE StartAwaited(d)
    BY <1>6, <1>0, TableEases, StoreStepForms DEF StartAwaited
  <1>7. CASE StartFailed(d)
    BY <1>7, <1>0, TableEases, StoreStepForms, SharedWritesType DEF StartFailed
  <1>8. CASE Acknowledge(d)
    <2> DEFINE i == ledger[d].row
    <2>1. deliveries' \in Table /\ StoreStep(deliveries, deliveries')
      BY <1>8, <1>0, RowType, RowEases, StoreStepForms DEF Acknowledge
    <2>2. LedgerAccepted(i) \in Ledger /\ OutboxAccepted(i) \in Outbox
          /\ Abort(i) \in [RowIds -> Attempt]
      BY SharedWritesType
    <2> QED BY <1>8, <2>1, <2>2 DEF Acknowledge, PersistAccepted, Table
  <1>9. CASE ReportQueued(d)
    <2> DEFINE kept == IF Replaces(d) THEN Supersede(deliveries, outbox[d].receipt)
                                      ELSE deliveries
    <2>1. PICK n \in RowIds :
            /\ Fresh(n)
            /\ deliveries' = ReportedRows(Insert(kept, n, "report", d, Orchestrator), d)
            /\ outbox' = [outbox EXCEPT ![d] = [receipt |-> n, delivered |-> FALSE,
                                                revision |-> ledger[d].revision + 1]]
      BY <1>9 DEF ReportQueued
    <2> DEFINE sent == Insert(kept, n, "report", d, Orchestrator)
    <2>2. kept \in Table /\ Eases(deliveries, kept)
      BY <1>0, RowType, RowEases, TableEases
    <2>3. sent \in Table /\ Sends(kept, sent)
      BY <1>0, <1>1, <2>1, <2>2 DEF Kinds
    <2>4. deliveries' \in Table /\ Eases(sent, deliveries')
      BY <1>3, <2>1, <2>3
    <2>5. StoreStep(deliveries, deliveries')
      BY <1>0, <2>2, <2>3, <2>4, StoreStepForms
    <2>6. outbox' \in Outbox
      <3>1. ledger[d].revision + 1 \in Nat
        BY DEF LedgerRecord
      <3> QED BY <2>1, <3>1 DEF OutboxRecord, RowIds
    <2>7. ledger' \in Ledger /\ active' \in [RowIds -> Attempt]
      BY <1>9, <1>4, SharedWritesType DEF ReportQueued
    <2>8. UNCHANGED <<manualStop, run, starts, starting, sending, closing, journal, history>>
      BY <1>9 DEF ReportQueued
    <2> QED BY <2>4, <2>5, <2>6, <2>7, <2>8 DEF Table
  <1>10. CASE ReportIgnored(d)
    <2>1. deliveries' \in Table /\ StoreStep(deliveries, deliveries')
      BY <1>10, <1>0, <1>3, StoreStepForms DEF ReportIgnored
    <2>2. ledger' \in Ledger /\ active' \in [RowIds -> Attempt]
      BY <1>10, <1>4, SharedWritesType DEF ReportIgnored
    <2> QED BY <1>10, <2>1, <2>2 DEF ReportIgnored, Table
  <1>11. CASE ConfirmCancellation(d)
    <2> DEFINE confirmed(i) == deliveries[i].kind = "cancel" /\ deliveries[i].dispatch = d
    <2>2. deliveries' = [i \in RowIds |-> IF confirmed(i) THEN Confirm(deliveries, i)[i]
                                                        ELSE deliveries[i]]
      BY <1>11 DEF ConfirmCancellation
    <2>3. \A i \in RowIds : Confirm(deliveries, i) \in Table /\ Eases(deliveries, Confirm(deliveries, i))
      BY <1>0, RowType, RowEases
    <2>4. \A t \in Table, i \in RowIds : t[i] \in DeliveryRecord
      BY DEF Table
    <2>5. deliveries' \in Table
      BY <1>0, <2>2, <2>3, <2>4 DEF Table
    <2>6. Eases(deliveries, deliveries')
      BY <2>2, <2>3 DEF Eases
    <2>1. deliveries' \in Table /\ Eases(deliveries, deliveries')
      BY <2>5, <2>6
    <2> QED BY <1>11, <1>0, <2>1, StoreStepForms DEF ConfirmCancellation, Table
  <1>12. CASE \E a \in Agents : PostMessage(d, a)
    <2>1. PICK n \in RowIds, r \in Agents :
            Fresh(n) /\ deliveries' = Insert(deliveries, n, "message", d, r)
      BY <1>12 DEF PostMessage
    <2>2. deliveries' \in Table /\ StoreStep(deliveries, deliveries')
      BY <1>2, <2>1 DEF Kinds
    <2> QED BY <1>12, <2>2 DEF PostMessage, Table
  <1>13. CASE Feedback(d)
    <2>1. deliveries' \in Table /\ StoreStep(deliveries, deliveries')
      BY <1>13, <1>0, <1>2, TableEases, StoreStepForms DEF Feedback, Kinds
    <2>2. Reopened(d) \in Ledger
      BY DEF Reopened, LedgerRecord, LedgerStatus
    <2>3. ASSUME NEW l \in Ledger PROVE [l EXCEPT ![d].failed = TRUE] \in Ledger
      <3>1. ASSUME NEW r \in LedgerRecord PROVE [r EXCEPT !.failed = TRUE] \in LedgerRecord
        BY DEF LedgerRecord
      <3>2. l[d] \in LedgerRecord
        OBVIOUS
      <3>3. \A r \in LedgerRecord : [l EXCEPT ![d] = r] \in Ledger
        OBVIOUS
      <3> QED BY <3>1, <3>2, <3>3
    <2>4. ledger' \in Ledger
      BY <1>13, <2>2, <2>3 DEF Feedback
    <2>5. UNCHANGED <<outbox, manualStop, memory, journal, history>>
      BY <1>13 DEF Feedback
    <2> QED BY <2>1, <2>4, <2>5 DEF Table
  <1>14. CASE Cancel(d)
    <2> DEFINE i == ledger[d].row
               closed == ClosePending(deliveries, d)
               withdrawn == IF closed[i].state = "pending"
                              THEN [closed EXCEPT ![i].state = "resolved"] ELSE closed
    <2>1. PICK n \in RowIds :
            Fresh(n) /\ deliveries' = Insert(withdrawn, n, "cancel", d, Assignee[d])
      BY <1>14 DEF Cancel, RequestCancellation
    <2>2. closed \in Table /\ Eases(deliveries, closed)
      BY <1>0, TableType, TableEases
    <2>3. withdrawn \in Table /\ Eases(closed, withdrawn)
      <3>1. CASE closed[i].state # "pending"
        BY <2>2, <3>1, TableEases
      <3>2. CASE closed[i].state = "pending"
        <4> DEFINE t == [closed EXCEPT ![i].state = "resolved"]
        <4>1. t \in Table
          BY <2>2, RowType DEF Handled
        <4>2. \A j \in RowIds : /\ t[j].recipient = closed[j].recipient
                               /\ t[j].dispatch = closed[j].dispatch
                               /\ \/ t[j].state = closed[j].state
                                  \/ j = i /\ t[j].state = "resolved"
          BY <2>2 DEF Table, DeliveryRecord
        <4> QED BY <3>2, <4>1, <4>2 DEF Eases, Settled
      <3> QED BY <3>1, <3>2
    <2>4. Eases(deliveries, withdrawn)
      BY <1>0, <2>2, <2>3, EasesTransitive
    <2>5. deliveries' \in Table /\ Sends(withdrawn, deliveries')
      BY <1>0, <1>1, <2>1, <2>3, <2>4 DEF Kinds
    <2>6. StoreStep(deliveries, deliveries')
      BY <1>0, <2>3, <2>4, <2>5, StoreStepForms
    <2>7. ledger' \in Ledger
      <3>1. ledger \in Ledger
        OBVIOUS
      <3> QED BY <1>14, <3>1, LedgerWritesType DEF Cancel
    <2>8. active' \in [RowIds -> Attempt]
      BY <1>14, SharedWritesType DEF Cancel
    <2>9. UNCHANGED <<outbox, manualStop, run, starts, starting, sending, closing, journal,
                      history>>
      BY <1>14 DEF Cancel
    <2> QED BY <2>5, <2>6, <2>7, <2>8, <2>9 DEF Table
  <1> QED BY <1>5, <1>6, <1>7, <1>8, <1>9, <1>10, <1>11, <1>12, <1>13, <1>14
          DEF Dispatching

(* A step of an agent's run.                                               *)
LEMMA RunStep ==
  ASSUME Ordered, NEW a \in Agents, RunOf(a)
  PROVE  GoodStep
  <1> USE DEF Ordered, GoodStep, TypeOK, Ledger, Outbox, history, memory, persistent
  <1>1. deliveries' = deliveries /\ deliveries \in Table
    BY DEF RunOf, StartRun, ExitRun, ManualStop, Table
  <1>2. StoreStep(deliveries, deliveries')
    BY <1>1, TableEases, StoreStepForms
  <1>3. run' \in [Agents -> Nat] /\ starts' \in [Agents -> Nat] /\ manualStop' \subseteq Agents
    BY DEF RunOf, StartRun, ExitRun, ManualStop
  <1>4. UNCHANGED <<deliveries, ledger, outbox, active, starting, sending, closing, journal,
                    history>>
    BY DEF RunOf, StartRun, ExitRun, ManualStop
  <1> QED BY <1>2, <1>3, <1>4

(* A step of a launch with an initial dispatch.                            *)
LEMMA LaunchingStep ==
  ASSUME Ordered, NEW w \in Workers, Launching(w)
  PROVE  GoodStep
  <1> USE DEF Ordered, GoodStep, TypeOK, Ledger, Outbox, history, memory, persistent
  <1>0. deliveries \in Table /\ w \in Agents
    BY DEF Table, Workers
  <1>1. NotStarting \in Starting
    BY StoreAssumption DEF NotStarting, Starting
  <1>2. CASE PrepareInitial(w)
    <2>1. StoreStep(deliveries, deliveries')
      BY <1>2, <1>0, TableEases, StoreStepForms DEF PrepareInitial
    <2>2. starting' \in [Workers -> Starting]
      BY <1>2 DEF PrepareInitial, Starting, RowIds
    <2>3. starts' \in [Agents -> Nat] /\ manualStop' \subseteq Agents
      BY <1>2, <1>0 DEF PrepareInitial
    <2>4. UNCHANGED <<deliveries, ledger, outbox, run, active, sending, closing, journal,
                      history>>
      BY <1>2 DEF PrepareInitial
    <2> QED BY <2>1, <2>2, <2>3, <2>4
  <1>3. CASE ClaimInitial(w)
    <2> DEFINE i == starting[w].row
               claimed == Claim(deliveries, i)
    <2>1. i \in RowIds
      BY <1>3 DEF ClaimInitial, Starting, NotStarting
    <2>2. claimed \in Table /\ Claims(deliveries, claimed)
      BY <1>3, <1>0, <2>1, RowType DEF ClaimInitial, Claims
    <2>3. deliveries' \in Table /\ Eases(claimed, deliveries')
      BY <1>3, <2>2, RowType, RowEases DEF ClaimInitial
    <2>4. StoreStep(deliveries, deliveries')
      BY <1>0, <2>2, <2>3, StoreStepForms
    <2>5. claimed[i].attempt \in Nat
      BY <2>1, <2>2 DEF Table, DeliveryRecord
    <2>6. starting' \in [Workers -> Starting]
      <3>1. \A n \in Nat : [starting[w] EXCEPT !.phase = "claimed", !.attempt = n] \in Starting
        <4>1. starting[w] \in [phase: {"prepared", "claimed", "spawned"}, row: RowIds,
                               attempt: Nat]
          BY <1>3 DEF ClaimInitial, Starting, NotStarting
        <4> QED BY <4>1 DEF Starting
      <3> QED BY <1>3, <2>5, <3>1 DEF ClaimInitial
    <2>7. journal' \subseteq RowIds
      BY <1>3 DEF ClaimInitial
    <2>8. UNCHANGED <<ledger, outbox, manualStop, run, starts, active, sending, closing,
                      history>>
      BY <1>3 DEF ClaimInitial
    <2> QED BY <2>3, <2>4, <2>6, <2>7, <2>8 DEF Table
  <1>4. CASE SpawnInitial(w)
    <2>1. StoreStep(deliveries, deliveries')
      BY <1>4, <1>0, TableEases, StoreStepForms DEF SpawnInitial
    <2>2. starting' \in [Workers -> Starting]
      BY <1>4 DEF SpawnInitial, Starting, NotStarting
    <2>3. starting[w].row \in RowIds
      BY <1>4 DEF SpawnInitial, Starting, NotStarting
    <2>4. copies' \in [RowIds -> Nat]
      BY <1>4, <2>3 DEF SpawnInitial
    <2>5. UNCHANGED <<persistent, run, starts, active, sending, closing, journal, resends,
                      restarts>>
      BY <1>4 DEF SpawnInitial
    <2> QED BY <2>1, <2>2, <2>4, <2>5
  <1>5. CASE Launched(w)
    <2> DEFINE i == starting[w].row
    <2>1. deliveries[i].state \in Settled \cup {"attempting"}
      BY <1>5 DEF Launched, OwnsAttempt
    <2>2. deliveries' \in Table /\ StoreStep(deliveries, deliveries')
      BY <1>5, <1>0, <2>1, RowType, RowEases, StoreStepForms DEF Launched
    <2>3. starting' \in [Workers -> Starting] /\ run' \in [Agents -> Nat]
      BY <1>5, <1>0, <1>1 DEF Launched
    <2>4. UNCHANGED <<ledger, outbox, manualStop, starts, active, sending, closing, journal,
                      history>>
      BY <1>5 DEF Launched
    <2> QED BY <2>2, <2>3, <2>4 DEF Table
  <1>6. CASE LaunchFails(w)
    <2> DEFINE i == starting[w].row
    <2>1. deliveries' \in Table /\ StoreStep(deliveries, deliveries')
      BY <1>6, <1>0, RowType, RowEases, TableEases, StoreStepForms DEF LaunchFails
    <2>2. ledger' \in Ledger
      BY <1>6, SharedWritesType DEF LaunchFails
    <2>3. starting' \in [Workers -> Starting]
      BY <1>6, <1>1 DEF LaunchFails
    <2>4. UNCHANGED <<outbox, manualStop, run, starts, active, sending, closing, journal,
                      history>>
      BY <1>6 DEF LaunchFails
    <2> QED BY <2>1, <2>2, <2>3, <2>4 DEF Table
  <1> QED BY <1>2, <1>3, <1>4, <1>5, <1>6 DEF Launching

(* The end of the server process, orderly or not.                          *)
LEMMA ServerStep ==
  ASSUME Ordered, Close \/ Restart
  PROVE  GoodStep
  <1> USE DEF Ordered, GoodStep, TypeOK, Ledger, Outbox, history, memory, persistent
  <1>0. deliveries \in Table
    BY DEF Table
  <1>1. CASE Close
    <2>1. StoreStep(deliveries, deliveries')
      BY <1>1, <1>0, TableEases, StoreStepForms DEF Close
    <2>2. active' \in [RowIds -> Attempt]
      BY <1>1, SharedWritesType DEF Close
    <2> QED BY <1>1, <2>1, <2>2 DEF Close
  <1>2. CASE Restart
    <2>1. deliveries' \in Table /\ StoreStep(deliveries, deliveries')
      BY <1>2, <1>0, TableType, TableEases, StoreStepForms DEF Restart, Restarted
    <2> QED BY <1>2, <2>1, RestartedType DEF Restart, Table
  <1> QED BY <1>1, <1>2

-----------------------------------------------------------------------------
LEMMA InitOrdered ==
  ASSUME Init
  PROVE  Ordered
  <1>1. TypeOK
    <2>1. NoDelivery \in DeliveryRecord
      BY DEF NoDelivery, DeliveryRecord, Kinds
    <2>2. NoAttempt \in Attempt /\ NotStarting \in Starting
      BY StoreAssumption DEF NoAttempt, Attempt, NotStarting, Starting
    <2>3. 0 \in 0..MaxRows
      BY StoreAssumption
    <2> QED BY <2>1, <2>2, <2>3 DEF Init, TypeOK, LedgerRecord, LedgerStatus, OutboxRecord
  <1>2. InOrder(deliveries)
    BY DEF Init, InOrder, NoGaps, Addressed, LanesInOrder, NoDelivery, Fencing
  <1> QED BY <1>1, <1>2 DEF Ordered

LEMMA EveryStepIsGood ==
  ASSUME Ordered, [Next]_vars
  PROVE  GoodStep
  <1>1. CASE UNCHANGED vars
    <2>1. deliveries \in Table
      BY DEF Ordered, TypeOK, Table
    <2> QED BY <1>1, <2>1, TableEases, StoreStepForms
            DEF GoodStep, Ordered, TypeOK, vars, persistent, memory, history
  <1> QED BY <1>1, AttemptingStep, DispatchingStep, RunStep, LaunchingStep, ServerStep DEF Next

LEMMA OrderedIsInductive ==
  ASSUME Ordered, [Next]_vars
  PROVE  Ordered'
  BY EveryStepIsGood, StoreStepKeepsLanes DEF GoodStep, Ordered, TypeOK, Table

THEOREM AlwaysOrdered == Spec => []Ordered
  <1> QED BY InitOrdered, OrderedIsInductive, PTL DEF Spec

(* Every variable keeps its type in every behaviour.                       *)
THEOREM TypeCorrect == Spec => []TypeOK
  <1>1. Ordered => TypeOK
    BY DEF Ordered
  <1> QED BY <1>1, AlwaysOrdered, PTL

(* At most one row of a recipient holds its composer, and every row sent   *)
(* to the recipient before it is settled.                                  *)
THEOREM LanesStayInOrder == Spec => []ComposerHeldInOrder
  <1>1. Ordered => ComposerHeldInOrder
    BY DEF Ordered, InOrder, LanesInOrder, ComposerHeldInOrder
  <1> QED BY <1>1, AlwaysOrdered, PTL

(* No step, whoever takes it, changes the state of a settled row.          *)
THEOREM SettledStaysSettled == Spec => SettledIsFinal
  <1>1. ASSUME Ordered, [Next]_vars
        PROVE  [\A i \in RowIds : deliveries[i].state \in Settled =>
                  deliveries'[i].state = deliveries[i].state]_vars
    <2>1. /\ deliveries \in Table /\ deliveries' \in Table
          /\ StoreStep(deliveries, deliveries')
      BY <1>1, EveryStepIsGood DEF GoodStep, Ordered, TypeOK, Table
    <2> QED BY <2>1, StoreStepKeepsRows
  <1> QED BY <1>1, AlwaysOrdered, PTL DEF Spec, SettledIsFinal

=============================================================================
