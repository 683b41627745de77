------------------------ MODULE DeliveryReportsProofs ------------------------
(***************************************************************************)
(* What the ledger and the outbox say about the rows of the delivery: no   *)
(* dispatch and no report is forgotten, none is taken for delivered that   *)
(* was not, and what was cancelled stays so.                               *)
(*                                                                         *)
(* The inductive invariant is ReportsSound.  A step settles rows, moves    *)
(* dispatches and moves reports; RowsAnnounced says that whoever settles a *)
(* row tells the dispatch or the report that waits for it.                 *)
(***************************************************************************)
EXTENDS DeliveryWritesProofs

(* An entry of the outbox holds the latest report, unless it is of a       *)
(* dispatch whose first report is kept, and until it is delivered its own  *)
(* row of the table delivers it.                                           *)
OutboxSound(t, d, l, o) ==
  /\ o.receipt = 0 => ~o.delivered /\ o.revision = 0 /\ l.revision = 0
  /\ o.receipt # 0 =>
       /\ o.receipt \in RowIds /\ t[o.receipt].state # "absent"
       /\ t[o.receipt].kind = "report" /\ t[o.receipt].dispatch = d
       /\ t[o.receipt].recipient = Orchestrator
       /\ l.status # "none" /\ l.revision > 0
       /\ Protocol[d] = 1 => o.revision = l.revision
       /\ ~o.delivered => t[o.receipt].state \notin Settled

EntriesSound == \A d \in Dispatches : OutboxSound(deliveries, d, ledger[d], outbox[d])

(* A dispatch that nobody waits for is cancelled for good.                 *)
CancelledUnfailed ==
  /\ sending \subseteq OrchestratorSends
  /\ \A d \in Dispatches \ OrchestratorSends :
       ledger[d].status = "cancelled" => ~ledger[d].failed

ReportsSound == EntriesSound /\ QueuedDispatchesAreCarried /\ CancelledUnfailed

-----------------------------------------------------------------------------
(* What becomes of an entry that is not replaced by a new report.          *)
EntryMoves(o, p) ==
  \/ p = o
  \/ /\ o.receipt # 0 /\ p.receipt = o.receipt /\ p.revision = o.revision
     /\ p.delivered

(* The row of a report that is marked delivered was accepted: its receipt  *)
(* was found, or its terminal gives none.                                  *)
Accepted(x) ==
  \/ x.state \in Settled
  \/ x.state = "unknown" /\ Adapter[x.recipient] = "claude"

Queued(l) == ~l.failed /\ l.status = "queued"

RowsAnnounced ==
  \A i \in RowIds :
    deliveries[i].state \notin Settled /\ deliveries'[i].state \in Settled =>
      /\ deliveries[i].kind = "report" =>
           \A d \in Dispatches : outbox'[d].receipt = i => outbox'[d].delivered
      /\ deliveries[i].kind = "dispatch" => ~Queued(ledger'[deliveries[i].dispatch])

EntriesMove ==
  \A d \in Dispatches :
    \/ ReportQueued(d)
    \/ /\ EntryMoves(outbox[d], outbox'[d])
       /\ outbox'[d] # outbox[d] => Accepted(deliveries'[outbox[d].receipt])

(* What every step does besides.                                           *)
Announces == RowsAnnounced /\ EntriesMove

(* The acceptance of a row is told to whoever waits for it.                *)
LEMMA AcceptanceAnnounces ==
  ASSUME Ordered, NEW i \in RowIds, deliveries[i].state # "absent", PersistAccepted(i),
         Accepted(deliveries'[i]),
         \A j \in RowIds \ {i} : deliveries'[j].state = deliveries[j].state
  PROVE  Announces
  <1>0. /\ deliveries[i].dispatch \in Dispatches /\ i # 0
        /\ ledger \in [Dispatches -> LedgerRecord] /\ outbox \in [Dispatches -> OutboxRecord]
    BY DEF Ordered, InOrder, Addressed, TypeOK, RowIds
  <1>1. ledger' = LedgerAccepted(i) /\ outbox' = OutboxAccepted(i)
    BY DEF PersistAccepted
  <1>2. deliveries[i].kind = "report" =>
          \A d \in Dispatches : outbox'[d].receipt = i => outbox'[d].delivered
    BY <1>0, <1>1 DEF OutboxAccepted, OutboxRecord
  <1>3. deliveries[i].kind = "dispatch" => ~Queued(ledger'[deliveries[i].dispatch])
    <2>1. CASE Undelivered(deliveries[i].dispatch)
      BY <1>0, <1>1, <2>1 DEF LedgerAccepted, MarkSubmitted, Queued, LedgerRecord
    <2>2. CASE ~Undelivered(deliveries[i].dispatch)
      BY <1>1, <2>2 DEF LedgerAccepted, Undelivered, Status, Queued
    <2> QED BY <2>1, <2>2
  <1>4. RowsAnnounced
    BY <1>2, <1>3 DEF RowsAnnounced
  <1>5. \A d \in Dispatches :
          \/ outbox'[d] = outbox[d]
          \/ /\ outbox[d].receipt = i /\ outbox'[d].receipt = i
             /\ outbox'[d].revision = outbox[d].revision /\ outbox'[d].delivered
    BY <1>0, <1>1 DEF OutboxAccepted, OutboxRecord
  <1>6. EntriesMove
    BY <1>0, <1>5 DEF EntriesMove, EntryMoves
  <1> QED BY <1>4, <1>6 DEF Announces

(* A step that settles no row has nothing to tell.                         *)
LEMMA SilenceAnnounces ==
  ASSUME UNCHANGED outbox,
         \A i \in RowIds : deliveries[i].state \notin Settled =>
           \/ deliveries'[i].state \notin Settled
           \/ deliveries[i].kind \in {"message", "cancel"}
           \/ /\ deliveries[i].kind = "dispatch"
              /\ ~Queued(ledger'[deliveries[i].dispatch])
  PROVE  Announces
  BY DEF Announces, RowsAnnounced, EntriesMove, EntryMoves

(* An attempt settles its own row, together with its report or dispatch.   *)
LEMMA AttemptAnnounces ==
  ASSUME Ordered, WritesSound, NEW i \in RowIds, Attempting(i), ~CrashBeforeWrite(i)
  PROVE  Announces
  <1>0. /\ deliveries \in Table /\ WriteIntent(i) \in Table
        /\ ledger \in [Dispatches -> LedgerRecord]
    BY RowType DEF Ordered, TypeOK, Table, WriteIntent
  <1>1. ASSUME UNCHANGED outbox, NEW t \in Table, t = deliveries \/ Marks(deliveries, t, i),
               NEW terminal \in {"retry", "manual"}, FailAttempt(t, i, terminal)
        PROVE  Announces
    <2>1. t[i].state = deliveries[i].state
          /\ \A j \in RowIds \ {i} : t[j].state = deliveries[j].state
      BY <1>1 DEF Marks, Changes
    <2>2. deliveries' = Failed(t, i, active[i].attempt, terminal)
      BY <1>1 DEF FailAttempt
    <2>3. deliveries'[i].state = deliveries[i].state \/ deliveries'[i].state \notin Settled
      BY <1>1, <2>1, <2>2 DEF Failed, StateAfterFailure, Table, DeliveryRecord, Settled
    <2>4. \A j \in RowIds \ {i} : deliveries'[j].state = deliveries[j].state
      BY <2>1, <2>2 DEF Failed, Table
    <2> QED BY <1>1, <2>3, <2>4, SilenceAnnounces
  <1>2. Marks(deliveries, WriteIntent(i), i)
    BY <1>0, RowTransactions DEF WriteIntent
  <1>3. CASE WriteRejected(i) \/ AttemptFails(i) \/ AttemptNeedsReview(i)
    BY <1>0, <1>1, <1>2, <1>3 DEF WriteRejected, AttemptFails, AttemptNeedsReview
  <1>4. CASE AttemptDropped(i)
    <2>1. /\ deliveries' = Failed(deliveries, i, active[i].attempt, "drop")
          /\ ledger' = LedgerAfterFailure(i) /\ UNCHANGED outbox
          /\ deliveries[i].kind \in {"dispatch", "message"}
      BY <1>4 DEF AttemptDropped, FailAttempt
    <2>2. \A j \in RowIds \ {i} : deliveries'[j].state = deliveries[j].state
      BY <1>0, <2>1 DEF Failed, Table
    <2>3. deliveries[i].kind = "dispatch" => ~Queued(ledger'[deliveries[i].dispatch])
      <3>1. deliveries[i].state # "absent" => deliveries[i].dispatch \in Dispatches
        BY DEF Ordered, InOrder, Addressed
      <3>2. active[i].phase = "claimed"
        BY <1>4 DEF AttemptDropped
      <3>3. deliveries[i].state # "absent"
        BY <3>2 DEF WritesSound, AttemptsSound, AttemptSound
      <3> QED BY <1>0, <2>1, <3>1, <3>3
              DEF LedgerAfterFailure, IsOpen, MarkDeliveryFailed, Queued, LedgerRecord
    <2> QED BY <2>1, <2>2, <2>3, SilenceAnnounces
  <1>5. CASE CompleteNative(i) \/ CompletePty(i)
    <2>1. /\ deliveries[i].state = "attempting" /\ PersistAccepted(i)
          /\ CompletePty(i) => Adapter[deliveries[i].recipient] = "claude"
      BY <1>5 DEF CompleteNative, CompletePty, Owned, OwnsAttempt
    <2>2. \/ Sets(deliveries, deliveries', i, "confirmed")
          \/ CompletePty(i) /\ Sets(deliveries, deliveries', i, "unknown")
      BY <1>0, <1>5, RowTransactions DEF CompleteNative, CompletePty, Submitted
    <2>3. Accepted(deliveries'[i])
      BY <2>1, <2>2 DEF Accepted, Settled, Sets, Changes
    <2>4. \A j \in RowIds \ {i} : deliveries'[j].state = deliveries[j].state
      BY <2>2 DEF Sets, Changes
    <2> QED BY <2>1, <2>3, <2>4, AcceptanceAnnounces
  <1>6. CASE Recheck(i) \/ HandledByUser(i)
    <2>1. deliveries[i].state \in {"pending", "unknown", "manual"} /\ PersistAccepted(i)
      BY <1>6 DEF Recheck, HandledByUser, CanResolve
    <2>2. \E s \in Settled : Sets(deliveries, deliveries', i, s)
      BY <1>0, <1>6, <2>1, RowTransactions DEF Recheck, HandledByUser, Confirm, Handled, Settled
    <2>3. Accepted(deliveries'[i])
          /\ \A j \in RowIds \ {i} : deliveries'[j].state = deliveries[j].state
      BY <2>2 DEF Accepted, Sets, Changes
    <2> QED BY <2>1, <2>3, AcceptanceAnnounces
  <1>7. CASE Deliver(i) \/ WriteInput(i) \/ PressEnter(i) \/ Journal(i) \/ ResendByUser(i)
    <2>1. UNCHANGED outbox
      BY <1>7 DEF Deliver, WriteInput, PressEnter, Journal, ResendByUser, persistent
    <2>2. /\ \A j \in RowIds \ {i} : deliveries'[j].state = deliveries[j].state
          /\ deliveries'[i].state \in {deliveries[i].state, "attempting", "pending"}
      <3>1. CASE Deliver(i) \/ ResendByUser(i)
        BY <1>0, <3>1, RowTransactions DEF Deliver, ResendByUser, Changes
      <3>2. CASE WriteInput(i) \/ PressEnter(i)
        BY <1>0, <1>2, <3>2, RowTransactions DEF WriteInput, PressEnter, Marks, Changes
      <3>3. CASE Journal(i)
        BY <3>3 DEF Journal, persistent
      <3> QED BY <1>7, <3>1, <3>2, <3>3
    <2> QED BY <2>1, <2>2, SilenceAnnounces DEF Settled
  <1> QED BY <1>3, <1>4, <1>5, <1>6, <1>7 DEF Attempting

(* A report settles the row of its dispatch and the messages about it.     *)
LEMMA ReportedOthers ==
  ASSUME NEW t \in Table, NEW d, NEW i \in RowIds, i # ledger[d].row
  PROVE  ReportedRows(t, d)[i] = t[i] \/ t[i].kind = "message"
  <1>1. ClosePending(t, d) \in Table
    BY TableType
  <1>2. ReportedRows(t, d)[i] = ClosePending(t, d)[i]
    BY <1>1 DEF ReportedRows, Confirm, Table
  <1> QED BY <1>2 DEF ClosePending

(* The report becomes row n, and the row of the report it replaces may be  *)
(* withdrawn.                                                              *)
QueuesReport(d, n) ==
  /\ deliveries[n].state = "absent" /\ n # ledger[d].row /\ n # outbox[d].receipt
  /\ deliveries'[n] = NewDelivery("report", d, Orchestrator)
  /\ outbox' = [outbox EXCEPT ![d] = [receipt |-> n, delivered |-> FALSE,
                                      revision |-> ledger[d].revision + 1]]
  /\ \A i \in RowIds \ {n} :
       \/ deliveries'[i] = deliveries[i]
       \/ i \in {ledger[d].row, outbox[d].receipt}
       \/ deliveries[i].kind = "message"

(* queueReport marks the entry delivered or gives it a new row.            *)
LEMMA QueuedReport ==
  ASSUME Ordered, WritesSound, EntriesSound, NEW d \in Dispatches, ReportQueued(d)
  PROVE  \E n \in RowIds : QueuesReport(d, n)
  <1> DEFINE previous == outbox[d].receipt
             kept == IF Replaces(d) THEN Supersede(deliveries, previous) ELSE deliveries
  <1>1. PICK n \in RowIds :
          /\ Fresh(n)
          /\ deliveries' = ReportedRows(Insert(kept, n, "report", d, Orchestrator), d)
          /\ outbox' = [outbox EXCEPT ![d] = [receipt |-> n, delivered |-> FALSE,
                                              revision |-> ledger[d].revision + 1]]
    BY DEF ReportQueued
  <1> DEFINE sent == Insert(kept, n, "report", d, Orchestrator)
  <1>2. kept \in Table /\ \A j \in RowIds : j # previous => kept[j] = deliveries[j]
    <2>1. deliveries \in Table
      BY DEF Ordered, TypeOK, Table
    <2> QED BY <2>1, RowType DEF Supersede, Table
  <1>3. sent \in Table /\ \A j \in RowIds \ {n} : sent[j] = kept[j]
    <2>1. "report" \in Kinds /\ Orchestrator \in Agents
      BY DeliveryAssumption DEF Kinds
    <2> QED BY <1>2, <2>1, InsertType, InsertedRow
  <1>4. /\ sent[n] = NewDelivery("report", d, Orchestrator) /\ sent[n].kind = "report"
    BY <1>2, InsertedRow
  <1>5. deliveries[n].state = "absent" /\ n # previous /\ n # ledger[d].row
    <2>1. deliveries[n].state = "absent" /\ n # 0
      BY <1>1 DEF Fresh, RowIds
    <2>2. /\ OutboxSound(deliveries, d, ledger[d], outbox[d])
          /\ LedgerSound(deliveries, d, ledger[d])
      BY DEF EntriesSound, WritesSound, DispatchesHaveRows
    <2>3. ledger[d].status # "none"
      BY DEF ReportQueued, CanReport, IsOpen
    <2> QED BY <2>1, <2>2, <2>3 DEF OutboxSound, LedgerSound
  <1> HIDE DEF sent, kept
  <1>6. deliveries'[n] = sent[n]
    BY <1>1, <1>3, <1>4, <1>5, ReportedOthers DEF sent, kept
  <1>7. \A i \in RowIds \ {n} :
          \/ deliveries'[i] = deliveries[i]
          \/ i \in {ledger[d].row, outbox[d].receipt}
          \/ deliveries[i].kind = "message"
    <2> SUFFICES ASSUME NEW i \in RowIds \ {n}, i # ledger[d].row, i # previous
                 PROVE  deliveries'[i] = deliveries[i] \/ deliveries[i].kind = "message"
      OBVIOUS
    <2>1. sent[i] = deliveries[i]
      BY <1>2, <1>3
    <2>2. deliveries' = ReportedRows(sent, d)
      BY <1>1 DEF sent, kept
    <2> QED BY <1>3, <2>1, <2>2, ReportedOthers
  <1> QED BY <1>1, <1>4, <1>5, <1>6, <1>7 DEF QueuesReport

(* Every operation on a dispatch announces the rows it settles.            *)
LEMMA DispatchAnnounces ==
  ASSUME Ordered, WritesSound, EntriesSound, NEW d \in Dispatches, Dispatching(d)
  PROVE  Announces
  <1>0. deliveries \in Table /\ ledger \in [Dispatches -> LedgerRecord]
        /\ outbox \in [Dispatches -> OutboxRecord]
    BY DEF Ordered, TypeOK, Table
  <1> DEFINE own == ledger[d].row
  <1>1. ledger[d].status # "none" =>
          /\ own \in RowIds /\ deliveries[own].kind = "dispatch"
          /\ deliveries[own].dispatch = d /\ deliveries[own].state # "absent"
    BY DEF WritesSound, DispatchesHaveRows, LedgerSound
  <1>2. ASSUME NEW n \in RowIds, Fresh(n), UNCHANGED outbox, NEW kind, NEW r,
               deliveries' = Insert(deliveries, n, kind, d, r)
        PROVE  Announces
    <2>1. /\ \A j \in RowIds \ {n} : deliveries'[j] = deliveries[j]
          /\ deliveries'[n].state = "pending"
      BY <1>0, <1>2, InsertedRow
    <2> QED BY <1>2, <2>1, SilenceAnnounces DEF Settled
  <1>3. CASE CreateDispatch(d) \/ (\E a \in Agents : PostMessage(d, a)) \/ Feedback(d)
    <2>1. CASE deliveries' = deliveries /\ UNCHANGED outbox
      BY <2>1, SilenceAnnounces
    <2> QED BY <1>2, <1>3, <2>1 DEF CreateDispatch, PostMessage, Feedback
  <1>4. CASE StartAwaited(d) \/ StartFailed(d)
    BY <1>4, SilenceAnnounces DEF StartAwaited, StartFailed, persistent
  <1>5. CASE Acknowledge(d)
    <2>1. /\ PersistAccepted(own) /\ deliveries' = Confirm(deliveries, own)
          /\ ledger[d].status # "none"
      BY <1>5 DEF Acknowledge
    <2>2. Accepted(deliveries'[own])
          /\ \A j \in RowIds \ {own} : deliveries'[j].state = deliveries[j].state
      BY <1>0, <1>1, <2>1 DEF Accepted, Confirm, Settled, Table, DeliveryRecord
    <2> QED BY <1>1, <2>1, <2>2, AcceptanceAnnounces
  <1>6. \A i \in RowIds : \/ ReportedRows(deliveries, d)[i] = deliveries[i]
                           \/ i = own
                           \/ deliveries[i].kind = "message"
    BY <1>0, ReportedOthers
  <1>7. CanReport(d) => ledger[d].status # "none"
    BY DEF CanReport, IsOpen
  <1>8. ledger' = MarkReported(d) => ~Queued(ledger'[d])
    BY <1>0 DEF MarkReported, LedgerRecord, Queued
  <1>9. CASE ReportQueued(d)
    <2>1. PICK n \in RowIds : QueuesReport(d, n)
      BY <1>9, QueuedReport
    <2>2. outbox'[d].receipt = n /\ deliveries'[n].state = "pending"
          /\ \A c \in Dispatches \ {d} : outbox'[c] = outbox[c]
      BY <1>0, <2>1 DEF QueuesReport, NewDelivery, NoDelivery
    <2>3. EntriesMove
      BY <1>9, <2>2 DEF EntriesMove, EntryMoves
    <2>4. ASSUME NEW i \in RowIds, deliveries[i].state \notin Settled,
                 deliveries'[i].state \in Settled
          PROVE  /\ deliveries[i].kind = "report" =>
                      \A c \in Dispatches : outbox'[c].receipt = i => outbox'[c].delivered
                 /\ deliveries[i].kind = "dispatch" => ~Queued(ledger'[deliveries[i].dispatch])
      <3>1. i # n
        BY <2>2, <2>4 DEF Settled
      <3>2. CASE i = own
        BY <1>1, <1>7, <1>8, <1>9, <3>2 DEF ReportQueued
      <3>3. CASE i = outbox[d].receipt
        <4>1. \A c \in Dispatches : OutboxSound(deliveries, c, ledger[c], outbox[c])
          BY DEF EntriesSound
        <4>2. i # 0
          BY DEF RowIds
        <4>3. deliveries[i].kind = "report" /\ deliveries[i].dispatch = d
          BY <3>3, <4>1, <4>2 DEF OutboxSound
        <4>4. \A c \in Dispatches \ {d} : outbox[c].receipt # i
          BY <4>1, <4>2, <4>3 DEF OutboxSound
        <4> QED BY <2>2, <3>1, <4>3, <4>4
      <3> QED BY <2>1, <2>4, <3>1, <3>2, <3>3 DEF QueuesReport
    <2> QED BY <2>3, <2>4 DEF Announces, RowsAnnounced
  <1>10. CASE ReportIgnored(d)
    <2>1. deliveries' = ReportedRows(deliveries, d) /\ UNCHANGED outbox
          /\ ledger' = MarkReported(d) /\ CanReport(d)
      BY <1>10 DEF ReportIgnored
    <2> QED BY <1>0, <1>1, <1>6, <1>7, <1>8, <2>1, SilenceAnnounces
  <1>11. CASE ConfirmCancellation(d)
    <2>1. \A i \in RowIds : deliveries'[i] = deliveries[i] \/ deliveries[i].kind = "cancel"
      BY <1>11 DEF ConfirmCancellation
    <2> QED BY <1>11, <2>1, SilenceAnnounces DEF ConfirmCancellation
  <1>12. CASE Cancel(d)
    <2> DEFINE closed == ClosePending(deliveries, d)
               withdrawn == IF closed[own].state = "pending"
                              THEN [closed EXCEPT ![own].state = "resolved"] ELSE closed
    <2>1. PICK n \in RowIds :
            Fresh(n) /\ deliveries' = Insert(withdrawn, n, "cancel", d, Assignee[d])
      BY <1>12 DEF Cancel, RequestCancellation
    <2>2. closed \in Table /\ \A i \in RowIds : closed[i] = deliveries[i]
                                                \/ deliveries[i].kind = "message"
      BY <1>0, TableType DEF ClosePending
    <2> HIDE DEF closed
    <2>3. withdrawn \in Table /\ \A i \in RowIds : i # own => withdrawn[i] = closed[i]
      BY <2>2, RowType DEF Handled, Table
    <2> HIDE DEF withdrawn
    <2>4. /\ deliveries'[n].state = "pending"
          /\ \A j \in RowIds \ {n} : deliveries'[j] = withdrawn[j]
      BY <2>1, <2>3, InsertedRow
    <2>5. ledger[d].status # "none" /\ ~Queued(ledger'[d]) /\ UNCHANGED outbox
      BY <1>0, <1>12 DEF Cancel, IsOpen, LedgerRecord, Queued
    <2>6. ASSUME NEW i \in RowIds
          PROVE  \/ deliveries'[i].state \notin Settled
                 \/ deliveries'[i] = deliveries[i]
                 \/ deliveries[i].kind = "message"
                 \/ i = own
      BY <2>2, <2>3, <2>4 DEF Settled
    <2> QED BY <1>1, <2>5, <2>6, SilenceAnnounces
  <1> QED BY <1>3, <1>4, <1>5, <1>9, <1>10, <1>11, <1>12 DEF Dispatching

(* A launch and the end of the process settle nothing.                     *)
LEMMA LaunchAnnounces ==
  ASSUME Ordered, NEW w \in Workers, Launching(w)
  PROVE  Announces
  <1>i. PICK i : i = starting[w].row
    OBVIOUS
  <1> USE <1>i
  <1>0. deliveries \in Table
    BY DEF Ordered, TypeOK, Table
  <1>1. UNCHANGED outbox
    BY DEF Launching, PrepareInitial, ClaimInitial, SpawnInitial, Launched, LaunchFails,
           persistent
  <1>2. CASE PrepareInitial(w) \/ SpawnInitial(w)
    BY <1>1, <1>2, SilenceAnnounces DEF PrepareInitial, SpawnInitial, persistent
  <1>3. CASE ClaimInitial(w)
    <2>1. deliveries' = SaveCheckpoint(Claim(deliveries, i), i)
      BY <1>3 DEF ClaimInitial
    <2>2. ASSUME NEW j \in RowIds
          PROVE  deliveries'[j].state = deliveries[j].state \/ deliveries'[j].state = "attempting"
      <3>1. CASE i \in RowIds
        <4>1. PICK t \in Table : t = Claim(deliveries, i)
          BY <1>0, <3>1, RowType
        <4>2. /\ Changes(deliveries, t, i) /\ t[i].state = "attempting"
              /\ Marks(t, deliveries', i)
          BY <1>0, <2>1, <3>1, <4>1, RowTransactions
        <4> QED BY <4>2 DEF Marks, Changes
      <3>2. CASE i \notin RowIds
        <4>1. DOMAIN deliveries = RowIds /\ Claim(deliveries, i) = deliveries
          BY <1>0, <3>2 DEF Table, Claim
        <4> QED BY <1>0, <2>1, <3>2, <4>1 DEF SaveCheckpoint, Table
      <3> QED BY <3>1, <3>2
    <2> QED BY <1>1, <2>2, SilenceAnnounces DEF Settled
  <1>4. CASE Launched(w)
    <2>1. deliveries' = AwaitingReceipt(deliveries, i)
      BY <1>4 DEF Launched
    <2>2. ASSUME NEW j \in RowIds
          PROVE  deliveries'[j].state = deliveries[j].state \/ deliveries'[j].state = "unknown"
      BY <1>0, <2>1 DEF AwaitingReceipt, Table, DeliveryRecord
    <2> QED BY <1>1, <2>2, SilenceAnnounces DEF Settled
  <1>5. CASE LaunchFails(w)
    <2>1. \/ deliveries' = deliveries
          \/ deliveries' = Failed(deliveries, i, starting[w].attempt, "retry")
      BY <1>5 DEF LaunchFails
    <2>2. ASSUME NEW j \in RowIds
          PROVE  \/ deliveries'[j].state = deliveries[j].state
                 \/ deliveries'[j].state \in {"unknown", "manual", "pending"}
      BY <1>0, <2>1 DEF Failed, StateAfterFailure, Table, DeliveryRecord
    <2> QED BY <1>1, <2>2, SilenceAnnounces DEF Settled
  <1> QED BY <1>2, <1>3, <1>4, <1>5 DEF Launching

(* A crash and a restart settle nothing.                                   *)
LEMMA CrashAnnounces ==
  ASSUME Ordered, Restart \/ \E i \in RowIds : CrashBeforeWrite(i)
  PROVE  Announces
  <1>1. PICK t \in Table :
          /\ Restarted(t)
          /\ t = deliveries \/ \E i \in RowIds : Marks(deliveries, t, i)
    <2>0. deliveries \in Table
      BY DEF Ordered, TypeOK, Table
    <2>1. ASSUME NEW i \in RowIds, CrashBeforeWrite(i)
          PROVE  /\ Restarted(WriteIntent(i)) /\ WriteIntent(i) \in Table
                 /\ Marks(deliveries, WriteIntent(i), i)
      BY <2>0, <2>1, RowType, RowTransactions DEF CrashBeforeWrite, WriteIntent
    <2> QED BY <2>0, <2>1 DEF Restart
  <1>2. ASSUME NEW j \in RowIds
        PROVE  \/ deliveries'[j].state = deliveries[j].state
               \/ deliveries'[j].state \in {"unknown", "pending"}
    <2>1. t[j].state = deliveries[j].state
      BY <1>1 DEF Marks, Changes
    <2> QED BY <1>1, <2>1 DEF Restarted, Recover, Table, DeliveryRecord
  <1>3. UNCHANGED outbox
    BY <1>1 DEF Restarted
  <1> QED BY <1>2, <1>3, SilenceAnnounces DEF Settled

(* So does every step.                                                     *)
LEMMA StepAnnounces ==
  ASSUME Ordered, WritesSound, EntriesSound, [Next]_vars
  PROVE  Announces
  <1>1. CASE UNCHANGED vars \/ Close \/ \E a \in Agents : RunOf(a)
    BY <1>1, SilenceAnnounces
       DEF vars, Close, RunOf, StartRun, ExitRun, ManualStop, persistent
  <1>2. ASSUME NEW i \in RowIds, Attempting(i)
        PROVE  Announces
    BY <1>2, AttemptAnnounces, CrashAnnounces
  <1> QED BY <1>1, <1>2, DispatchAnnounces, LaunchAnnounces, CrashAnnounces DEF Next

-----------------------------------------------------------------------------
(* The entries of the outbox keep their rows.                              *)
LEMMA EntriesStaySound ==
  ASSUME Ordered, WritesSound, EntriesSound, [Next]_vars
  PROVE  EntriesSound'
  <1> SUFFICES ASSUME NEW d \in Dispatches
               PROVE  OutboxSound(deliveries', d, ledger'[d], outbox'[d])
    BY DEF EntriesSound
  <1> DEFINE o == outbox[d]
  <1>0. /\ ledger \in [Dispatches -> LedgerRecord] /\ ledger[d].revision \in Nat
        /\ outbox \in [Dispatches -> OutboxRecord]
    BY DEF Ordered, TypeOK, LedgerRecord
  <1>1. OutboxSound(deliveries, d, ledger[d], o)
    BY DEF EntriesSound
  <1>2. RowsAnnounced /\ EntriesMove /\ RowsStay(deliveries, deliveries')
    BY StepAnnounces, StepStaysSound DEF Announces, StaysSound
  <1>3. CASE ReportQueued(d)
    <2>1. PICK n \in RowIds : QueuesReport(d, n)
      BY <1>3, QueuedReport
    <2>2. /\ outbox'[d].receipt = n /\ outbox'[d].revision = ledger[d].revision + 1
          /\ ~outbox'[d].delivered
      BY <1>0, <2>1 DEF QueuesReport
    <2>3. ledger'[d].revision = ledger[d].revision + 1 /\ ledger'[d].status = "reported"
      BY <1>0, <1>3 DEF ReportQueued, MarkReported, LedgerRecord
    <2>4. /\ deliveries'[n].kind = "report" /\ deliveries'[n].dispatch = d
          /\ deliveries'[n].recipient = Orchestrator /\ deliveries'[n].state = "pending"
      BY <2>1 DEF QueuesReport, NewDelivery, NoDelivery
    <2>5. n # 0
      BY DEF RowIds
    <2> QED BY <1>0, <2>2, <2>3, <2>4, <2>5 DEF OutboxSound, Settled
  <1>4. CASE ReportIgnored(d)
    <2>1. /\ ledger'[d].revision = ledger[d].revision + 1 /\ ledger'[d].status = "reported"
          /\ outbox' = outbox /\ o.receipt # 0 /\ ~Replaces(d)
      BY <1>0, <1>4 DEF ReportIgnored, MarkReported, LedgerRecord
    <2>2. Protocol[d] # 1
      BY <1>1, <2>1 DEF Replaces, OutboxSound
    <2>3. ~o.delivered => deliveries'[o.receipt].state \notin Settled
      BY <1>1, <1>2, <2>1 DEF OutboxSound, RowsAnnounced
    <2> QED BY <1>0, <1>1, <1>2, <2>1, <2>2, <2>3 DEF OutboxSound, RowsStay
  <1>5. CASE CreateDispatch(d)
    <2>1. /\ ledger[d].status = "none" /\ ledger'[d].revision = 0 /\ outbox' = outbox
      BY <1>0, <1>5 DEF CreateDispatch
    <2> QED BY <1>1, <2>1 DEF OutboxSound
  <1>6. CASE EntryMoves(o, outbox'[d]) /\ LedgerMoves(d, ledger[d], ledger'[d])
    <2>1. /\ ledger'[d].revision = ledger[d].revision
          /\ ledger[d].status # "none" => ledger'[d].status # "none"
      BY <1>6 DEF LedgerMoves
    <2>2. /\ outbox'[d].receipt = o.receipt /\ outbox'[d].revision = o.revision
          /\ ~outbox'[d].delivered => ~o.delivered
          /\ o.receipt = 0 => outbox'[d] = o
      BY <1>6 DEF EntryMoves
    <2>3. o.receipt # 0 /\ ~outbox'[d].delivered => deliveries'[o.receipt].state \notin Settled
      BY <1>1, <1>2, <2>2 DEF OutboxSound, RowsAnnounced
    <2> QED BY <1>1, <1>2, <2>1, <2>2, <2>3 DEF OutboxSound, RowsStay
  <1> QED BY <1>2, <1>3, <1>4, <1>5, <1>6, LedgerSteps DEF EntriesMove, WritesSound, Reports

(* A queued dispatch keeps a row that carries it.                          *)
LEMMA QueuedStayCarried ==
  ASSUME Ordered, WritesSound, EntriesSound, QueuedDispatchesAreCarried, [Next]_vars
  PROVE  QueuedDispatchesAreCarried'
  <1> SUFFICES ASSUME NEW d \in Dispatches, Queued(ledger'[d])
               PROVE  deliveries'[ledger'[d].row].state \notin Settled
    BY DEF QueuedDispatchesAreCarried, Status, Queued
  <1>0. ledger \in [Dispatches -> LedgerRecord]
    BY DEF Ordered, TypeOK
  <1>1. CASE CreateDispatch(d)
    <2>1. PICK n \in RowIds :
            /\ deliveries' = Insert(deliveries, n, "dispatch", d, Assignee[d])
            /\ ledger' = [ledger EXCEPT ![d] = [status |-> "queued", failed |-> FALSE,
                                                revision |-> 0, row |-> n]]
      BY <1>1 DEF CreateDispatch
    <2>2. ledger'[d].row = n
      BY <1>0, <2>1
    <2>3. deliveries'[n].state = "pending"
      BY <2>1, InsertedRow DEF Ordered, TypeOK, Table
    <2> QED BY <2>2, <2>3 DEF Settled
  <1>2. CASE Reports(d)
    BY <1>0, <1>2 DEF Reports, ReportQueued, ReportIgnored, MarkReported, LedgerRecord, Queued
  <1>3. CASE LedgerMoves(d, ledger[d], ledger'[d])
    <2>1. ledger'[d] = ledger[d]
      BY <1>3 DEF LedgerMoves, Queued
    <2>2. deliveries[ledger[d].row].state \notin Settled
      BY <2>1 DEF QueuedDispatchesAreCarried, Status, Queued
    <2>3. LedgerSound(deliveries, d, ledger[d]) /\ ledger[d].status # "none"
      BY <2>1 DEF WritesSound, DispatchesHaveRows, Queued
    <2>4. RowsAnnounced
      BY StepAnnounces DEF Announces
    <2> QED BY <2>1, <2>2, <2>3, <2>4 DEF LedgerSound, RowsAnnounced
  <1> QED BY <1>1, <1>2, <1>3, LedgerSteps DEF WritesSound

(* Only a caller that waits can fail a cancelled dispatch.                 *)
LEMMA CancelledStayUnfailed ==
  ASSUME Ordered, WritesSound, CancelledUnfailed, [Next]_vars
  PROVE  /\ CancelledUnfailed'
         /\ \A d \in Dispatches \ OrchestratorSends :
              ledger[d].status = "cancelled" => ledger'[d].status = "cancelled"
  <1>0. ledger \in [Dispatches -> LedgerRecord] /\ sending' \subseteq Dispatches
    BY OrderedIsInductive DEF Ordered, TypeOK
  <1>1. ASSUME NEW d \in Dispatches
        PROVE  /\ d \in sending' => d \in OrchestratorSends
               /\ d \notin OrchestratorSends =>
                    /\ ledger[d].status = "cancelled" => ledger'[d].status = "cancelled"
                    /\ ledger'[d].status = "cancelled" => ~ledger'[d].failed
    <2>1. /\ d \in sending => d \in OrchestratorSends
          /\ d \notin OrchestratorSends => d \notin sending
          /\ d \notin OrchestratorSends /\ ledger[d].status = "cancelled" => ~ledger[d].failed
      BY DEF CancelledUnfailed
    <2>2. CASE CreateDispatch(d)
      <3>1. ledger'[d].status = "queued" /\ ledger[d].status = "none"
        BY <1>0, <2>2 DEF CreateDispatch
      <3>2. d \in sending' => d \in sending \/ d \in OrchestratorSends
        BY <2>2 DEF CreateDispatch
      <3> QED BY <2>1, <3>1, <3>2
    <2>3. CASE Reports(d)
      <3>1. ledger'[d].status = "reported" /\ IsOpen(d) /\ sending' = sending
        BY <1>0, <2>3 DEF Reports, ReportQueued, ReportIgnored, MarkReported, LedgerRecord,
                          CanReport
      <3> QED BY <2>1, <3>1 DEF IsOpen
    <2>4. CASE LedgerMoves(d, ledger[d], ledger'[d]) /\ (d \in sending' => d \in sending)
      BY <2>1, <2>4 DEF LedgerMoves
    <2> QED BY <2>2, <2>3, <2>4, LedgerSteps DEF WritesSound
  <1> QED BY <1>0, <1>1 DEF CancelledUnfailed

(* The inductive invariant of this module.                                 *)
LEMMA ReportsSoundIsInductive ==
  ASSUME Ordered, WritesSound, ReportsSound, [Next]_vars
  PROVE  ReportsSound'
  BY EntriesStaySound, QueuedStayCarried, CancelledStayUnfailed DEF ReportsSound

(* It holds before anything is sent.                                       *)
LEMMA InitReportsSound ==
  ASSUME Init
  PROVE  ReportsSound
  BY DEF Init, ReportsSound, EntriesSound, OutboxSound, QueuedDispatchesAreCarried, Status,
         CancelledUnfailed

(* The inductive invariant of ledger and outbox holds in every behaviour.  *)
THEOREM AlwaysReportsSound == Spec => []ReportsSound
  <1>1. Init => ReportsSound
    BY InitReportsSound
  <1>2. Ordered /\ WritesSound /\ ReportsSound /\ [Next]_vars => ReportsSound'
    BY ReportsSoundIsInductive
  <1> QED BY <1>1, <1>2, AlwaysOrdered, AlwaysWritesSound, PTL DEF Spec

(* A queued dispatch is carried by a row that is not settled.              *)
THEOREM NoDispatchIsForgotten == Spec => []QueuedDispatchesAreCarried
  <1>1. ReportsSound => QueuedDispatchesAreCarried
    BY DEF ReportsSound
  <1> QED BY <1>1, AlwaysReportsSound, PTL

(* A report that is not delivered is carried by its own row.               *)
THEOREM NoReportIsForgotten == Spec => []UndeliveredReportsAreCarried
  <1>1. ReportsSound => UndeliveredReportsAreCarried
    BY DEF ReportsSound, EntriesSound, OutboxSound, UndeliveredReportsAreCarried
  <1> QED BY <1>1, AlwaysReportsSound, PTL

(* Where the first report is not kept for good, the outbox has the latest. *)
THEOREM LatestReportsAreForwarded ==
  ASSUME \A d \in Dispatches : Protocol[d] = 1
  PROVE  Spec => []LatestReportIsForwarded
  <1>1. ReportsSound => LatestReportIsForwarded
    BY DEF ReportsSound, EntriesSound, OutboxSound, LatestReportIsForwarded
  <1> QED BY <1>1, AlwaysReportsSound, PTL

(* A dispatch for which no caller can be waiting stays cancelled.          *)
CancelledStay(set) ==
  \A d \in set : ledger[d].status = "cancelled" => ledger'[d].status = "cancelled"

(* cancelTask is final for a dispatch that no team send waits for.         *)
THEOREM UnawaitedCancellationIsFinal ==
  Spec => [][CancelledStay(Dispatches \ OrchestratorSends)]_vars
  <1>1. Ordered /\ WritesSound /\ ReportsSound /\ [Next]_vars
          => [CancelledStay(Dispatches \ OrchestratorSends)]_vars
    BY CancelledStayUnfailed DEF ReportsSound, CancelledStay
  <1> QED BY <1>1, AlwaysOrdered, AlwaysWritesSound, AlwaysReportsSound, PTL DEF Spec

(* cancelTask is final for every other dispatch too, once the start of its *)
(* worker is no longer awaited and did not fail after the cancellation:    *)
(* neither an attempt that fails late nor an acceptance nor a person opens *)
(* it again.  Only the catch of dispatchTask (team-operations.ts:459) can, *)
(* which marks the dispatch failed after the await.                        *)
CancelledForGood(d) ==
  ledger[d].status = "cancelled" /\ ~ledger[d].failed /\ d \notin sending

THEOREM CancellationIsFinalAfterStart ==
  ASSUME NEW d \in Dispatches
  PROVE  Spec => [](CancelledForGood(d) => []CancelledForGood(d))
  <1>1. ASSUME Ordered, WritesSound, [Next]_vars, CancelledForGood(d)
        PROVE  CancelledForGood(d)'
    <2>0. ledger \in [Dispatches -> LedgerRecord]
      BY <1>1 DEF Ordered, TypeOK
    <2>1. ~CreateDispatch(d)
      BY <1>1 DEF CreateDispatch, CancelledForGood
    <2>2. ~Reports(d)
      BY <1>1 DEF Reports, ReportQueued, ReportIgnored, CanReport, IsOpen, CancelledForGood
    <2>3. LedgerMoves(d, ledger[d], ledger'[d]) /\ (d \in sending' => d \in sending)
      BY <1>1, <2>1, <2>2, LedgerSteps DEF WritesSound
    <2>4. ledger'[d] = ledger[d]
      BY <1>1, <2>3 DEF LedgerMoves, CancelledForGood
    <2> QED BY <1>1, <2>3, <2>4 DEF CancelledForGood
  <1> QED BY <1>1, AlwaysOrdered, AlwaysWritesSound, PTL DEF Spec

-----------------------------------------------------------------------------
(* An uncertain row stays uncertain until it is settled or a person asks   *)
(* for another copy.                                                       *)
LEMMA UncertainRowsStay ==
  ASSUME Ordered, WritesSound, [Next]_vars, NEW i \in RowIds, deliveries[i].state = "unknown",
         ~ResendByUser(i)
  PROVE  deliveries'[i].state \in Settled \cup {"unknown"}
  <1>0. deliveries \in Table
    BY DEF Ordered, TypeOK, Table
  <1>1. ASSUME OnlySettles
        PROVE  deliveries'[i].state \in Settled \cup {"unknown"}
    <2>1. SettlesRow(deliveries[i], deliveries'[i])
      BY <1>1 DEF OnlySettles, Settling, Settles, SendsRow
    <2> QED BY <2>1 DEF SettlesRow
  <1>2. ASSUME NEW j \in RowIds, Attempting(j), ~CrashBeforeWrite(j)
        PROVE  deliveries'[i].state \in Settled \cup {"unknown"}
    <2>1. CASE Recheck(j) \/ Journal(j) \/ HandledByUser(j)
      BY <1>1, <2>1, AnswersOnlySettle
    <2>2. WriteIntent(j) \in Table /\ Marks(deliveries, WriteIntent(j), j)
      BY <1>0, RowType, RowTransactions DEF WriteIntent
    <2>3. CASE WriteInput(j) \/ PressEnter(j)
      BY <1>0, <2>2, <2>3, RowTransactions DEF WriteInput, PressEnter, Marks, Changes
    <2>4. ASSUME NEW t \in Table, t[i].state = "unknown", NEW terminal, FailAttempt(t, j, terminal)
          PROVE  deliveries'[i].state \in Settled \cup {"unknown"}
      BY <2>4 DEF FailAttempt, Failed, OwnsAttempt, Table
    <2>5. CASE WriteRejected(j) \/ AttemptFails(j) \/ AttemptNeedsReview(j) \/ AttemptDropped(j)
      <3>1. WriteIntent(j)[i].state = "unknown"
        BY <2>2 DEF Marks, Changes
      <3> QED BY <1>0, <2>2, <2>4, <2>5, <3>1
              DEF WriteRejected, AttemptFails, AttemptNeedsReview, AttemptDropped
    <2>6. CASE Deliver(j) \/ CompleteNative(j) \/ CompletePty(j) \/ ResendByUser(j)
      <3>1. Changes(deliveries, deliveries', j)
        <4>1. CASE Deliver(j)
          BY <1>0, <4>1, RowTransactions DEF Deliver
        <4>2. CASE CompleteNative(j) \/ CompletePty(j)
          <5>1. PICK s : deliveries' = [deliveries EXCEPT ![j].state = s]
            BY <4>2 DEF CompleteNative, CompletePty, Submitted
          <5> QED BY <1>0, <5>1, RowTransactions DEF Sets
        <4>3. CASE ResendByUser(j)
          BY <1>0, <4>3, RowTransactions DEF ResendByUser
        <4> QED BY <2>6, <4>1, <4>2, <4>3
      <3>2. i # j
        BY <2>6 DEF Deliver, CanClaim, CompleteNative, CompletePty, Owned, OwnsAttempt
      <3> QED BY <3>1, <3>2 DEF Changes
    <2> QED BY <1>2, <2>1, <2>3, <2>5, <2>6 DEF Attempting
  <1>3. ASSUME NEW w \in Workers, Launching(w)
        PROVE  deliveries'[i].state \in Settled \cup {"unknown"}
    <2> DEFINE r == starting[w].row
    <2>1. \/ deliveries' = deliveries
          \/ CanClaim(deliveries, r) /\ deliveries' = SaveCheckpoint(Claim(deliveries, r), r)
          \/ deliveries' = AwaitingReceipt(deliveries, r)
          \/ deliveries' = Failed(deliveries, r, starting[w].attempt, "retry")
      BY <1>3 DEF Launching, PrepareInitial, ClaimInitial, SpawnInitial, Launched, LaunchFails,
                  persistent
    <2> HIDE DEF r
    <2> QED BY <1>0, <2>1 DEF CanClaim, SaveCheckpoint, Claim, AwaitingReceipt, Failed,
                              OwnsAttempt, Table, DeliveryRecord
  <1>4. CASE Restart \/ \E j \in RowIds : CrashBeforeWrite(j)
    <2>1. PICK t \in Table : Restarted(t) /\ t[i].state = "unknown"
      <3>1. ASSUME NEW j \in RowIds, CrashBeforeWrite(j)
            PROVE  /\ Restarted(WriteIntent(j)) /\ WriteIntent(j) \in Table
                   /\ WriteIntent(j)[i].state = "unknown"
        <4>1. WriteIntent(j) \in Table /\ Marks(deliveries, WriteIntent(j), j)
          BY <1>0, RowType, RowTransactions DEF WriteIntent
        <4> QED BY <3>1, <4>1 DEF CrashBeforeWrite, Marks, Changes
      <3> QED BY <1>0, <1>4, <3>1 DEF Restart
    <2> QED BY <2>1 DEF Restarted, Recover
  <1>5. CASE UNCHANGED vars \/ Close \/ \E a \in Agents : RunOf(a)
    BY <1>1, <1>5, QuietOnlySettles
  <1>6. ASSUME NEW d \in Dispatches, Dispatching(d)
        PROVE  deliveries'[i].state \in Settled \cup {"unknown"}
    BY <1>1, <1>6, DispatchOnlySettles
  <1> QED BY <1>2, <1>3, <1>4, <1>5, <1>6 DEF Next

(* What a delivered report says of its row.                                *)
ReceivedSound ==
  \A d \in Dispatches : outbox[d].delivered => Accepted(deliveries[outbox[d].receipt])

(* A report counts as delivered only once its row was accepted.            *)
LEMMA ReceivedIsInductive ==
  ASSUME Adapter[Orchestrator] # "claude" \/ MaxResends = 0,
         Ordered, WritesSound, EntriesSound, ReceivedSound, [Next]_vars
  PROVE  ReceivedSound'
  <1> SUFFICES ASSUME NEW d \in Dispatches, outbox'[d].delivered
               PROVE  Accepted(deliveries'[outbox'[d].receipt])
    BY DEF ReceivedSound, Accepted
  <1> DEFINE i == outbox[d].receipt
  <1>0. outbox \in [Dispatches -> OutboxRecord] /\ deliveries \in Table /\ deliveries' \in Table
        /\ resends \in Nat
    BY OrderedIsInductive DEF Ordered, TypeOK, Table
  <1>1. RowsStay(deliveries, deliveries') /\ EntriesMove
    BY StepAnnounces, StepStaysSound DEF Announces, StaysSound
  <1>2. CASE ReportQueued(d)
    <2>1. PICK n \in RowIds : QueuesReport(d, n)
      BY <1>2, QueuedReport
    <2> QED BY <1>0, <2>1 DEF QueuesReport
  <1>3. CASE outbox'[d] = outbox[d]
    <2>1. /\ outbox[d].delivered /\ Accepted(deliveries[i])
          /\ OutboxSound(deliveries, d, ledger[d], outbox[d])
      BY <1>3 DEF ReceivedSound, EntriesSound
    <2>2. /\ i \in RowIds /\ deliveries[i].state # "absent"
          /\ deliveries[i].recipient = Orchestrator
      BY <2>1 DEF OutboxSound
    <2>3. deliveries'[i].recipient = Orchestrator
      BY <1>1, <2>2 DEF RowsStay
    <2>4. CASE deliveries[i].state \in Settled
      <3>1. StoreStep(deliveries, deliveries')
        BY EveryStepIsGood DEF GoodStep
      <3> QED BY <1>0, <1>3, <2>2, <2>4, <3>1, StoreStepKeepsRows DEF Accepted
    <2>5. CASE deliveries[i].state \notin Settled
      <3>1. deliveries[i].state = "unknown" /\ Adapter[Orchestrator] = "claude"
        BY <2>1, <2>2, <2>5 DEF Accepted
      <3>2. ~ResendByUser(i)
        BY <1>0, <3>1 DEF ResendByUser
      <3> HIDE DEF i
      <3>3. deliveries'[i].state \in Settled \cup {"unknown"}
        BY <2>2, <3>1, <3>2, UncertainRowsStay
      <3> QED BY <1>3, <2>3, <3>1, <3>3 DEF Accepted, i
    <2> QED BY <2>4, <2>5
  <1>4. CASE ~ReportQueued(d) /\ outbox'[d] # outbox[d]
    BY <1>1, <1>4 DEF EntriesMove, EntryMoves
  <1> QED BY <1>1, <1>2, <1>3, <1>4 DEF EntriesMove

(* A report is marked delivered only on account of its own row, provided   *)
(* that no row is sent again whose terminal gives no receipt.              *)
THEOREM DeliveredMeansReceived ==
  ASSUME Adapter[Orchestrator] # "claude" \/ MaxResends = 0
  PROVE  Spec => []DeliveredReportsWereReceived
  <1>1. Init => ReceivedSound
    BY DEF Init, ReceivedSound
  <1>2. Ordered /\ WritesSound /\ ReportsSound /\ ReceivedSound /\ [Next]_vars => ReceivedSound'
    BY ReceivedIsInductive DEF ReportsSound
  <1>3. ReceivedSound => DeliveredReportsWereReceived
    BY DEF ReceivedSound, Accepted, DeliveredReportsWereReceived
  <1> QED BY <1>1, <1>2, <1>3, AlwaysOrdered, AlwaysWritesSound, AlwaysReportsSound, PTL DEF Spec
=============================================================================
