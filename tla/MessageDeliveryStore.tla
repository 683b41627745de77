------------------------ MODULE MessageDeliveryStore ------------------------
(***************************************************************************)
(* The table message_deliveries and the transactions that                  *)
(* message-delivery-store.ts, report-outbox-store.ts and                   *)
(* dispatch-message-store.ts run on it.                                    *)
(*                                                                         *)
(* A table is a function t from row ids (SQLite's rowid order) to rows; a  *)
(* row whose state is "absent" has not been inserted yet.  Every           *)
(* transaction is an operator from a table to a table, so that a caller    *)
(* can compose the ones that the code runs inside one db.transaction.      *)
(*                                                                         *)
(* Left out: timestamps, the reason texts, the event log and the columns   *)
(* evidence, run_id and session_id, which decide nothing.  A retry         *)
(* deadline (next_attempt_at) only delays a claim, and a claim may happen  *)
(* arbitrarily late here, so it needs no field.                            *)
(***************************************************************************)
EXTENDS Naturals

CONSTANTS
  Dispatches,   \* ids of the dispatches that may be created
  Agents,       \* recipients: the workers and the orchestrator
  None,         \* the dispatch and recipient of a row not inserted yet
  MaxRows,      \* bound: number of rows ever inserted
  MaxAttempts   \* unwritten attempts before manual review; 5 in the code

ASSUME StoreAssumption ==
  /\ MaxRows \in Nat
  /\ MaxAttempts \in Nat \ {0}
  /\ None \notin Dispatches \cup Agents

RowIds == 1..MaxRows

Kinds == {"dispatch", "report", "cancel", "message"}
States == {"pending", "attempting", "unknown", "manual", "confirmed", "resolved"}

(* A row that holds its recipient's composer, and one that is finished.    *)
Fencing == {"attempting", "unknown", "manual"}
Settled == {"confirmed", "resolved"}

DeliveryRecord ==
  [kind: Kinds, dispatch: Dispatches \cup {None}, recipient: Agents \cup {None},
   state: States \cup {"absent"}, attempt: Nat,
   write_started: BOOLEAN,
   checkpoint: BOOLEAN]    \* whether a checkpoint is stored

NoDelivery ==
  [kind |-> "dispatch", dispatch |-> None, recipient |-> None, state |-> "absent",
   attempt |-> 0, write_started |-> FALSE, checkpoint |-> FALSE]

-----------------------------------------------------------------------------
(* Rows are inserted by the triggers on dispatches and report_outbox, by   *)
(* requestCancellation and by messages.create, always as 'pending'.        *)

(* Mutant: the state name of the dispatches table. *)
NewDeliveryQueued(kind, d, r) ==
  [NoDelivery EXCEPT !.kind = kind, !.dispatch = d, !.recipient = r,
                     !.state = "queued"]

NewDelivery(kind, d, r) ==
  [NoDelivery EXCEPT !.kind = kind, !.dispatch = d, !.recipient = r,
                     !.state = "pending"]

Insert(t, i, kind, d, r) == [t EXCEPT ![i] = NewDelivery(kind, d, r)]

(* Mutants of unblockedRecipient: an uncertain row does not block, order   *)
(* does not matter, any other pending row blocks.                          *)
UnblockedByUncertain(t, i) ==
  \A j \in RowIds \ {i} :
    t[j].recipient = t[i].recipient =>
      /\ t[j].state \notin {"attempting", "manual"}
      /\ ~(t[j].state = "pending" /\ j < i)

UnblockedInAnyOrder(t, i) ==
  \A j \in RowIds \ {i} :
    t[j].recipient = t[i].recipient => t[j].state \notin Fencing

UnblockedWhenAlone(t, i) ==
  \A j \in RowIds \ {i} :
    t[j].recipient = t[i].recipient => t[j].state \notin Fencing \cup {"pending"}

(* unblockedRecipient: no other row of the recipient is in flight,         *)
(* uncertain or waiting for review, and no earlier row is pending.         *)
Unblocked(t, i) ==
  \A j \in RowIds \ {i} :
    t[j].recipient = t[i].recipient =>
      /\ t[j].state \notin Fencing
      /\ ~(t[j].state = "pending" /\ j < i)

CanClaim(t, i) == t[i].state = "pending" /\ Unblocked(t, i)

Claim(t, i) == [t EXCEPT ![i].state = "attempting", ![i].attempt = @ + 1]

(* requireAttempt: throws unless the caller still owns the row.            *)
OwnsAttempt(t, i, attempt) == t[i].state = "attempting" /\ t[i].attempt = attempt

BeforeWrite(t, i) == [t EXCEPT ![i].write_started = TRUE]

SaveCheckpoint(t, i) ==
  [t EXCEPT ![i].checkpoint = TRUE, ![i].write_started = TRUE]

(* Mutant: the launch returns after the worker has already acknowledged.   *)
AwaitingReceiptAlways(t, i) == [t EXCEPT ![i].state = "unknown"]

AwaitingReceipt(t, i) ==
  IF t[i].state \in Settled
    THEN t
    ELSE [t EXCEPT ![i].state = "unknown"]

Submitted(t, i, native) ==
  [t EXCEPT ![i].state = IF native THEN "confirmed" ELSE "unknown"]

(* confirm is a no-op on an absent or a settled row. *)
Confirm(t, i) ==
  IF t[i].state \in Settled \cup {"absent"}
    THEN t
    ELSE [t EXCEPT ![i].state = "confirmed"]

(* Mutant: a retry that forgets that input may have been written. *)
StateAfterFailureRetryingWrites(row, terminal) ==
  IF terminal = "manual" THEN "manual"
  ELSE IF terminal = "drop" THEN "resolved"
  ELSE IF row.attempt >= MaxAttempts THEN "manual"
  ELSE "pending"

(* failed: once input may have been written the outcome is uncertain,      *)
(* whatever the error; before that, the error and the attempt number       *)
(* decide.  A superseded or settled attempt changes nothing.               *)
StateAfterFailure(row, terminal) ==
  IF row.write_started THEN "unknown"
  ELSE IF terminal = "manual" THEN "manual"
  ELSE IF terminal = "drop" THEN "resolved"
  ELSE IF row.attempt >= MaxAttempts THEN "manual"
  ELSE "pending"

Failed(t, i, attempt, terminal) ==
  IF OwnsAttempt(t, i, attempt)
    THEN [t EXCEPT ![i].state = StateAfterFailure(t[i], terminal)]
    ELSE t

(* resolve: a person settles the row, or asks for one more copy of it. *)
CanResolve(t, i) == t[i].state \in {"pending", "unknown", "manual"}

Handled(t, i) == [t EXCEPT ![i].state = "resolved"]

(* Mutant: the resend keeps the checkpoint of the copy it replaces. *)
ResendKeepingCheckpoint(t, i) ==
  [t EXCEPT ![i].state = "pending", ![i].write_started = FALSE]

Resend(t, i) ==
  [t EXCEPT ![i].state = "pending", ![i].checkpoint = FALSE, ![i].write_started = FALSE]

(* requestCancellation: the dispatch's own row is withdrawn only while it  *)
(* is pending; the notice of the cancellation becomes row n.               *)
RequestCancellation(t, own, n, d, r) ==
  Insert(IF t[own].state = "pending" THEN [t EXCEPT ![own].state = "resolved"] ELSE t,
         n, "cancel", d, r)

(* enqueue, replacing the previous report of the dispatch: its row is      *)
(* withdrawn unless input may already have been written.                   *)
Supersede(t, i) ==
  IF ~t[i].write_started /\ t[i].state \in {"pending", "attempting"}
    THEN [t EXCEPT ![i].state = "resolved"]
    ELSE t

(* closePending: messages of a closed dispatch are not delivered any more. *)
ClosePending(t, d) ==
  [i \in RowIds |->
     IF t[i].dispatch = d /\ t[i].kind = "message" /\ t[i].state = "pending"
       THEN [t[i] EXCEPT !.state = "resolved"]
       ELSE t[i]]

(* Mutant: nothing is recovered. *)
RecoverNothing(t) == t

(* Mutant: recovery that treats every interrupted attempt as unwritten. *)
RecoverByLease(t) ==
  [i \in RowIds |->
     IF t[i].state = "attempting" THEN [t[i] EXCEPT !.state = "pending"] ELSE t[i]]

(* recover, run before anything else when the runtime starts. *)
Recover(t) ==
  [i \in RowIds |->
     IF t[i].state = "attempting"
       THEN [t[i] EXCEPT !.state = IF t[i].write_started
                                     THEN "unknown" ELSE "pending"]
       ELSE t[i]]

=============================================================================
