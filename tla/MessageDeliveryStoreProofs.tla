---------------------- MODULE MessageDeliveryStoreProofs ----------------------
(***************************************************************************)
(* Facts about the transactions of MessageDeliveryStore: each keeps the    *)
(* type of the table, and each either eases a lane, sends a row or claims  *)
(* the head of a lane, which keeps every lane in order.                    *)
(***************************************************************************)
EXTENDS MessageDeliveryStore, TLAPS

Table == [RowIds -> DeliveryRecord]

(* Rows are inserted in the order of their ids. *)
NoGaps(t) ==
  \A i, j \in RowIds : i < j /\ t[i].state = "absent" => t[j].state = "absent"

(* A row that holds its recipient's composer holds it alone, and every     *)
(* earlier row of the lane is settled.                                     *)
LanesInOrder(t) ==
  \A i, j \in RowIds :
    (i # j /\ t[i].recipient = t[j].recipient /\ t[i].state \in Fencing)
      => /\ t[j].state \notin Fencing
         /\ j < i => t[j].state \in Settled

(* A row that was inserted has a dispatch and a recipient.                 *)
Addressed(t) ==
  \A i \in RowIds :
    t[i].state # "absent" => t[i].dispatch \in Dispatches /\ t[i].recipient \in Agents

(* No row takes a composer: a row stays where it is, is settled, or goes   *)
(* on holding or back to the queue.                                        *)
Eases(t, u) ==
  \A i \in RowIds :
    /\ u[i].recipient = t[i].recipient /\ u[i].dispatch = t[i].dispatch
    /\ \/ u[i].state = t[i].state
       \/ t[i].state \notin Settled \cup {"absent"} /\ u[i].state \in Settled
       \/ t[i].state \in Fencing /\ u[i].state \in Fencing \cup {"pending"}

(* The next row is sent; the head of a lane takes the composer.            *)
Sends(t, u) ==
  \E n \in RowIds, kind \in Kinds, d \in Dispatches, r \in Agents :
    /\ t[n].state = "absent" /\ \A m \in 1..(n - 1) : t[m].state # "absent"
    /\ u = Insert(t, n, kind, d, r)

Claims(t, u) == \E i \in RowIds : CanClaim(t, i) /\ u = Claim(t, i)

(* What one step of the system does to the table: at most one row is sent  *)
(* or claimed, and before and after it lanes are eased.                    *)
StoreStep(t, u) ==
  \E s, v \in Table : /\ Eases(t, s)
                      /\ v = s \/ Sends(s, v) \/ Claims(s, v)
                      /\ Eases(v, u)

InOrder(t) == NoGaps(t) /\ Addressed(t) /\ LanesInOrder(t)

-----------------------------------------------------------------------------
(* The next row can be inserted with any kind, dispatch and recipient.     *)
LEMMA InsertType ==
  ASSUME NEW t \in Table, NEW i \in RowIds, NEW kind \in Kinds,
         NEW d \in Dispatches, NEW r \in Agents
  PROVE  Insert(t, i, kind, d, r) \in Table
  BY DEF Table, Insert, NewDelivery, NoDelivery, DeliveryRecord, States

(* A row whose state, checkpoint or write marker is set keeps the type.    *)
LEMMA FieldType ==
  ASSUME NEW t \in Table, NEW i
  PROVE  /\ \A s \in States : [t EXCEPT ![i].state = s] \in Table
         /\ \A b \in BOOLEAN : /\ [t EXCEPT ![i].checkpoint = b] \in Table
                              /\ [t EXCEPT ![i].write_started = b] \in Table
  <1>1. \A r \in DeliveryRecord :
          /\ \A s \in States : [r EXCEPT !.state = s] \in DeliveryRecord
          /\ \A b \in BOOLEAN : /\ [r EXCEPT !.checkpoint = b] \in DeliveryRecord
                               /\ [r EXCEPT !.write_started = b] \in DeliveryRecord
    BY DEF DeliveryRecord
  <1>2. \A r \in DeliveryRecord : [t EXCEPT ![i] = r] \in Table
    BY DEF Table
  <1>3. CASE i \in RowIds
    <2>1. t[i] \in DeliveryRecord
      BY <1>3 DEF Table
    <2> QED BY <1>1, <1>2, <2>1
  <1>4. CASE i \notin RowIds
    <2>1. \A r : [t EXCEPT ![i] = r] = t
      BY <1>4 DEF Table
    <2> QED BY <2>1
  <1> QED BY <1>3, <1>4

(* The transactions of one row keep the type of the table.                 *)
LEMMA RowType ==
  ASSUME NEW t \in Table, NEW i
  PROVE  /\ i \in RowIds => Claim(t, i) \in Table
         /\ BeforeWrite(t, i) \in Table
         /\ SaveCheckpoint(t, i) \in Table
         /\ AwaitingReceipt(t, i) \in Table
         /\ \A native \in BOOLEAN : Submitted(t, i, native) \in Table
         /\ Confirm(t, i) \in Table
         /\ \A attempt, terminal : Failed(t, i, attempt, terminal) \in Table
         /\ Handled(t, i) \in Table
         /\ i \in RowIds => Resend(t, i) \in Table
         /\ Supersede(t, i) \in Table
  <1>s. \A u \in Table, s \in States : [u EXCEPT ![i].state = s] \in Table
    BY FieldType
  <1>b. \A u \in Table, b \in BOOLEAN : /\ [u EXCEPT ![i].checkpoint = b] \in Table
                                       /\ [u EXCEPT ![i].write_started = b] \in Table
    BY FieldType
  <1>1. ASSUME i \in RowIds PROVE Claim(t, i) \in Table
    <2> USE <1>1
    <2>1. t[i] \in DeliveryRecord /\ t[i].attempt + 1 \in Nat
      BY DEF Table, DeliveryRecord
    <2>2. [t[i] EXCEPT !.state = "attempting", !.attempt = t[i].attempt + 1] \in DeliveryRecord
      <3>1. ASSUME NEW r \in DeliveryRecord, NEW n \in Nat
            PROVE  [r EXCEPT !.state = "attempting", !.attempt = n] \in DeliveryRecord
        BY DEF DeliveryRecord, States
      <3> QED BY <2>1, <3>1
    <2>3. \A r \in DeliveryRecord : [t EXCEPT ![i] = r] \in Table
      BY DEF Table
    <2> QED BY <2>2, <2>3 DEF Claim
  <1>2. BeforeWrite(t, i) \in Table /\ SaveCheckpoint(t, i) \in Table
    <2>1. SaveCheckpoint(t, i) = BeforeWrite([t EXCEPT ![i].checkpoint = TRUE], i)
      BY DEF BeforeWrite, SaveCheckpoint
    <2> QED BY <1>b, <2>1 DEF BeforeWrite
  <1>3. AwaitingReceipt(t, i) \in Table /\ Confirm(t, i) \in Table
    BY <1>s DEF AwaitingReceipt, Confirm, States
  <1>4. \A native \in BOOLEAN : Submitted(t, i, native) \in Table
    BY <1>s DEF Submitted, States
  <1>5. ASSUME NEW attempt, NEW terminal PROVE Failed(t, i, attempt, terminal) \in Table
    <2>1. StateAfterFailure(t[i], terminal) \in States
      BY DEF StateAfterFailure, States
    <2> QED BY <1>s, <2>1 DEF Failed
  <1>6. Handled(t, i) \in Table /\ Supersede(t, i) \in Table
    BY <1>s DEF Handled, Supersede, States
  <1>7. ASSUME i \in RowIds PROVE Resend(t, i) \in Table
    <2>1. Resend(t, i) = [[[t EXCEPT ![i].state = "pending"]
                             EXCEPT ![i].checkpoint = FALSE]
                             EXCEPT ![i].write_started = FALSE]
      BY DEF Resend
    <2> QED BY <1>s, <1>b, <2>1 DEF States
  <1> QED BY <1>1, <1>2, <1>3, <1>4, <1>5, <1>6, <1>7

(* So do the transactions of many rows.                                    *)
LEMMA TableType ==
  ASSUME NEW t \in Table
  PROVE  /\ Recover(t) \in Table
         /\ \A d : ClosePending(t, d) \in Table
  BY DEF Table, Recover, ClosePending, DeliveryRecord, States

-----------------------------------------------------------------------------
(* Every transaction but an insertion and a claim eases the lanes.         *)
LEMMA RowEases ==
  ASSUME NEW t \in Table, NEW i
  PROVE  /\ Eases(t, BeforeWrite(t, i))
         /\ Eases(t, SaveCheckpoint(t, i))
         /\ Eases(t, Confirm(t, i))
         /\ Eases(t, Supersede(t, i))
         /\ \A attempt, terminal : Eases(t, Failed(t, i, attempt, terminal))
         /\ t[i].state = "attempting" =>
              \A native \in BOOLEAN : Eases(t, Submitted(t, i, native))
         /\ t[i].state \in Settled \cup {"attempting"} => Eases(t, AwaitingReceipt(t, i))
         /\ CanResolve(t, i) => Eases(t, Handled(t, i)) /\ Eases(t, Resend(t, i))
  <1> USE DEF Table, DeliveryRecord, States, Eases, Settled, Fencing
  <1>1. Eases(t, BeforeWrite(t, i)) /\ Eases(t, SaveCheckpoint(t, i))
    BY DEF BeforeWrite, SaveCheckpoint
  <1>2. Eases(t, Confirm(t, i)) /\ Eases(t, Supersede(t, i))
    BY DEF Confirm, Supersede
  <1>3. ASSUME NEW attempt, NEW terminal PROVE Eases(t, Failed(t, i, attempt, terminal))
    BY DEF Failed, StateAfterFailure, OwnsAttempt
  <1>4. ASSUME t[i].state = "attempting", NEW native \in BOOLEAN
        PROVE  Eases(t, Submitted(t, i, native))
    BY <1>4 DEF Submitted
  <1>5. ASSUME t[i].state \in Settled \cup {"attempting"}
        PROVE  Eases(t, AwaitingReceipt(t, i))
    BY <1>5 DEF AwaitingReceipt
  <1>6. ASSUME CanResolve(t, i)
        PROVE  Eases(t, Handled(t, i)) /\ Eases(t, Resend(t, i))
    BY <1>6 DEF Handled, Resend, CanResolve
  <1> QED BY <1>1, <1>2, <1>3, <1>4, <1>5, <1>6

LEMMA TableEases ==
  ASSUME NEW t \in Table
  PROVE  /\ Eases(t, t)
         /\ Eases(t, Recover(t))
         /\ \A d : Eases(t, ClosePending(t, d))
  BY DEF Table, DeliveryRecord, Eases, Recover, ClosePending, Settled, Fencing

LEMMA EasesTransitive ==
  ASSUME NEW t \in Table, NEW u \in Table, NEW v \in Table,
         Eases(t, u), Eases(u, v)
  PROVE  Eases(t, v)
  BY DEF Eases, Table, DeliveryRecord, States, Settled, Fencing

-----------------------------------------------------------------------------
(* What keeps every lane in order.                                         *)
LEMMA EasingKeepsLanes ==
  ASSUME NEW t \in Table, NEW u \in Table, Eases(t, u), InOrder(t)
  PROVE  InOrder(u)
  BY DEF InOrder, Addressed, Eases, NoGaps, LanesInOrder, Table, DeliveryRecord, Settled, Fencing

LEMMA ClaimKeepsLanes ==
  ASSUME NEW t \in Table, NEW u \in Table, Claims(t, u), InOrder(t)
  PROVE  InOrder(u)
  <1>1. PICK i \in RowIds : CanClaim(t, i) /\ u = Claim(t, i)
    BY DEF Claims
  <1>2. u[i].state = "attempting" /\ t[i].state = "pending"
    BY <1>1 DEF Claim, CanClaim, Table, DeliveryRecord
  <1>3. \A j \in RowIds : /\ u[j].recipient = t[j].recipient
                          /\ u[j].dispatch = t[j].dispatch
                          /\ j # i => u[j] = t[j]
    BY <1>1 DEF Claim, Table, DeliveryRecord
  <1>4. \A j \in RowIds \ {i} : t[j].recipient = t[i].recipient =>
          /\ t[j].state \notin Fencing
          /\ j < i => t[j].state \in Settled
    BY <1>1 DEF CanClaim, Unblocked, InOrder, NoGaps, Table, DeliveryRecord, States, Fencing,
                Settled, RowIds
  <1>5. NoGaps(u)
    <2>1. \A j \in RowIds : u[j].state = "absent" <=> t[j].state = "absent"
      BY <1>2, <1>3
    <2> QED BY <2>1 DEF InOrder, NoGaps
  <1>6. Addressed(u)
    BY <1>2, <1>3 DEF InOrder, Addressed
  <1>7. LanesInOrder(u)
    <2>1. \A j \in RowIds \ {i} : u[j].state = t[j].state
      BY <1>3
    <2> QED BY <1>2, <1>3, <1>4, <2>1 DEF InOrder, LanesInOrder, RowIds
  <1> QED BY <1>5, <1>6, <1>7 DEF InOrder

LEMMA SendKeepsLanes ==
  ASSUME NEW t \in Table, NEW u \in Table, Sends(t, u), InOrder(t)
  PROVE  InOrder(u)
  <1>1. PICK n \in RowIds, kind \in Kinds, d \in Dispatches, r \in Agents :
          /\ t[n].state = "absent" /\ \A m \in 1..(n - 1) : t[m].state # "absent"
          /\ u = Insert(t, n, kind, d, r)
    BY DEF Sends
  <1>2. /\ u[n].state = "pending" /\ u[n].dispatch = d /\ u[n].recipient = r
        /\ \A j \in RowIds \ {n} : u[j] = t[j]
    BY <1>1 DEF Insert, NewDelivery, NoDelivery, Table, DeliveryRecord
  <1>3. \A j \in RowIds : n < j => t[j].state = "absent"
    BY <1>1 DEF InOrder, NoGaps
  <1>4. \A j \in RowIds : j < n => t[j].state # "absent"
    BY <1>1 DEF RowIds
  <1>5. NoGaps(u) /\ Addressed(u)
    BY <1>2, <1>3, <1>4 DEF InOrder, NoGaps, Addressed, RowIds
  <1>6. LanesInOrder(u)
    BY <1>2, <1>3 DEF InOrder, LanesInOrder, RowIds, Fencing
  <1> QED BY <1>5, <1>6 DEF InOrder

(* The forms that a step of the system takes.                              *)
LEMMA StoreStepForms ==
  ASSUME NEW t \in Table, NEW u \in Table
  PROVE  /\ Eases(t, u) => StoreStep(t, u)
         /\ Sends(t, u) => StoreStep(t, u)
         /\ \A v \in Table : Sends(t, v) /\ Eases(v, u) => StoreStep(t, u)
         /\ \A s \in Table : Eases(t, s) /\ Sends(s, u) => StoreStep(t, u)
         /\ \A s, v \in Table : Eases(t, s) /\ Sends(s, v) /\ Eases(v, u) => StoreStep(t, u)
         /\ Claims(t, u) => StoreStep(t, u)
         /\ \A v \in Table : Claims(t, v) /\ Eases(v, u) => StoreStep(t, u)
  BY TableEases DEF StoreStep

(* Every step of the system keeps every lane in order.                     *)
LEMMA StoreStepKeepsLanes ==
  ASSUME NEW t \in Table, NEW u \in Table, StoreStep(t, u), InOrder(t)
  PROVE  InOrder(u)
  <1>1. PICK s \in Table, v \in Table : /\ Eases(t, s)
                                        /\ v = s \/ Sends(s, v) \/ Claims(s, v)
                                        /\ Eases(v, u)
    BY DEF StoreStep
  <1>2. InOrder(s)
    BY <1>1, EasingKeepsLanes
  <1>3. InOrder(v)
    <2>1. CASE v = s
      BY <2>1, <1>2
    <2>2. CASE Sends(s, v)
      BY <2>2, <1>2, SendKeepsLanes
    <2>3. CASE Claims(s, v)
      BY <2>3, <1>2, ClaimKeepsLanes
    <2> QED BY <1>1, <2>1, <2>2, <2>3
  <1> QED BY <1>1, <1>3, EasingKeepsLanes

(* Every step of the system leaves a settled row settled and an inserted   *)
(* row in its lane.                                                        *)
LEMMA StoreStepKeepsRows ==
  ASSUME NEW t \in Table, NEW u \in Table, StoreStep(t, u), NEW i \in RowIds
  PROVE  /\ t[i].state \in Settled => u[i].state = t[i].state
         /\ t[i].state # "absent" =>
              u[i].state # "absent" /\ u[i].recipient = t[i].recipient
  <1> DEFINE Kept(s, v) == /\ s[i].state \in Settled => v[i].state = s[i].state
                           /\ s[i].state # "absent" =>
                                v[i].state # "absent" /\ v[i].recipient = s[i].recipient
  <1>1. PICK s \in Table, v \in Table : /\ Eases(t, s)
                                        /\ v = s \/ Sends(s, v) \/ Claims(s, v)
                                        /\ Eases(v, u)
    BY DEF StoreStep
  <1>2. \A x \in Table, y \in Table : Eases(x, y) => Kept(x, y)
    BY DEF Eases, Settled, Fencing
  <1>3. CASE v = s
    BY <1>1, <1>2, <1>3
  <1>4. CASE Sends(s, v)
    <2>1. s[i].state # "absent" => v[i] = s[i]
      BY <1>4 DEF Sends, Insert, Table
    <2> QED BY <1>1, <1>2, <2>1 DEF Settled
  <1>5. CASE Claims(s, v)
    BY <1>1, <1>2, <1>5 DEF Claims, CanClaim, Claim, Table, DeliveryRecord, Settled
  <1> QED BY <1>1, <1>3, <1>4, <1>5

=============================================================================
