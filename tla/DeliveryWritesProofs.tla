------------------------- MODULE DeliveryWritesProofs -------------------------
(***************************************************************************)
(* What holds of every write into a terminal, for all constants: it is     *)
(* made once, in the order of the lane, by an attempt that owns its row,   *)
(* and delivery as a whole implements ComposerLane.                        *)
(*                                                                         *)
(* The inductive invariant is WritesSound.  Most steps only settle rows    *)
(* and perhaps send one (Settling); what is left are the steps of an       *)
(* attempt or of a launch, on one row, and the restart, on all of them.    *)
(***************************************************************************)
EXTENDS TeamDeliveryProofs

(* What was not written has no checkpoint and no copy, and a row that can  *)
(* be claimed was not written.                                             *)
RowSound(x, c) ==
  /\ x.state \in {"absent", "pending", "manual"} => ~x.write_started
  /\ ~x.write_started => ~x.checkpoint /\ c = 0
  /\ c <= 1

(* An attempt that owns its row and has not pasted has written nothing.    *)
AttemptSound(x, a) ==
  a.phase # "none" =>
    /\ x.state # "absent" /\ a.attempt <= x.attempt
    /\ a.phase = "claimed" /\ x.state = "attempting" /\ a.attempt = x.attempt =>
         ~x.write_started

(* A launch works on a dispatch to its worker, which does not run; once it *)
(* has claimed the row no attempt owns it, and before the process exists   *)
(* nobody can settle it.                                                   *)
LaunchSound(w, l, x, a, c) ==
  l.phase # "none" =>
    /\ x.state # "absent" /\ x.kind = "dispatch" /\ x.recipient = w
    /\ l.phase # "prepared" =>
         /\ x.attempt = l.attempt /\ x.write_started
         /\ x.state \in Settled \cup {"attempting"}
         /\ a.phase # "none" => a.attempt # l.attempt
         /\ l.phase = "claimed" => x.state = "attempting" /\ c = 0

(* The row of a dispatch is the one that was inserted with it.             *)
LedgerSound(t, d, r) ==
  r.status # "none" =>
    /\ r.row \in RowIds
    /\ t[r.row].state # "absent" /\ t[r.row].kind = "dispatch"
    /\ t[r.row].dispatch = d /\ t[r.row].recipient = Assignee[d]

(* Input is written only when every earlier row of the lane is settled.    *)
WrittenInOrder(t) ==
  \A i, j \in RowIds :
    i < j /\ t[i].recipient = t[j].recipient /\ t[j].write_started => t[i].state \in Settled

RowsSound == \A i \in RowIds : RowSound(deliveries[i], copies[i])
AttemptsSound == \A i \in RowIds : AttemptSound(deliveries[i], active[i])
LaunchesSound ==
  \A w \in Workers : LET i == starting[w].row
                     IN LaunchSound(w, starting[w], deliveries[i], active[i], copies[i])
LaunchesWait == \A w \in Workers : starting[w].phase # "none" => ~Live(w)
DispatchesHaveRows == \A d \in Dispatches : LedgerSound(deliveries, d, ledger[d])

(* A dispatch that was not created has no failure and no waiting caller.   *)
UncreatedIsQuiet ==
  \A d \in Dispatches : ledger[d].status = "none" => ~ledger[d].failed /\ d \notin sending

WritesSound ==
  /\ RowsSound
  /\ AttemptsSound
  /\ LaunchesSound
  /\ LaunchesWait
  /\ DispatchesHaveRows
  /\ UncreatedIsQuiet
  /\ WrittenInOrder(deliveries)
  /\ AttemptingRowsAreOwned

-----------------------------------------------------------------------------
(* A row is settled where it is, or left alone.                            *)
SettlesRow(x, y) ==
  \/ y = x
  \/ /\ x.state \notin Settled \cup {"absent"} /\ y.state \in Settled
     /\ y.kind = x.kind /\ y.dispatch = x.dispatch /\ y.recipient = x.recipient
     /\ y.attempt = x.attempt
     /\ y.write_started = x.write_started /\ y.checkpoint = x.checkpoint

Settles(t, u) == \A i \in RowIds : SettlesRow(t[i], u[i])

SendsRow(t, u, n) ==
  /\ t[n].state = "absent" /\ \A m \in 1..(n - 1) : t[m].state # "absent"
  /\ \E kind \in Kinds, d \in Dispatches, r \in Agents : u[n] = NewDelivery(kind, d, r)
  /\ \A i \in RowIds \ {n} : SettlesRow(t[i], u[i])

(* Rows are settled, and the next one may be sent.                         *)
Settling(t, u) == Settles(t, u) \/ \E n \in RowIds : SendsRow(t, u, n)

(* The transactions that only settle.                                      *)
LEMMA SettlingTransactions ==
  ASSUME NEW t \in Table, NEW i
  PROVE  /\ Settles(t, t)
         /\ Settles(t, Confirm(t, i))
         /\ Settles(t, Supersede(t, i))
         /\ \A d : Settles(t, ClosePending(t, d))
         /\ CanResolve(t, i) => Settles(t, Handled(t, i))
  BY DEF Table, DeliveryRecord, Settles, SettlesRow, Confirm, Supersede, ClosePending,
         CanResolve, Handled, Settled

(* Settling steps compose.                                                 *)
LEMMA SettlesTransitive ==
  ASSUME NEW t \in Table, NEW u \in Table, NEW v \in Table, Settles(t, u), Settles(u, v)
  PROVE  Settles(t, v)
  BY DEF Settles, SettlesRow

(* A settled row is set to no other state, and nothing but its state       *)
(* changes by it.                                                          *)
LEMMA SettlesFields ==
  ASSUME NEW x, NEW y, SettlesRow(x, y)
  PROVE  /\ y.kind = x.kind /\ y.dispatch = x.dispatch /\ y.recipient = x.recipient
         /\ y.attempt = x.attempt
         /\ y.write_started = x.write_started /\ y.checkpoint = x.checkpoint
         /\ y.state = x.state \/ y.state \in Settled
         /\ x.state \in Settled => y.state \in Settled
         /\ y.state = "absent" <=> x.state = "absent"
         /\ y.state \notin Settled => y = x
  BY DEF SettlesRow, Settled

(* What a row has when it was just sent.                                   *)
LEMMA SentFields ==
  ASSUME NEW t, NEW u, NEW n \in RowIds, SendsRow(t, u, n)
  PROVE  /\ u[n].state = "pending" /\ u[n].attempt = 0
         /\ ~u[n].write_started /\ ~u[n].checkpoint
         /\ u[n].recipient \in Agents
  BY DEF SendsRow, NewDelivery, NoDelivery

(* What was written stays in order when rows are settled or sent.          *)
LEMMA SettlingKeepsWritten ==
  ASSUME NEW t, NEW u, Settling(t, u), InOrder(t), WrittenInOrder(t),
         \A i \in RowIds : t[i].state = "absent" => ~t[i].write_started
  PROVE  WrittenInOrder(u)
  <1> SUFFICES ASSUME NEW i \in RowIds, NEW j \in RowIds, i < j,
                      u[i].recipient = u[j].recipient, u[j].write_started
               PROVE  u[i].state \in Settled
    BY DEF WrittenInOrder
  <1>1. CASE Settles(t, u)
    <2>1. SettlesRow(t[i], u[i]) /\ SettlesRow(t[j], u[j])
      BY <1>1 DEF Settles
    <2> QED BY <2>1, SettlesFields DEF WrittenInOrder
  <1>2. ASSUME NEW n \in RowIds, SendsRow(t, u, n)
        PROVE  u[i].state \in Settled
    <2>1. j # n
      BY <1>2, SentFields
    <2>2. SettlesRow(t[j], u[j])
      BY <1>2, <2>1 DEF SendsRow
    <2>3. t[j].write_started /\ t[j].state # "absent"
      BY <2>2, SettlesFields
    <2>4. i # n
      BY <1>2, <2>3 DEF InOrder, NoGaps, SendsRow
    <2>5. SettlesRow(t[i], u[i])
      BY <1>2, <2>4 DEF SendsRow
    <2>6. t[i].recipient = t[j].recipient
      BY <2>2, <2>5, SettlesFields
    <2> QED BY <2>3, <2>5, <2>6, SettlesFields DEF WrittenInOrder
  <1> QED BY <1>1, <1>2 DEF Settling

-----------------------------------------------------------------------------
(* A row that was inserted stays the row it is.                            *)
RowsStay(t, u) ==
  \A i \in RowIds :
    t[i].state # "absent" =>
      /\ u[i].state # "absent" /\ u[i].kind = t[i].kind
      /\ u[i].dispatch = t[i].dispatch /\ u[i].recipient = t[i].recipient

(* Attempts go on, perhaps aborted.                                        *)
AttemptsGoOn ==
  \A i \in RowIds :
    active'[i].phase = active[i].phase /\ active'[i].attempt = active[i].attempt

(* What every step keeps, apart from the ledger and the runs.              *)
StaysSound ==
  /\ RowsSound' /\ AttemptsSound' /\ LaunchesSound'
  /\ WrittenInOrder(deliveries)' /\ AttemptingRowsAreOwned'
  /\ RowsStay(deliveries, deliveries')

(* A step that only settles rows and sends at most one; the row of a       *)
(* launch is settled by nobody before its process exists.                  *)
OnlySettles ==
  /\ Settling(deliveries, deliveries') /\ AttemptsGoOn /\ UNCHANGED <<copies, starting>>
  /\ \A w \in Workers : starting[w].phase = "claimed" =>
       deliveries'[starting[w].row] = deliveries[starting[w].row]

(* A settling step keeps the kind and the recipient of every row.          *)
LEMMA SettlingKeepsRows ==
  ASSUME NEW t, NEW u, Settling(t, u)
  PROVE  RowsStay(t, u)
  <1>1. ASSUME NEW i \in RowIds, t[i].state # "absent"
        PROVE  SettlesRow(t[i], u[i])
    BY <1>1 DEF Settling, Settles, SendsRow
  <1> QED BY <1>1, SettlesFields DEF RowsStay

(* Such a step is harmless.                                                *)
LEMMA SettlingKeepsSound ==
  ASSUME Ordered, WritesSound, OnlySettles
  PROVE  StaysSound
  <1> USE DEF WritesSound, OnlySettles
  <1>1. ASSUME NEW i \in RowIds
        PROVE  \/ SettlesRow(deliveries[i], deliveries'[i])
               \/ /\ deliveries[i].state = "absent" /\ deliveries'[i].state = "pending"
                  /\ ~deliveries'[i].write_started /\ ~deliveries'[i].checkpoint
                  /\ deliveries'[i].attempt = 0
    BY SentFields DEF Settling, Settles, SendsRow
  <1>2. \A i \in RowIds : deliveries[i].state = "absent" => /\ ~deliveries[i].write_started
                                                            /\ copies[i] = 0
    BY DEF RowsSound, RowSound
  <1>3. RowsSound'
    <2>1. ASSUME NEW i \in RowIds
          PROVE  RowSound(deliveries'[i], copies'[i])
      <3>1. CASE SettlesRow(deliveries[i], deliveries'[i])
        BY <3>1, SettlesFields DEF RowsSound, RowSound, Settled
      <3> QED BY <1>1, <1>2, <3>1 DEF RowSound
    <2> QED BY <2>1 DEF RowsSound
  <1>4. AttemptsSound'
    <2>1. ASSUME NEW i \in RowIds
          PROVE  AttemptSound(deliveries'[i], active'[i])
      <3>1. CASE SettlesRow(deliveries[i], deliveries'[i])
        BY <3>1, SettlesFields DEF AttemptsSound, AttemptSound, Settled, AttemptsGoOn
      <3>2. CASE deliveries[i].state = "absent"
        BY <3>2 DEF AttemptsSound, AttemptSound, AttemptsGoOn
      <3> QED BY <1>1, <3>1, <3>2
    <2> QED BY <2>1 DEF AttemptsSound
  <1>5. LaunchesSound'
    <2> SUFFICES ASSUME NEW w \in Workers, starting[w].phase # "none"
                 PROVE  LET i == starting[w].row
                        IN LaunchSound(w, starting[w], deliveries'[i], active'[i], copies[i])
      BY DEF LaunchesSound, LaunchSound
    <2> DEFINE i == starting[w].row
    <2>1. i \in RowIds
      BY DEF Ordered, TypeOK, Starting, NotStarting
    <2>2. LaunchSound(w, starting[w], deliveries[i], active[i], copies[i])
      BY DEF LaunchesSound
    <2>3. SettlesRow(deliveries[i], deliveries'[i])
      BY <1>1, <2>1, <2>2 DEF LaunchSound
    <2> QED BY <2>1, <2>2, <2>3, SettlesFields DEF LaunchSound, AttemptsGoOn
  <1>6. WrittenInOrder(deliveries)'
    BY <1>2, SettlingKeepsWritten DEF Ordered, TypeOK, Table
  <1>7. AttemptingRowsAreOwned'
    <2>1. ASSUME NEW i \in RowIds, deliveries'[i].state = "attempting"
          PROVE  deliveries'[i] = deliveries[i]
      BY <1>1, <2>1, SettlesFields DEF Settled
    <2> QED BY <2>1 DEF AttemptingRowsAreOwned, AttemptsGoOn
  <1> QED BY <1>3, <1>4, <1>5, <1>6, <1>7, SettlingKeepsRows DEF StaysSound

-----------------------------------------------------------------------------
(* One row changes, but stays the row it is.                               *)
Changes(t, u, i) ==
  /\ \A j \in RowIds \ {i} : u[j] = t[j]
  /\ u[i].kind = t[i].kind /\ u[i].dispatch = t[i].dispatch
  /\ u[i].recipient = t[i].recipient

(* Only the state changes.                                                 *)
Sets(t, u, i, s) ==
  /\ Changes(t, u, i)
  /\ u[i].attempt = t[i].attempt /\ u[i].write_started = t[i].write_started
  /\ u[i].checkpoint = t[i].checkpoint /\ u[i].state = s

(* The intent of a write.                                                  *)
Marks(t, u, i) ==
  /\ Changes(t, u, i)
  /\ u[i].attempt = t[i].attempt /\ u[i].write_started /\ u[i].state = t[i].state

(* What the transactions of the store do to one row.                       *)
LEMMA RowTransactions ==
  ASSUME NEW t \in Table, NEW i \in RowIds
  PROVE  /\ \A s : Sets(t, [t EXCEPT ![i].state = s], i, s)
         /\ Marks(t, SaveCheckpoint(t, i), i)
         /\ Marks(t, BeforeWrite(t, i), i)
         /\ LET u == Claim(t, i)
            IN /\ Changes(t, u, i)
               /\ u[i].state = "attempting" /\ u[i].attempt = t[i].attempt + 1
               /\ u[i].write_started = t[i].write_started
               /\ u[i].checkpoint = t[i].checkpoint
         /\ LET u == Resend(t, i)
            IN /\ Changes(t, u, i)
               /\ u[i].state = "pending" /\ u[i].attempt = t[i].attempt
               /\ ~u[i].write_started /\ ~u[i].checkpoint
  <1>1. \A s : Sets(t, [t EXCEPT ![i].state = s], i, s)
    BY DEF Table, DeliveryRecord, Sets, Changes
  <1>2. Marks(t, SaveCheckpoint(t, i), i) /\ Marks(t, BeforeWrite(t, i), i)
    BY DEF Table, DeliveryRecord, SaveCheckpoint, BeforeWrite, Marks, Changes
  <1>3. LET u == Claim(t, i)
        IN /\ Changes(t, u, i)
           /\ u[i].state = "attempting" /\ u[i].attempt = t[i].attempt + 1
           /\ u[i].write_started = t[i].write_started
           /\ u[i].checkpoint = t[i].checkpoint
    BY DEF Table, DeliveryRecord, Claim, Changes
  <1>4. LET u == Resend(t, i)
        IN /\ Changes(t, u, i)
           /\ u[i].state = "pending" /\ u[i].attempt = t[i].attempt
           /\ ~u[i].write_started /\ ~u[i].checkpoint
    BY DEF Table, DeliveryRecord, Resend, Changes
  <1> QED BY <1>1, <1>2, <1>3, <1>4

(* What becomes of a row whose attempt fails.                              *)
LEMMA FailedRow ==
  ASSUME NEW t \in Table, NEW i \in RowIds, NEW attempt, NEW terminal
  PROVE  LET u == Failed(t, i, attempt, terminal)
         IN /\ ~OwnsAttempt(t, i, attempt) => u = t
            /\ OwnsAttempt(t, i, attempt) =>
                 /\ Sets(t, u, i, u[i].state)
                 /\ t[i].write_started => u[i].state = "unknown"
                 /\ ~t[i].write_started => u[i].state \in {"pending", "manual", "resolved"}
  <1>1. Sets(t, [t EXCEPT ![i].state = StateAfterFailure(t[i], terminal)], i,
             StateAfterFailure(t[i], terminal))
    BY RowTransactions
  <1> QED BY <1>1 DEF Failed, StateAfterFailure, Sets

OwnsRow(i, a, s) ==
  \/ a[i].phase # "none" /\ a[i].attempt = deliveries[i].attempt
  \/ \E w \in Workers : /\ s[w].phase \in {"claimed", "spawned"}
                        /\ s[w].row = i
                        /\ s[w].attempt = deliveries[i].attempt

(* A step on one row that leaves the row, its attempt and its launch sound *)
(* leaves everything sound.                                                *)
LEMMA OneRowKeepsSound ==
  ASSUME Ordered, WritesSound, NEW i \in RowIds,
         Changes(deliveries, deliveries', i),
         deliveries[i].state # "absent", deliveries'[i].state # "absent",
         deliveries[i].state \in Settled => deliveries'[i].state \in Settled,
         deliveries'[i].write_started =>
           deliveries[i].write_started \/ deliveries[i].state = "attempting"
             \/ CanClaim(deliveries, i),
         \A j \in RowIds \ {i} : copies'[j] = copies[j] /\ active'[j] = active[j],
         \A w \in Workers : starting[w].row # i => starting'[w] = starting[w],
         RowSound(deliveries'[i], copies'[i]),
         AttemptSound(deliveries'[i], active'[i]),
         \A w \in Workers :
           starting[w].row = i =>
             /\ LaunchSound(w, starting'[w], deliveries'[i], active'[i], copies'[i])
             /\ starting'[w].phase # "none" => starting'[w].row = i,
         deliveries'[i].state = "attempting" => OwnsRow(i, active, starting)'
  PROVE  StaysSound
  <1> USE DEF WritesSound
  <1>1. \A j \in RowIds \ {i} : deliveries'[j] = deliveries[j]
    BY DEF Changes
  <1>2. RowsSound' /\ AttemptsSound'
    BY <1>1 DEF RowsSound, AttemptsSound
  <1>3. LaunchesSound'
    <2> SUFFICES ASSUME NEW w \in Workers, starting'[w].phase # "none"
                 PROVE  LET j == starting'[w].row
                        IN LaunchSound(w, starting'[w], deliveries'[j], active'[j], copies'[j])
      BY DEF LaunchesSound, LaunchSound
    <2>1. CASE starting[w].row = i
      BY <2>1
    <2>2. CASE starting[w].row # i
      <3>1. starting'[w] = starting[w]
        BY <2>2
      <3>2. starting[w].row \in RowIds
        BY <3>1 DEF Ordered, TypeOK, Starting, NotStarting
      <3> QED BY <1>1, <2>2, <3>1, <3>2 DEF LaunchesSound
    <2> QED BY <2>1, <2>2
  <1>4. AttemptingRowsAreOwned'
    <2>1. ASSUME NEW j \in RowIds \ {i}, deliveries'[j].state = "attempting"
          PROVE  OwnsRow(j, active, starting)'
      <3>1. OwnsRow(j, active, starting)
        BY <1>1, <2>1 DEF AttemptingRowsAreOwned, OwnsRow
      <3> QED BY <1>1, <3>1 DEF OwnsRow
    <2> QED BY <2>1 DEF AttemptingRowsAreOwned, OwnsRow
  <1>5. ASSUME NEW h \in RowIds, h < i, deliveries[h].recipient = deliveries[i].recipient,
               deliveries'[i].write_started
        PROVE  deliveries[h].state \in Settled
    <2>1. CASE deliveries[i].write_started
      BY <1>5, <2>1 DEF WrittenInOrder
    <2>2. CASE deliveries[i].state = "attempting"
      BY <1>5, <2>2 DEF Ordered, InOrder, LanesInOrder, Fencing, RowIds
    <2>3. CASE CanClaim(deliveries, i)
      <3>1. deliveries[h].state # "absent"
        BY <1>5 DEF Ordered, InOrder, NoGaps
      <3>2. deliveries[h].state \in States
        BY <3>1 DEF Ordered, TypeOK, DeliveryRecord
      <3> QED BY <1>5, <2>3, <3>2 DEF CanClaim, Unblocked, States, Fencing, Settled, RowIds
    <2> QED BY <1>5, <2>1, <2>2, <2>3
  <1>6. WrittenInOrder(deliveries)'
    BY <1>1, <1>5 DEF WrittenInOrder, Changes
  <1>7. RowsStay(deliveries, deliveries')
    BY <1>1 DEF RowsStay, Changes
  <1> QED BY <1>2, <1>3, <1>4, <1>6, <1>7 DEF StaysSound

-----------------------------------------------------------------------------
(* A row that a launch has not claimed may change under it: the launch     *)
(* looks at it again before it claims.                                     *)
LEMMA PreparedLaunches ==
  ASSUME Ordered, WritesSound, NEW i \in RowIds, NEW w \in Workers, starting[w].row = i,
         \/ deliveries[i].state \notin Settled \cup {"attempting"}
         \/ active[i].phase # "none" /\ active[i].attempt = deliveries[i].attempt
  PROVE  /\ starting[w].phase \in {"none", "prepared"}
         /\ \A y, a, c :
              /\ y.state # "absent" /\ y.kind = deliveries[i].kind
              /\ y.recipient = deliveries[i].recipient
              => LaunchSound(w, starting[w], y, a, c)
  <1>1. LaunchSound(w, starting[w], deliveries[i], active[i], copies[i])
    BY DEF WritesSound, LaunchesSound
  <1>2. starting[w].phase \in {"none", "prepared", "claimed", "spawned"}
    BY DEF Ordered, TypeOK, Starting, NotStarting
  <1> QED BY <1>1, <1>2 DEF LaunchSound

(* A step on a row that no launch has claimed.                             *)
LEMMA FreeRowKeepsSound ==
  ASSUME Ordered, WritesSound, NEW i \in RowIds,
         Changes(deliveries, deliveries', i),
         deliveries[i].state # "absent", deliveries'[i].state # "absent",
         deliveries[i].state \in Settled => deliveries'[i].state \in Settled,
         deliveries'[i].write_started =>
           deliveries[i].write_started \/ deliveries[i].state = "attempting",
         \A j \in RowIds \ {i} : copies'[j] = copies[j] /\ active'[j] = active[j],
         UNCHANGED starting,
         RowSound(deliveries'[i], copies'[i]),
         AttemptSound(deliveries'[i], active'[i]),
         \/ deliveries[i].state \notin Settled \cup {"attempting"}
         \/ active[i].phase # "none" /\ active[i].attempt = deliveries[i].attempt,
         deliveries'[i].state = "attempting" =>
           active'[i].phase # "none" /\ active'[i].attempt = deliveries'[i].attempt
  PROVE  StaysSound
  <1>1. \A w \in Workers :
          starting[w].row = i =>
            LaunchSound(w, starting[w], deliveries'[i], active'[i], copies'[i])
    BY PreparedLaunches DEF Changes
  <1>2. deliveries'[i].state = "attempting" => OwnsRow(i, active, starting)'
    BY DEF OwnsRow
  <1> QED BY <1>1, <1>2, OneRowKeepsSound

(* An attempt that loses its row leaves it alone; one that owns it either  *)
(* finds the outcome uncertain or has written nothing.                     *)
LEMMA EndedAttemptKeepsSound ==
  ASSUME Ordered, WritesSound, NEW i \in RowIds, active[i].phase # "none",
         UNCHANGED <<copies, starting>>, active' = [active EXCEPT ![i] = NoAttempt],
         \/ deliveries' = deliveries /\ ~Owned(i)
         \/ /\ Owned(i) /\ Changes(deliveries, deliveries', i)
            /\ deliveries[i].write_started => deliveries'[i].write_started
            /\ \/ /\ deliveries'[i].state \in {"unknown"} \cup Settled
                  /\ ~deliveries'[i].write_started => ~deliveries'[i].checkpoint
               \/ /\ deliveries'[i].state \in {"pending", "manual"}
                  /\ ~deliveries'[i].write_started /\ ~deliveries'[i].checkpoint
  PROVE  StaysSound
  <1>1. active'[i].phase = "none" /\ \A j \in RowIds \ {i} : active'[j] = active[j]
    BY DEF Ordered, TypeOK, NoAttempt
  <1>2. CASE deliveries' = deliveries /\ ~Owned(i)
    <2>1. RowsSound' /\ WrittenInOrder(deliveries)' /\ RowsStay(deliveries, deliveries')
      BY <1>2 DEF WritesSound, RowsSound, RowsStay
    <2>2. AttemptsSound'
      BY <1>1, <1>2 DEF WritesSound, AttemptsSound, AttemptSound
    <2>3. LaunchesSound'
      BY <1>1, <1>2 DEF WritesSound, LaunchesSound, LaunchSound, Ordered, TypeOK, Starting,
                        NotStarting
    <2>4. AttemptingRowsAreOwned'
      BY <1>1, <1>2 DEF WritesSound, AttemptingRowsAreOwned, Owned, OwnsAttempt
    <2> QED BY <2>1, <2>2, <2>3, <2>4 DEF StaysSound
  <1>3. CASE Owned(i)
    <2>1. deliveries[i].state = "attempting" /\ active[i].attempt = deliveries[i].attempt
      BY <1>3 DEF Owned, OwnsAttempt
    <2>2. RowSound(deliveries'[i], copies'[i])
      BY <1>3 DEF WritesSound, RowsSound, RowSound, Settled
    <2>3. AttemptSound(deliveries'[i], active'[i])
      BY <1>1 DEF AttemptSound
    <2> QED BY <1>1, <1>3, <2>1, <2>2, <2>3, FreeRowKeepsSound DEF Settled
  <1> QED BY <1>2, <1>3

(* An attempt that fails leaves everything sound.                          *)
LEMMA FailedAttemptKeepsSound ==
  ASSUME Ordered, WritesSound, NEW i \in RowIds, active[i].phase # "none",
         UNCHANGED <<copies, starting>>, NEW terminal,
         \/ FailAttempt(deliveries, i, terminal)
         \/ Owned(i) /\ FailAttempt(WriteIntent(i), i, terminal)
  PROVE  StaysSound
  <1>1. deliveries \in Table /\ WriteIntent(i) \in Table
    BY RowType DEF Ordered, TypeOK, Table, WriteIntent
  <1>2. RowSound(deliveries[i], copies[i])
    BY DEF WritesSound, RowsSound
  <1>3. CASE FailAttempt(deliveries, i, terminal)
    <2>1. /\ deliveries' = Failed(deliveries, i, active[i].attempt, terminal)
          /\ active' = [active EXCEPT ![i] = NoAttempt]
      BY <1>3 DEF FailAttempt
    <2>2. CASE ~Owned(i)
      <3>1. deliveries' = deliveries
        BY <1>1, <2>1, <2>2, FailedRow DEF Owned
      <3> QED BY <2>1, <2>2, <3>1, EndedAttemptKeepsSound
    <2>3. CASE Owned(i)
      <3>1. /\ Sets(deliveries, deliveries', i, deliveries'[i].state)
            /\ deliveries[i].write_started => deliveries'[i].state = "unknown"
            /\ ~deliveries[i].write_started =>
                 deliveries'[i].state \in {"pending", "manual", "resolved"}
        BY <1>1, <2>1, <2>3, FailedRow DEF Owned
      <3>2. ~deliveries'[i].write_started => ~deliveries'[i].checkpoint
        BY <1>2, <3>1 DEF Sets, RowSound
      <3> QED BY <2>1, <2>3, <3>1, <3>2, EndedAttemptKeepsSound DEF Sets, Settled
    <2> QED BY <2>2, <2>3
  <1>4. CASE Owned(i) /\ FailAttempt(WriteIntent(i), i, terminal)
    <2>1. Marks(deliveries, WriteIntent(i), i)
      BY <1>1, RowTransactions DEF WriteIntent
    <2>2. OwnsAttempt(WriteIntent(i), i, active[i].attempt)
      BY <1>4, <2>1 DEF Owned, OwnsAttempt, Marks
    <2>3. Sets(WriteIntent(i), deliveries', i, "unknown")
      BY <1>1, <1>4, <2>1, <2>2, FailedRow DEF FailAttempt, Marks
    <2>4. /\ Changes(deliveries, deliveries', i)
          /\ deliveries'[i].write_started /\ deliveries'[i].state = "unknown"
      BY <2>1, <2>3 DEF Marks, Sets, Changes
    <2>5. active' = [active EXCEPT ![i] = NoAttempt]
      BY <1>4 DEF FailAttempt
    <2> QED BY <1>4, <2>4, <2>5, EndedAttemptKeepsSound
  <1> QED BY <1>3, <1>4

(* A receipt that is found and a person's decision only settle rows.       *)
LEMMA AnswersOnlySettle ==
  ASSUME Ordered, WritesSound, NEW i \in RowIds,
         Recheck(i) \/ Journal(i) \/ HandledByUser(i)
  PROVE  OnlySettles
  <1>0. deliveries \in Table
    BY DEF Ordered, TypeOK, Table
  <1>1. Settling(deliveries, deliveries')
    BY <1>0, SettlingTransactions
       DEF Recheck, Journal, HandledByUser, Settling, persistent
  <1>2. UNCHANGED <<active, copies, starting>>
    BY DEF Recheck, Journal, HandledByUser, memory, history
  <1>3. ASSUME NEW w \in Workers, starting[w].phase = "claimed"
        PROVE  deliveries'[starting[w].row] = deliveries[starting[w].row]
    <2>1. deliveries[starting[w].row].state = "attempting"
      BY <1>3 DEF WritesSound, LaunchesSound, LaunchSound
    <2>2. Recheck(i) \/ HandledByUser(i) => starting[w].row # i
      BY <2>1 DEF Recheck, HandledByUser, CanResolve
    <2>3. Recheck(i) \/ HandledByUser(i) =>
            \A j \in RowIds \ {i} : deliveries'[j] = deliveries[j]
      BY <1>0 DEF Recheck, HandledByUser, Confirm, Handled, Table
    <2>4. starting[w].row \in RowIds
      BY <1>3 DEF Ordered, TypeOK, Starting, NotStarting
    <2> QED BY <2>2, <2>3, <2>4 DEF Journal, persistent
  <1> QED BY <1>1, <1>2, <1>3 DEF OnlySettles, AttemptsGoOn

(* The steps of an attempt, of its receipt and of the person.              *)
LEMMA AttemptKeepsSound ==
  ASSUME Ordered, Ordered', WritesSound, NEW i \in RowIds, Attempting(i), ~CrashBeforeWrite(i)
  PROVE  StaysSound
  <1>0. deliveries \in Table /\ active \in [RowIds -> Attempt] /\ copies \in [RowIds -> Nat]
    BY DEF Ordered, TypeOK, Table
  <1>1. RowSound(deliveries[i], copies[i]) /\ AttemptSound(deliveries[i], active[i])
    BY DEF WritesSound, RowsSound, AttemptsSound
  <1>2. CASE Deliver(i)
    <2>1. CanClaim(deliveries, i) /\ deliveries' = Claim(deliveries, i) /\ active[i].phase = "none"
      BY <1>2 DEF Deliver
    <2>2. /\ Changes(deliveries, deliveries', i)
          /\ deliveries'[i].state = "attempting"
          /\ deliveries'[i].attempt = deliveries[i].attempt + 1
          /\ deliveries'[i].write_started = deliveries[i].write_started
          /\ deliveries'[i].checkpoint = deliveries[i].checkpoint
      BY <1>0, <2>1, RowTransactions
    <2>3. /\ active'[i].phase = "claimed" /\ active'[i].attempt = deliveries[i].attempt + 1
          /\ \A j \in RowIds \ {i} : active'[j] = active[j]
      BY <1>0, <1>2 DEF Deliver, NoAttempt
    <2>4. deliveries[i].state = "pending" /\ ~deliveries[i].write_started
          /\ deliveries'[i].attempt \in Nat
      BY <1>0, <1>1, <2>1, <2>2 DEF CanClaim, RowSound, Table, DeliveryRecord
    <2>5. UNCHANGED <<copies, starting>>
      BY <1>2 DEF Deliver, history
    <2>6. RowSound(deliveries'[i], copies'[i]) /\ AttemptSound(deliveries'[i], active'[i])
      BY <1>1, <2>2, <2>3, <2>4, <2>5 DEF RowSound, AttemptSound
    <2> QED BY <2>2, <2>3, <2>4, <2>5, <2>6, FreeRowKeepsSound DEF Settled
  <1>3. CASE WriteInput(i)
    <2>1. Marks(deliveries, deliveries', i)
      BY <1>0, <1>3, RowTransactions DEF WriteInput, WriteIntent
    <2>2. /\ active[i].phase = "claimed" /\ deliveries[i].state = "attempting"
          /\ active[i].attempt = deliveries[i].attempt
      BY <1>3 DEF WriteInput, CanWrite, Owned, OwnsAttempt
    <2>3. /\ active'[i].phase = "pasted" /\ active'[i].attempt = active[i].attempt
          /\ copies'[i] = copies[i] + 1
          /\ \A j \in RowIds \ {i} : copies'[j] = copies[j] /\ active'[j] = active[j]
      BY <1>0, <1>3 DEF WriteInput, Attempt
    <2>4. copies[i] = 0
      BY <1>1, <2>2 DEF RowSound, AttemptSound
    <2>5. RowSound(deliveries'[i], copies'[i]) /\ AttemptSound(deliveries'[i], active'[i])
      BY <1>1, <2>1, <2>2, <2>3, <2>4 DEF RowSound, AttemptSound, Marks
    <2>6. UNCHANGED starting
      BY <1>3 DEF WriteInput
    <2> QED BY <2>1, <2>2, <2>3, <2>5, <2>6, FreeRowKeepsSound DEF Marks
  <1>4. CASE WriteRejected(i)
    BY <1>4, FailedAttemptKeepsSound DEF WriteRejected, CanWrite, history
  <1>5. CASE PressEnter(i)
    <2>1. Marks(deliveries, deliveries', i)
      BY <1>0, <1>5, RowTransactions DEF PressEnter
    <2>2. /\ active[i].phase = "pasted" /\ deliveries[i].state = "attempting"
          /\ active[i].attempt = deliveries[i].attempt
      BY <1>5 DEF PressEnter, Owned, OwnsAttempt
    <2>3. /\ active'[i].phase = "pasted" /\ active'[i].attempt = active[i].attempt
          /\ \A j \in RowIds \ {i} : active'[j] = active[j]
      BY <1>0, <1>5 DEF PressEnter, Attempt
    <2>4. UNCHANGED <<copies, starting>>
      BY <1>5 DEF PressEnter, history
    <2>5. RowSound(deliveries'[i], copies'[i]) /\ AttemptSound(deliveries'[i], active'[i])
      BY <1>1, <2>1, <2>2, <2>3, <2>4 DEF RowSound, AttemptSound, Marks
    <2> QED BY <2>1, <2>2, <2>3, <2>4, <2>5, FreeRowKeepsSound DEF Marks
  <1>6. CASE CompleteNative(i) \/ CompletePty(i)
    <2>1. /\ Owned(i) /\ active[i].phase # "none" /\ UNCHANGED <<copies, starting>>
          /\ active' = [active EXCEPT ![i] = NoAttempt]
      BY <1>6 DEF CompleteNative, CompletePty, history
    <2>2. \E s \in {"confirmed", "unknown"} : Sets(deliveries, deliveries', i, s)
      BY <1>0, <1>6, RowTransactions DEF CompleteNative, CompletePty, Submitted
    <2> QED BY <1>1, <2>1, <2>2, EndedAttemptKeepsSound DEF Sets, RowSound, Settled
  <1>7. CASE AttemptFails(i) \/ AttemptNeedsReview(i) \/ AttemptDropped(i)
    BY <1>7, FailedAttemptKeepsSound
       DEF AttemptFails, AttemptNeedsReview, AttemptDropped, history
  <1>8. CASE Recheck(i) \/ Journal(i) \/ HandledByUser(i)
    BY <1>8, AnswersOnlySettle, SettlingKeepsSound
  <1>9. CASE ResendByUser(i)
    <2>1. /\ Changes(deliveries, deliveries', i)
          /\ deliveries'[i].state = "pending" /\ deliveries'[i].attempt = deliveries[i].attempt
          /\ ~deliveries'[i].write_started /\ ~deliveries'[i].checkpoint
      BY <1>0, <1>9, RowTransactions DEF ResendByUser
    <2>2. deliveries[i].state \in {"pending", "unknown", "manual"}
      BY <1>9 DEF ResendByUser, CanResolve
    <2>3. /\ copies'[i] = 0 /\ \A j \in RowIds \ {i} : copies'[j] = copies[j]
          /\ UNCHANGED <<active, starting>>
      BY <1>0, <1>9 DEF ResendByUser, memory
    <2>4. RowSound(deliveries'[i], copies'[i]) /\ AttemptSound(deliveries'[i], active'[i])
      BY <1>1, <2>1, <2>3 DEF RowSound, AttemptSound
    <2> QED BY <2>1, <2>2, <2>3, <2>4, FreeRowKeepsSound DEF Settled
  <1> QED BY <1>2, <1>3, <1>4, <1>5, <1>6, <1>7, <1>8, <1>9 DEF Attempting

(* A launch that is under way holds its worker back, so nobody speaks for  *)
(* the worker before the process exists.                                   *)
LEMMA ClaimedWorkersAreSilent ==
  ASSUME Ordered, WritesSound, NEW w \in Workers, starting[w].phase = "claimed"
  PROVE  /\ ~Running(w)
         /\ starting[w].row \in RowIds
         /\ LET x == deliveries[starting[w].row]
            IN x.state = "attempting" /\ x.write_started /\ x.recipient = w
                 /\ x.kind = "dispatch"
  BY DEF WritesSound, LaunchesSound, LaunchesWait, LaunchSound, Running, Ordered, TypeOK,
         Starting, NotStarting

(* What enqueue inserts.                                                   *)
LEMMA InsertedRow ==
  ASSUME NEW t \in Table, NEW n \in RowIds, NEW kind, NEW d, NEW r
  PROVE  /\ \A j \in RowIds \ {n} : Insert(t, n, kind, d, r)[j] = t[j]
         /\ Insert(t, n, kind, d, r)[n] = NewDelivery(kind, d, r)
         /\ Insert(t, n, kind, d, r)[n].kind = kind
         /\ Insert(t, n, kind, d, r)[n].state = "pending"
  <1>1. NewDelivery(kind, d, r).kind = kind /\ NewDelivery(kind, d, r).state = "pending"
    BY DEF NewDelivery, NoDelivery
  <1>2. /\ \A j \in RowIds \ {n} : Insert(t, n, kind, d, r)[j] = t[j]
        /\ Insert(t, n, kind, d, r)[n] = NewDelivery(kind, d, r)
    BY DEF Insert, Table
  <1> QED BY <1>1, <1>2

(* The steps about a dispatch only settle rows and send one.               *)
LEMMA DispatchOnlySettles ==
  ASSUME Ordered, WritesSound, NEW d \in Dispatches, Dispatching(d)
  PROVE  OnlySettles
  <1>0. deliveries \in Table /\ Assignee[d] \in Workers /\ Assignee[d] \in Agents
          /\ Orchestrator \in Agents
    BY DeliveryAssumption DEF Ordered, TypeOK, Table, Workers
  <1>1. UNCHANGED <<copies, starting>>
    BY DEF Dispatching, CreateDispatch, StartAwaited, StartFailed, Acknowledge, ReportQueued,
           ReportIgnored, ConfirmCancellation, PostMessage, Feedback, Cancel,
           memory, history
  <1>2. AttemptsGoOn
    <2>1. active' = active \/ \E i : active' = Abort(i)
      BY DEF Dispatching, CreateDispatch, StartAwaited, StartFailed, Acknowledge, ReportQueued,
             ReportIgnored, ConfirmCancellation, PostMessage, Feedback, Cancel, memory
    <2> QED BY <2>1 DEF Ordered, TypeOK, Attempt, Abort, AttemptsGoOn
  <1>3. ASSUME NEW t \in Table
        PROVE  Settles(t, ReportedRows(t, d))
    <2>1. ClosePending(t, d) \in Table /\ ReportedRows(t, d) \in Table
      BY TableType, RowType DEF ReportedRows
    <2> QED BY <2>1, SettlingTransactions, SettlesTransitive DEF ReportedRows
  <1>4. \A t, n, kind, r :
          /\ t \in Table /\ n \in RowIds /\ kind \in Kinds /\ r \in Agents /\ Fresh(n)
          /\ Settles(deliveries, t)
          => Settling(deliveries, Insert(t, n, kind, d, r))
    BY InsertedRow DEF Settling, SendsRow, Settles, Fresh
  <1> DEFINE Claimed(t) == \A w \in Workers : starting[w].phase = "claimed" =>
                             t[starting[w].row] = deliveries[starting[w].row]
  <1>5. Claimed(deliveries)
    OBVIOUS
  <1>6. \A t, n, kind, r : /\ t \in Table /\ Claimed(t) /\ n \in RowIds /\ Fresh(n)
                           => Claimed(Insert(t, n, kind, d, r))
    BY InsertedRow, ClaimedWorkersAreSilent DEF Fresh
  <1>7. CASE CreateDispatch(d)
    <2>1. PICK n \in RowIds :
            Fresh(n) /\ deliveries' = Insert(deliveries, n, "dispatch", d, Assignee[d])
      BY <1>7 DEF CreateDispatch
    <2>2. Settling(deliveries, deliveries') /\ Claimed(deliveries')
      BY <1>0, <1>4, <1>5, <1>6, <2>1, SettlingTransactions DEF Kinds
    <2> QED BY <1>1, <1>2, <2>2 DEF OnlySettles
  <1>8. CASE StartAwaited(d) \/ StartFailed(d)
    <2>1. deliveries' = deliveries
      BY <1>8 DEF StartAwaited, StartFailed, persistent
    <2> QED BY <1>0, <1>1, <1>2, <2>1, SettlingTransactions DEF OnlySettles, Settling
  <1> DEFINE own == ledger[d].row
  <1>9. ASSUME ledger[d].status # "none", Running(Assignee[d])
        PROVE  /\ \A w \in Workers : starting[w].phase = "claimed" => starting[w].row # own
               /\ Claimed(Confirm(deliveries, own))
    <2>1. LedgerSound(deliveries, d, ledger[d])
      BY DEF WritesSound, DispatchesHaveRows
    <2>2. \A w \in Workers : starting[w].phase = "claimed" => starting[w].row # own
      BY <1>9, <2>1, ClaimedWorkersAreSilent DEF LedgerSound
    <2>3. \A j \in RowIds : j # own => Confirm(deliveries, own)[j] = deliveries[j]
      BY <1>0 DEF Confirm, Table
    <2> QED BY <2>2, <2>3, ClaimedWorkersAreSilent
  <1>10. CASE Acknowledge(d)
    <2>1. deliveries' = Confirm(deliveries, own)
      BY <1>10 DEF Acknowledge
    <2>2. Settling(deliveries, deliveries')
      BY <1>0, <2>1, SettlingTransactions DEF Settling
    <2>3. Claimed(deliveries')
      BY <1>9, <1>10, <2>1 DEF Acknowledge
    <2> QED BY <1>1, <1>2, <2>2, <2>3 DEF OnlySettles
  <1>11. \A t \in Table : Claimed(t) /\ CanReport(d) => Claimed(ReportedRows(t, d))
    <2> SUFFICES ASSUME NEW t \in Table, Claimed(t), CanReport(d),
                        NEW w \in Workers, starting[w].phase = "claimed"
                 PROVE  ReportedRows(t, d)[starting[w].row] = deliveries[starting[w].row]
      OBVIOUS
    <2>1. starting[w].row # own
      BY <1>9 DEF CanReport, IsOpen
    <2>2. ClosePending(t, d)[starting[w].row] = t[starting[w].row]
      BY ClaimedWorkersAreSilent DEF ClosePending
    <2>3. ClosePending(t, d) \in Table
      BY TableType
    <2>4. ReportedRows(t, d)[starting[w].row] = ClosePending(t, d)[starting[w].row]
      BY <2>1, <2>3, ClaimedWorkersAreSilent DEF ReportedRows, Confirm, Table
    <2> QED BY <2>2, <2>4
  <1>12. CASE ReportQueued(d)
    <2> DEFINE kept == IF Replaces(d) THEN Supersede(deliveries, outbox[d].receipt)
                                      ELSE deliveries
    <2>1. PICK n \in RowIds :
            Fresh(n) /\ deliveries' = ReportedRows(Insert(kept, n, "report", d, Orchestrator), d)
      BY <1>12 DEF ReportQueued
    <2> DEFINE sent == Insert(kept, n, "report", d, Orchestrator)
    <2>2. kept \in Table /\ Settles(deliveries, kept)
      BY <1>0, RowType, SettlingTransactions
    <2>3. sent \in Table
      BY <1>0, <2>2, InsertType DEF Kinds
    <2>4. n # own /\ CanReport(d)
      <3>1. CanReport(d)
        BY <1>12 DEF ReportQueued
      <3>2. LedgerSound(deliveries, d, ledger[d])
        BY DEF WritesSound, DispatchesHaveRows
      <3> QED BY <2>1, <3>1, <3>2 DEF CanReport, IsOpen, LedgerSound, Fresh
    <2>5. sent[n] = NewDelivery("report", d, Orchestrator)
          /\ \A j \in RowIds \ {n} : sent[j] = kept[j]
      BY <2>2, InsertedRow
    <2>6. deliveries'[n] = sent[n]
      <3>1. ClosePending(sent, d) \in Table
        BY <2>3, TableType
      <3>2. ClosePending(sent, d)[n] = sent[n]
        BY <2>5 DEF ClosePending, NewDelivery, NoDelivery
      <3> QED BY <2>1, <2>4, <3>1, <3>2 DEF ReportedRows, Confirm, Table
    <2>7. Settles(sent, deliveries')
      BY <1>3, <2>1, <2>3
    <2> HIDE DEF kept, sent
    <2>8. SendsRow(deliveries, deliveries', n)
      <3>1. ASSUME NEW j \in RowIds \ {n}
            PROVE  SettlesRow(deliveries[j], deliveries'[j])
        <4>1. SettlesRow(deliveries[j], kept[j]) /\ SettlesRow(kept[j], deliveries'[j])
          BY <2>2, <2>5, <2>7 DEF Settles
        <4> QED BY <4>1 DEF SettlesRow
      <3> QED BY <1>0, <2>1, <2>5, <2>6, <3>1 DEF SendsRow, Fresh, Kinds
    <2>9. Claimed(kept)
      BY ClaimedWorkersAreSilent, <1>0 DEF kept, Supersede, Table
    <2>10. Claimed(sent)
      BY <1>6, <2>1, <2>2, <2>9 DEF sent
    <2>11. Claimed(deliveries')
      BY <1>11, <2>1, <2>3, <2>4, <2>10 DEF sent
    <2> QED BY <1>1, <1>2, <2>8, <2>11, SettlingTransactions DEF OnlySettles, Settling
  <1>13. CASE ReportIgnored(d)
    <2>1. deliveries' = ReportedRows(deliveries, d) /\ CanReport(d)
      BY <1>13 DEF ReportIgnored
    <2>2. Claimed(deliveries')
      BY <1>0, <1>5, <1>11, <2>1
    <2> QED BY <1>0, <1>1, <1>2, <1>3, <2>1, <2>2, SettlingTransactions DEF OnlySettles, Settling
  <1>14. CASE ConfirmCancellation(d)
    <2>1. deliveries' = [i \in RowIds |->
                           IF deliveries[i].kind = "cancel" /\ deliveries[i].dispatch = d
                             THEN Confirm(deliveries, i)[i]
                             ELSE deliveries[i]]
      BY <1>14 DEF ConfirmCancellation
    <2>2. Settles(deliveries, deliveries')
      <3>1. \A i \in RowIds : SettlesRow(deliveries[i], Confirm(deliveries, i)[i])
        BY <1>0, SettlingTransactions DEF Settles
      <3> QED BY <2>1, <3>1 DEF Settles, SettlesRow
    <2>3. Claimed(deliveries')
      BY <2>1, ClaimedWorkersAreSilent
    <2> QED BY <1>1, <1>2, <2>2, <2>3, SettlingTransactions DEF OnlySettles, Settling
  <1>15. CASE (\E a \in Agents : PostMessage(d, a)) \/ Feedback(d)
    <2>1. \/ deliveries' = deliveries
          \/ \E n \in RowIds, r \in Agents :
               Fresh(n) /\ deliveries' = Insert(deliveries, n, "message", d, r)
      BY <1>0, <1>15 DEF PostMessage, Feedback
    <2>2. CASE deliveries' = deliveries
      BY <1>0, <1>1, <1>2, <2>2, SettlingTransactions DEF OnlySettles, Settling
    <2>3. ASSUME NEW n \in RowIds, NEW r \in Agents, Fresh(n),
                 deliveries' = Insert(deliveries, n, "message", d, r)
          PROVE  OnlySettles
      <3>1. Settling(deliveries, deliveries') /\ Claimed(deliveries')
        BY <1>0, <1>4, <1>5, <1>6, <2>3, SettlingTransactions DEF Kinds
      <3> QED BY <1>1, <1>2, <3>1 DEF OnlySettles
    <2> QED BY <2>1, <2>2, <2>3
  <1>16. CASE Cancel(d)
    <2> DEFINE closed == ClosePending(deliveries, d)
               withdrawn == IF closed[own].state = "pending"
                              THEN [closed EXCEPT ![own].state = "resolved"] ELSE closed
    <2>1. PICK n \in RowIds :
            Fresh(n) /\ deliveries' = Insert(withdrawn, n, "cancel", d, Assignee[d])
      BY <1>16 DEF Cancel, RequestCancellation
    <2>2. closed \in Table /\ Settles(deliveries, closed)
      BY <1>0, TableType, SettlingTransactions
    <2>3. withdrawn \in Table
      BY <2>2, RowType DEF Handled
    <2>4. Settles(closed, withdrawn)
      BY <2>2, SettlingTransactions DEF Handled, CanResolve
    <2>5. Settles(deliveries, withdrawn)
      BY <1>0, <2>2, <2>3, <2>4, SettlesTransitive
    <2>6. Claimed(closed)
      BY ClaimedWorkersAreSilent DEF ClosePending
    <2> HIDE DEF closed
    <2>7. Claimed(withdrawn)
      BY <2>2, <2>6, ClaimedWorkersAreSilent DEF Table
    <2> HIDE DEF withdrawn
    <2>8. Settling(deliveries, deliveries') /\ Claimed(deliveries')
      BY <1>0, <1>4, <1>6, <2>1, <2>3, <2>5, <2>7 DEF Kinds
    <2> QED BY <1>1, <1>2, <2>8 DEF OnlySettles
  <1> QED BY <1>7, <1>8, <1>10, <1>12, <1>13, <1>14, <1>15, <1>16 DEF Dispatching


(* So do the steps that do not touch the table.                            *)
LEMMA QuietOnlySettles ==
  ASSUME Ordered, UNCHANGED vars \/ Close \/ \E a \in Agents : RunOf(a)
  PROVE  OnlySettles
  <1>1. UNCHANGED <<deliveries, copies, starting>>
    BY DEF Close, RunOf, StartRun, ExitRun, ManualStop, vars, persistent, history, memory
  <1>2. AttemptsGoOn
    BY DEF Close, RunOf, StartRun, ExitRun, ManualStop, vars, memory, Abort, AttemptsGoOn,
           Ordered, TypeOK, Attempt
  <1>3. Settling(deliveries, deliveries')
    BY <1>1, SettlingTransactions DEF Settling, Ordered, TypeOK, Table
  <1> QED BY <1>1, <1>2, <1>3 DEF OnlySettles

(* The steps of a launch.                                                  *)
LEMMA LaunchKeepsSound ==
  ASSUME Ordered, Ordered', WritesSound, NEW w \in Workers, Launching(w)
  PROVE  StaysSound
  <1>i. PICK i : i = starting[w].row
    OBVIOUS
  <1> USE <1>i
  <1>0. /\ deliveries \in Table /\ copies \in [RowIds -> Nat]
        /\ starting \in [Workers -> Starting]
        /\ starting[w].phase \in {"none", "prepared", "claimed", "spawned"}
        /\ starting[w].phase # "none" => i \in RowIds /\ starting[w].attempt \in Nat
    BY DEF Ordered, TypeOK, Table, Starting, NotStarting
  <1>1. LaunchSound(w, starting[w], deliveries[i], active[i], copies[i])
    BY DEF WritesSound, LaunchesSound
  <1>2. /\ i \in RowIds => RowSound(deliveries[i], copies[i])
        /\ i \in RowIds => AttemptSound(deliveries[i], active[i])
    BY DEF WritesSound, RowsSound, AttemptsSound
  <1>3. ASSUME NEW v \in Workers, starting[v].row = i, starting[w].phase # "none", v # w
        PROVE  starting[v].phase = "none"
    <2>1. LaunchSound(v, starting[v], deliveries[i], active[i], copies[i])
      BY <1>3 DEF WritesSound, LaunchesSound
    <2> QED BY <1>1, <1>3, <2>1 DEF LaunchSound
  <1>4. CASE PrepareInitial(w)
    <2>1. PICK j \in RowIds :
            /\ FirstUnsettled(w, j) /\ deliveries[j].kind = "dispatch"
            /\ deliveries[j].state = "pending"
            /\ starting' = [starting EXCEPT ![w] =
                              [phase |-> "prepared", row |-> j, attempt |-> 0]]
      BY <1>4 DEF PrepareInitial
    <2>2. UNCHANGED <<deliveries, active, copies>> /\ starting[w].phase = "none"
      BY <1>4 DEF PrepareInitial, history
    <2>3. RowsSound' /\ AttemptsSound' /\ WrittenInOrder(deliveries)'
          /\ RowsStay(deliveries, deliveries')
      BY <2>2 DEF WritesSound, RowsSound, AttemptsSound, RowsStay
    <2>4. LaunchesSound'
      <3> SUFFICES ASSUME NEW v \in Workers
                   PROVE  LET r == starting'[v].row
                          IN LaunchSound(v, starting'[v], deliveries[r], active[r], copies[r])
        BY <2>2 DEF LaunchesSound
      <3>1. CASE v = w
        <4>1. starting'[v].phase = "prepared" /\ starting'[v].row = j
          BY <1>0, <2>1, <3>1
        <4> QED BY <2>1, <3>1, <4>1 DEF LaunchSound, FirstUnsettled
      <3>2. CASE v # w
        <4>1. starting'[v] = starting[v]
          BY <1>0, <2>1, <3>2
        <4> QED BY <4>1 DEF WritesSound, LaunchesSound
      <3> QED BY <3>1, <3>2
    <2>5. AttemptingRowsAreOwned'
      <3> SUFFICES ASSUME NEW r \in RowIds, deliveries[r].state = "attempting"
                   PROVE  OwnsRow(r, active, starting)'
        BY <2>2 DEF AttemptingRowsAreOwned, OwnsRow
      <3>1. OwnsRow(r, active, starting)
        BY DEF WritesSound, AttemptingRowsAreOwned, OwnsRow
      <3>2. \A v \in Workers : v # w => starting'[v] = starting[v]
        BY <1>0, <2>1
      <3> QED BY <2>2, <3>1, <3>2 DEF OwnsRow
    <2> QED BY <2>3, <2>4, <2>5 DEF StaysSound
  <1>5. CASE ClaimInitial(w)
    <2> DEFINE claimed == Claim(deliveries, i)
    <2>1. /\ starting[w].phase = "prepared" /\ i \in RowIds /\ CanClaim(deliveries, i)
          /\ deliveries' = SaveCheckpoint(claimed, i)
          /\ UNCHANGED <<active, copies>>
      BY <1>0, <1>5 DEF ClaimInitial, history
    <2>2. claimed \in Table
      BY <1>0, <2>1, RowType
    <2>3. /\ Changes(deliveries, claimed, i)
          /\ claimed[i].state = "attempting"
          /\ claimed[i].attempt = deliveries[i].attempt + 1
      BY <1>0, <2>1, RowTransactions
    <2>4. /\ starting'[w].phase = "claimed" /\ starting'[w].row = i
          /\ starting'[w].attempt = deliveries[i].attempt + 1
          /\ \A v \in Workers \ {w} : starting'[v] = starting[v]
      <3>1. starting' = [starting EXCEPT ![w].phase = "claimed",
                                         ![w].attempt = claimed[i].attempt]
        BY <1>5 DEF ClaimInitial
      <3>2. starting[w] \in [phase: {"prepared", "claimed", "spawned"}, row: RowIds,
                             attempt: Nat]
        BY <1>0, <2>1 DEF Starting, NotStarting
      <3> QED BY <1>0, <2>3, <3>1, <3>2
    <2>5. Marks(claimed, deliveries', i)
      BY <2>1, <2>2, RowTransactions
    <2> HIDE DEF claimed
    <2>6. /\ Changes(deliveries, deliveries', i)
          /\ deliveries'[i].state = "attempting" /\ deliveries'[i].write_started
          /\ deliveries'[i].attempt = deliveries[i].attempt + 1
      BY <2>3, <2>5 DEF Marks, Changes
    <2>7. /\ deliveries[i].state = "pending" /\ deliveries[i].attempt \in Nat
          /\ ~deliveries[i].write_started /\ copies[i] = 0
      BY <1>0, <1>2, <2>1 DEF CanClaim, RowSound, Table, DeliveryRecord
    <2>8. active[i].phase # "none" => active[i].attempt <= deliveries[i].attempt
      BY <1>2, <2>1 DEF AttemptSound
    <2>9. active[i].attempt \in Nat
      BY <2>1 DEF Ordered, TypeOK, Attempt
    <2>10. RowSound(deliveries'[i], copies'[i])
      BY <2>1, <2>6, <2>7 DEF RowSound
    <2>11. AttemptSound(deliveries'[i], active'[i])
      BY <2>1, <2>6, <2>7, <2>8, <2>9 DEF AttemptSound
    <2>12. LaunchSound(w, starting'[w], deliveries'[i], active'[i], copies'[i])
      BY <1>1, <2>1, <2>4, <2>6, <2>7, <2>8, <2>9 DEF LaunchSound, Changes
    <2>13. \A v \in Workers : starting[v].row = i /\ v # w => starting'[v].phase = "none"
      BY <1>3, <2>1, <2>4
    <2>14. \A v \in Workers : starting[v].row # i => starting'[v] = starting[v]
      BY <2>4
    <2>15. OwnsRow(i, active, starting)'
      BY <2>4, <2>6 DEF OwnsRow
    <2>16. \A v \in Workers :
             starting[v].row = i =>
               /\ LaunchSound(v, starting'[v], deliveries'[i], active'[i], copies'[i])
               /\ starting'[v].phase # "none" => starting'[v].row = i
      BY <2>4, <2>12, <2>13 DEF LaunchSound
    <2> QED BY <2>1, <2>6, <2>7, <2>10, <2>11, <2>14, <2>15, <2>16, OneRowKeepsSound
            DEF Settled
  <1>6. CASE SpawnInitial(w)
    <2>1. /\ starting[w].phase = "claimed" /\ i \in RowIds
          /\ UNCHANGED <<deliveries, active>>
          /\ copies' = [copies EXCEPT ![i] = @ + 1]
      BY <1>0, <1>6 DEF SpawnInitial, persistent
    <2>2. /\ starting'[w].phase = "spawned" /\ starting'[w].row = i
          /\ starting'[w].attempt = starting[w].attempt
          /\ \A v \in Workers \ {w} : starting'[v] = starting[v]
      BY <1>0, <1>6 DEF SpawnInitial, Starting, NotStarting
    <2>3. /\ deliveries[i].state = "attempting" /\ deliveries[i].write_started
          /\ deliveries[i].attempt = starting[w].attempt /\ copies[i] = 0
      BY <1>1, <2>1 DEF LaunchSound
    <2>4. copies'[i] = 1 /\ \A j \in RowIds \ {i} : copies'[j] = copies[j]
      BY <1>0, <2>1, <2>3
    <2>5. RowSound(deliveries'[i], copies'[i]) /\ AttemptSound(deliveries'[i], active'[i])
      BY <1>2, <2>1, <2>3, <2>4 DEF RowSound
    <2>6. LaunchSound(w, starting'[w], deliveries'[i], active'[i], copies'[i])
      BY <1>1, <2>1, <2>2, <2>3 DEF LaunchSound, Settled
    <2>7. \A v \in Workers :
            starting[v].row = i =>
              /\ LaunchSound(v, starting'[v], deliveries'[i], active'[i], copies'[i])
              /\ starting'[v].phase # "none" => starting'[v].row = i
      BY <1>3, <2>1, <2>2, <2>6 DEF LaunchSound
    <2>8. OwnsRow(i, active, starting)'
      BY <2>1, <2>2, <2>3 DEF OwnsRow
    <2>9. Changes(deliveries, deliveries', i)
      BY <2>1 DEF Changes
    <2> QED BY <2>1, <2>2, <2>3, <2>4, <2>5, <2>7, <2>8, <2>9, OneRowKeepsSound DEF Settled
  <1>7. CASE Launched(w) \/ LaunchFails(w)
    <2>1. /\ starting' = [starting EXCEPT ![w] = NotStarting]
          /\ UNCHANGED <<active, copies>> /\ starting[w].phase # "none" /\ i \in RowIds
      BY <1>0, <1>7 DEF Launched, LaunchFails, history
    <2>2. starting'[w].phase = "none" /\ \A v \in Workers \ {w} : starting'[v] = starting[v]
      BY <1>0, <2>1 DEF NotStarting
    <2>3. \A v \in Workers :
            starting[v].row = i =>
              /\ LaunchSound(v, starting'[v], deliveries'[i], active'[i], copies'[i])
              /\ starting'[v].phase # "none" => starting'[v].row = i
      BY <1>3, <2>1, <2>2 DEF LaunchSound
    <2>4. CASE /\ deliveries[i].state = "attempting" /\ starting[w].phase # "prepared"
               /\ Sets(deliveries, deliveries', i, "unknown")
      <3>1. deliveries[i].write_started
        BY <1>1, <2>1, <2>4 DEF LaunchSound
      <3>2. RowSound(deliveries'[i], copies'[i]) /\ AttemptSound(deliveries'[i], active'[i])
        BY <1>2, <2>1, <2>4, <3>1 DEF RowSound, AttemptSound, Sets
      <3>3. \A v \in Workers : starting[v].row # i => starting'[v] = starting[v]
        BY <2>2
      <3> QED BY <2>1, <2>3, <2>4, <3>1, <3>2, <3>3, OneRowKeepsSound DEF Sets, Settled
    <2>5. CASE /\ deliveries' = deliveries
               /\ \/ starting[w].phase = "prepared" \/ deliveries[i].state # "attempting"
      <3>1. RowsSound' /\ AttemptsSound' /\ WrittenInOrder(deliveries)'
            /\ RowsStay(deliveries, deliveries')
        BY <2>1, <2>5 DEF WritesSound, RowsSound, AttemptsSound, RowsStay
      <3>2. LaunchesSound'
        <4> SUFFICES ASSUME NEW v \in Workers, starting'[v].phase # "none"
                     PROVE  LET r == starting'[v].row
                            IN LaunchSound(v, starting'[v], deliveries[r], active[r], copies[r])
          BY <2>1, <2>5 DEF LaunchesSound, LaunchSound
        <4>1. starting'[v] = starting[v]
          BY <2>2
        <4> QED BY <4>1 DEF WritesSound, LaunchesSound
      <3>3. AttemptingRowsAreOwned'
        <4> SUFFICES ASSUME NEW r \in RowIds, deliveries[r].state = "attempting"
                     PROVE  OwnsRow(r, active, starting)'
          BY <2>5 DEF AttemptingRowsAreOwned, OwnsRow
        <4>1. OwnsRow(r, active, starting)
          BY DEF WritesSound, AttemptingRowsAreOwned, OwnsRow
        <4>2. ~(starting[w].phase \in {"claimed", "spawned"} /\ i = r)
          BY <2>5
        <4> QED BY <2>1, <2>2, <2>5, <4>1, <4>2 DEF OwnsRow
      <3> QED BY <3>1, <3>2, <3>3 DEF StaysSound
    <2>6. CASE Launched(w)
      <3>1. deliveries' = AwaitingReceipt(deliveries, i) /\ starting[w].phase = "spawned"
        BY <2>6 DEF Launched
      <3>2. CASE deliveries[i].state \in Settled
        BY <2>5, <3>1, <3>2 DEF AwaitingReceipt, Settled
      <3>3. CASE deliveries[i].state \notin Settled
        <4>1. deliveries[i].state = "attempting"
          BY <1>1, <3>1, <3>3 DEF LaunchSound
        <4>2. Sets(deliveries, deliveries', i, "unknown")
          BY <1>0, <2>1, <3>1, <3>3, RowTransactions DEF AwaitingReceipt
        <4> QED BY <2>4, <3>1, <4>1, <4>2
      <3> QED BY <3>2, <3>3
    <2>7. CASE LaunchFails(w)
      <3>1. CASE starting[w].phase = "prepared"
        BY <2>5, <2>7, <3>1 DEF LaunchFails
      <3>2. CASE starting[w].phase # "prepared"
        <4>1. deliveries' = Failed(deliveries, i, starting[w].attempt, "retry")
          BY <2>7, <3>2 DEF LaunchFails
        <4>2. deliveries[i].attempt = starting[w].attempt /\ deliveries[i].write_started
              /\ deliveries[i].state \in Settled \cup {"attempting"}
          BY <1>1, <2>1, <3>2 DEF LaunchSound
        <4>3. CASE deliveries[i].state = "attempting"
          <5>1. Sets(deliveries, deliveries', i, "unknown")
            BY <1>0, <2>1, <4>1, <4>2, <4>3, FailedRow DEF OwnsAttempt
          <5> QED BY <2>4, <3>2, <4>3, <5>1
        <4>4. CASE deliveries[i].state # "attempting"
          <5>1. deliveries' = deliveries
            BY <1>0, <2>1, <4>1, <4>4, FailedRow DEF OwnsAttempt
          <5> QED BY <2>5, <4>4, <5>1
        <4> QED BY <4>3, <4>4
      <3> QED BY <3>1, <3>2
    <2> QED BY <1>7, <2>6, <2>7
  <1> QED BY <1>4, <1>5, <1>6, <1>7 DEF Launching

-----------------------------------------------------------------------------
(* A restart leaves no row to an attempt or to a launch that is gone.      *)
LEMMA RestartKeepsSound ==
  ASSUME Ordered, WritesSound, NEW t \in Table, Restarted(t),
         t = deliveries \/ \E i \in RowIds : /\ deliveries[i].state = "attempting"
                                             /\ Marks(deliveries, t, i)
  PROVE  StaysSound
  <1>1. /\ \A i \in RowIds : active'[i].phase = "none"
        /\ \A w \in Workers : starting'[w].phase = "none"
        /\ deliveries' = Recover(t) /\ UNCHANGED copies
    BY DEF Restarted, NoAttempt, NotStarting
  <1>2. AttemptsSound' /\ LaunchesSound'
    BY <1>1 DEF AttemptsSound, AttemptSound, LaunchesSound, LaunchSound
  <1>3. ASSUME NEW i \in RowIds
        PROVE  /\ t[i].kind = deliveries[i].kind /\ t[i].dispatch = deliveries[i].dispatch
               /\ t[i].recipient = deliveries[i].recipient
               /\ t[i].state = deliveries[i].state
               /\ \/ t[i] = deliveries[i]
                  \/ deliveries[i].state = "attempting" /\ t[i].write_started
    BY DEF Marks, Changes
  <1>4. ASSUME NEW i \in RowIds
        PROVE  /\ deliveries'[i].kind = t[i].kind /\ deliveries'[i].dispatch = t[i].dispatch
               /\ deliveries'[i].recipient = t[i].recipient
               /\ deliveries'[i].write_started = t[i].write_started
               /\ deliveries'[i].checkpoint = t[i].checkpoint
               /\ deliveries'[i].state = IF t[i].state = "attempting"
                                           THEN IF t[i].write_started THEN "unknown" ELSE "pending"
                                           ELSE t[i].state
    BY <1>1 DEF Recover, Table, DeliveryRecord
  <1>5. RowsSound'
    <2>1. ASSUME NEW i \in RowIds
          PROVE  RowSound(deliveries'[i], copies'[i])
      BY <1>1, <1>3, <1>4 DEF WritesSound, RowsSound, RowSound
    <2> QED BY <2>1 DEF RowsSound
  <1>6. AttemptingRowsAreOwned'
    BY <1>4 DEF AttemptingRowsAreOwned
  <1>7. RowsStay(deliveries, deliveries')
    BY <1>3, <1>4 DEF RowsStay
  <1>8. WrittenInOrder(deliveries)'
    <2> SUFFICES ASSUME NEW h \in RowIds, NEW i \in RowIds, h < i,
                        deliveries[h].recipient = deliveries[i].recipient,
                        deliveries'[i].write_started
                 PROVE  deliveries'[h].state \in Settled
      BY <1>3, <1>4 DEF WrittenInOrder
    <2>1. deliveries[i].write_started \/ deliveries[i].state = "attempting"
      BY <1>3, <1>4
    <2>2. deliveries[h].state \in Settled
      BY <2>1 DEF WritesSound, WrittenInOrder, Ordered, InOrder, LanesInOrder, Fencing, RowIds
    <2> QED BY <1>3, <1>4, <2>2 DEF Settled
  <1> QED BY <1>2, <1>5, <1>6, <1>7, <1>8 DEF StaysSound

(* Between two processes, also when the write intent is all there is.      *)
LEMMA CrashKeepsSound ==
  ASSUME Ordered, WritesSound, Restart \/ \E i \in RowIds : CrashBeforeWrite(i)
  PROVE  StaysSound
  <1>0. deliveries \in Table
    BY DEF Ordered, TypeOK, Table
  <1>1. CASE Restart
    BY <1>0, <1>1, RestartKeepsSound DEF Restart
  <1>2. ASSUME NEW i \in RowIds, CrashBeforeWrite(i)
        PROVE  StaysSound
    <2>1. WriteIntent(i) \in Table /\ Marks(deliveries, WriteIntent(i), i)
      BY <1>0, RowType, RowTransactions DEF WriteIntent
    <2> QED BY <1>2, <2>1, RestartKeepsSound DEF CrashBeforeWrite, CanWrite, Owned, OwnsAttempt
  <1> QED BY <1>1, <1>2

-----------------------------------------------------------------------------
(* A worker is not started by two ways at once.                            *)
LEMMA LaunchesStillWait ==
  ASSUME Ordered, WritesSound, [Next]_vars
  PROVE  LaunchesWait'
  <1> SUFFICES ASSUME NEW w \in Workers, starting'[w].phase # "none"
               PROVE  run'[w] = 0
    BY DEF LaunchesWait, Live
  <1>0. w \in Agents /\ run \in [Agents -> Nat] /\ starting \in [Workers -> Starting]
    BY DEF Workers, Ordered, TypeOK
  <1>1. starting[w].phase # "none" => run[w] = 0
    BY DEF WritesSound, LaunchesWait, Live
  <1>2. CASE run' = run /\ starting' = starting
    BY <1>1, <1>2
  <1>3. CASE UNCHANGED vars
    BY <1>2, <1>3 DEF vars, memory
  <1>4. ASSUME NEW i \in RowIds, Attempting(i)
        PROVE  run'[w] = 0
    <2>1. CASE CrashBeforeWrite(i)
      BY <1>0, <2>1 DEF CrashBeforeWrite, Restarted
    <2>2. CASE ~CrashBeforeWrite(i)
      BY <1>2, <1>4, <2>2
         DEF Attempting, Deliver, WriteInput, WriteRejected, PressEnter, CompleteNative,
             CompletePty, AttemptFails, AttemptNeedsReview, AttemptDropped, Recheck, Journal,
             HandledByUser, ResendByUser, memory
    <2> QED BY <2>1, <2>2
  <1>5. ASSUME NEW d \in Dispatches, Dispatching(d)
        PROVE  run'[w] = 0
    BY <1>2, <1>5
       DEF Dispatching, CreateDispatch, StartAwaited, StartFailed, Acknowledge, ReportQueued,
           ReportIgnored, ConfirmCancellation, PostMessage, Feedback, Cancel, memory
  <1>6. ASSUME NEW a \in Agents, RunOf(a)
        PROVE  run'[w] = 0
    <2>1. starting' = starting
      BY <1>6 DEF RunOf, StartRun, ExitRun, ManualStop, memory
    <2>2. CASE a = w
      BY <1>0, <1>1, <1>6, <2>1, <2>2 DEF RunOf, StartRun, ExitRun, ManualStop, Live, memory
    <2>3. CASE a # w
      BY <1>0, <1>1, <1>6, <2>1, <2>3 DEF RunOf, StartRun, ExitRun, ManualStop, memory
    <2> QED BY <2>2, <2>3
  <1>7. ASSUME NEW v \in Workers, Launching(v)
        PROVE  run'[w] = 0
    <2>1. CASE v = w
      BY <1>0, <1>1, <1>7, <2>1
         DEF Launching, PrepareInitial, ClaimInitial, SpawnInitial, Launched, LaunchFails,
             NotStarting, Live
    <2>2. CASE v # w
      <3>1. v \in Agents
        BY DEF Workers
      <3> QED BY <1>0, <1>1, <1>7, <2>2, <3>1
              DEF Launching, PrepareInitial, ClaimInitial, SpawnInitial, Launched, LaunchFails
    <2> QED BY <2>1, <2>2
  <1>8. CASE Close \/ Restart
    BY <1>0, <1>1, <1>8 DEF Close, Restart, Restarted
  <1> QED BY <1>3, <1>4, <1>5, <1>6, <1>7, <1>8 DEF Next

(* What becomes of a dispatch that is neither created nor reported: it     *)
(* does not return to the queue, and what was cancelled is left alone,     *)
(* unless a caller still waits for the start of its worker.                *)
LedgerMoves(d, l, m) ==
  \/ m = l
  \/ /\ l.status # "none" /\ m.status # "none"
     /\ m.row = l.row /\ m.revision = l.revision
     /\ m.failed \/ m.status # "queued"
     /\ l.status = "cancelled" => l.failed \/ d \in sending
     /\ m.status = "cancelled" /\ m.failed => l.status = "cancelled"

Reports(d) == ReportQueued(d) \/ ReportIgnored(d)

(* The writes to the ledger are the moves of a dispatch.                   *)
LEMMA LedgerWritesMove ==
  ASSUME Ordered, UncreatedIsQuiet, NEW d \in Dispatches
  PROVE  LET Moves(l) == \A c \in Dispatches : LedgerMoves(c, ledger[c], l[c])
         IN /\ Moves(ledger)
            /\ Undelivered(d) \/ IsOpen(d) \/ d \in sending => Moves(MarkDeliveryFailed(d))
            /\ Undelivered(d) => Moves(MarkSubmitted(d))
            /\ IsOpen(d) =>
                 Moves([ledger EXCEPT ![d].status = "cancelled", ![d].failed = FALSE])
            /\ ledger[d].status # "none" /\ Status(d) # "cancelled" =>
                 Moves(Reopened(d)) /\ Moves([Reopened(d) EXCEPT ![d].failed = TRUE])
  <1> DEFINE Moves(l) == \A c \in Dispatches : LedgerMoves(c, ledger[c], l[c])
  <1>0. ledger \in [Dispatches -> LedgerRecord]
    BY DEF Ordered, TypeOK
  <1>1. ASSUME NEW m, LedgerMoves(d, ledger[d], m)
        PROVE  Moves([ledger EXCEPT ![d] = m])
    BY <1>0, <1>1 DEF LedgerMoves
  <1>2. ledger[d].status = "none" => ~ledger[d].failed /\ d \notin sending
    BY DEF UncreatedIsQuiet
  <1>3. ledger[d] \in LedgerRecord
    BY <1>0
  <1>4. Moves(ledger)
    BY DEF LedgerMoves
  <1>5. ASSUME Undelivered(d) \/ IsOpen(d) \/ d \in sending
        PROVE  Moves(MarkDeliveryFailed(d))
    <2>1. LedgerMoves(d, ledger[d], [ledger[d] EXCEPT !.failed = TRUE])
      BY <1>2, <1>3, <1>5 DEF LedgerMoves, LedgerRecord, Undelivered, Status, IsOpen
    <2>2. MarkDeliveryFailed(d) = [ledger EXCEPT ![d] = [ledger[d] EXCEPT !.failed = TRUE]]
      BY <1>0 DEF MarkDeliveryFailed
    <2> HIDE DEF Moves
    <2> QED BY <1>1, <2>1, <2>2
  <1>6. ASSUME Undelivered(d)
        PROVE  Moves(MarkSubmitted(d))
    <2> DEFINE m == [ledger[d] EXCEPT !.status = "submitted", !.failed = FALSE]
    <2>1. LedgerMoves(d, ledger[d], m)
      BY <1>2, <1>3, <1>6 DEF LedgerMoves, LedgerRecord, Undelivered, Status
    <2>2. MarkSubmitted(d) = [ledger EXCEPT ![d] = m]
      BY <1>0 DEF MarkSubmitted, LedgerRecord
    <2> HIDE DEF Moves, m
    <2> QED BY <1>1, <2>1, <2>2
  <1>7. ASSUME IsOpen(d)
        PROVE  Moves([ledger EXCEPT ![d].status = "cancelled", ![d].failed = FALSE])
    <2> DEFINE m == [ledger[d] EXCEPT !.status = "cancelled", !.failed = FALSE]
    <2>1. LedgerMoves(d, ledger[d], m)
      BY <1>3, <1>7 DEF LedgerMoves, LedgerRecord, IsOpen
    <2>2. [ledger EXCEPT ![d].status = "cancelled", ![d].failed = FALSE] = [ledger EXCEPT ![d] = m]
      BY <1>0 DEF LedgerRecord
    <2> HIDE DEF Moves, m
    <2> QED BY <1>1, <2>1, <2>2
  <1>8. ASSUME ledger[d].status # "none", Status(d) # "cancelled"
        PROVE  Moves(Reopened(d)) /\ Moves([Reopened(d) EXCEPT ![d].failed = TRUE])
    <2> DEFINE m == IF Status(d) = "reported"
                      THEN [ledger[d] EXCEPT !.status = "submitted"] ELSE ledger[d]
    <2>1. LedgerMoves(d, ledger[d], m) /\ LedgerMoves(d, ledger[d], [m EXCEPT !.failed = TRUE])
      BY <1>3, <1>8 DEF LedgerMoves, LedgerRecord, Status
    <2>2. Reopened(d) = [ledger EXCEPT ![d] = m]
      BY <1>0 DEF Reopened
    <2>3. [Reopened(d) EXCEPT ![d].failed = TRUE]
            = [ledger EXCEPT ![d] = [m EXCEPT !.failed = TRUE]]
      BY <1>0, <2>2
    <2> HIDE DEF Moves, m
    <2> QED BY <1>1, <2>1, <2>2, <2>3
  <1> QED BY <1>4, <1>5, <1>6, <1>7, <1>8

(* Every step creates a dispatch, records a report or is such a move.      *)
LEMMA LedgerSteps ==
  ASSUME Ordered, UncreatedIsQuiet, [Next]_vars, NEW d \in Dispatches
  PROVE  \/ CreateDispatch(d) \/ Reports(d)
         \/ LedgerMoves(d, ledger[d], ledger'[d]) /\ (d \in sending' => d \in sending)
  <1> DEFINE Moves(l) == \A c \in Dispatches : LedgerMoves(c, ledger[c], l[c])
  <1>0. ledger \in [Dispatches -> LedgerRecord]
    BY DEF Ordered, TypeOK
  <1>1. Moves(ledger)
    BY LedgerWritesMove
  <1>2. \A c \in Dispatches :
          /\ Undelivered(c) \/ IsOpen(c) \/ c \in sending => Moves(MarkDeliveryFailed(c))
          /\ Undelivered(c) => Moves(MarkSubmitted(c))
          /\ IsOpen(c) =>
               Moves([ledger EXCEPT ![c].status = "cancelled", ![c].failed = FALSE])
          /\ ledger[c].status # "none" /\ Status(c) # "cancelled" =>
               Moves(Reopened(c)) /\ Moves([Reopened(c) EXCEPT ![c].failed = TRUE])
    BY LedgerWritesMove
  <1>3. \A c : c \notin Dispatches => Moves(MarkDeliveryFailed(c)) /\ Moves(MarkSubmitted(c))
    BY <1>0, <1>1 DEF MarkDeliveryFailed, MarkSubmitted
  <1> HIDE DEF Moves
  <1>4. \A i : Moves(LedgerAfterFailure(i)) /\ Moves(LedgerAccepted(i))
    <2> SUFFICES ASSUME NEW i
                 PROVE  Moves(LedgerAfterFailure(i)) /\ Moves(LedgerAccepted(i))
      OBVIOUS
    <2> QED BY <1>1, <1>2, <1>3 DEF LedgerAfterFailure, LedgerAccepted
  <1>5. CASE UNCHANGED vars
    BY <1>1, <1>5 DEF Moves, vars, persistent, memory
  <1>6. ASSUME NEW i \in RowIds, Attempting(i)
        PROVE  Moves(ledger') /\ sending' \subseteq sending
    <2>1. ledger' = ledger \/ ledger' = LedgerAfterFailure(i) \/ ledger' = LedgerAccepted(i)
      BY <1>6
         DEF Attempting, Deliver, WriteInput, WriteRejected, CrashBeforeWrite, PressEnter,
             CompleteNative, CompletePty, AttemptFails, AttemptNeedsReview, AttemptDropped,
             Recheck, Journal, HandledByUser, ResendByUser, Restarted, FailAttempt,
             PersistAccepted, persistent
    <2>2. sending' \subseteq sending
      BY <1>6
         DEF Attempting, Deliver, WriteInput, WriteRejected, CrashBeforeWrite, PressEnter,
             CompleteNative, CompletePty, AttemptFails, AttemptNeedsReview, AttemptDropped,
             Recheck, Journal, HandledByUser, ResendByUser, Restarted, memory
    <2> QED BY <1>1, <1>4, <2>1, <2>2
  <1>7. ASSUME NEW c \in Dispatches, Dispatching(c), ~CreateDispatch(c), ~Reports(c)
        PROVE  Moves(ledger') /\ sending' \subseteq sending
    <2>1. sending' \subseteq sending
      BY <1>7
         DEF Dispatching, Reports, StartAwaited, StartFailed, Acknowledge,
             ConfirmCancellation, PostMessage, Feedback, Cancel, memory
    <2>2. CASE StartFailed(c)
      BY <1>2, <2>1, <2>2 DEF StartFailed
    <2>3. CASE Feedback(c) \/ Cancel(c)
      BY <1>2, <2>1, <2>3 DEF Feedback, Cancel
    <2>4. CASE Acknowledge(c)
      BY <1>4, <2>1, <2>4 DEF Acknowledge, PersistAccepted
    <2>5. CASE ledger' = ledger
      BY <1>1, <2>1, <2>5
    <2> QED BY <1>7, <2>2, <2>3, <2>4, <2>5
            DEF Dispatching, Reports, StartAwaited, ConfirmCancellation, PostMessage, persistent
  <1>8. ASSUME NEW c \in Dispatches, CreateDispatch(c) \/ Reports(c), c # d
        PROVE  ledger'[d] = ledger[d] /\ (d \in sending' => d \in sending)
    BY <1>0, <1>8 DEF CreateDispatch, Reports, ReportQueued, ReportIgnored, MarkReported
  <1>9. ASSUME NEW a \in Agents, RunOf(a)
        PROVE  Moves(ledger') /\ sending' \subseteq sending
    BY <1>1, <1>9 DEF RunOf, StartRun, ExitRun, ManualStop, persistent, memory
  <1>10. ASSUME NEW w \in Workers, Launching(w)
         PROVE  Moves(ledger') /\ sending' \subseteq sending
    <2>1. sending' = sending
      BY <1>10 DEF Launching, PrepareInitial, ClaimInitial, SpawnInitial, Launched, LaunchFails
    <2>2. ledger' = ledger \/ \E c : /\ ledger' = MarkDeliveryFailed(c)
                                     /\ Undelivered(c)
      BY <1>10 DEF Launching, PrepareInitial, ClaimInitial, SpawnInitial, Launched, LaunchFails,
                   persistent
    <2> QED BY <1>1, <1>2, <1>3, <2>1, <2>2
  <1>11. CASE Close \/ Restart
    BY <1>1, <1>11 DEF Moves, Close, Restart, Restarted, persistent
  <1>12. Moves(ledger') /\ sending' \subseteq sending =>
           LedgerMoves(d, ledger[d], ledger'[d]) /\ (d \in sending' => d \in sending)
    BY DEF Moves
  <1> QED BY <1>5, <1>6, <1>7, <1>8, <1>9, <1>10, <1>11, <1>12 DEF Next, LedgerMoves

(* The ledger keeps the rows that carry its dispatches.                    *)
LEMMA LedgerStaysSound ==
  ASSUME Ordered, WritesSound, [Next]_vars, RowsStay(deliveries, deliveries')
  PROVE  DispatchesHaveRows' /\ UncreatedIsQuiet'
  <1> SUFFICES ASSUME NEW d \in Dispatches
               PROVE  /\ LedgerSound(deliveries', d, ledger'[d])
                      /\ ledger'[d].status = "none" => ~ledger'[d].failed /\ d \notin sending'
    BY DEF DispatchesHaveRows, UncreatedIsQuiet
  <1>1. /\ LedgerSound(deliveries, d, ledger[d])
        /\ ledger[d].status = "none" => ~ledger[d].failed /\ d \notin sending
        /\ ledger \in [Dispatches -> LedgerRecord]
    BY DEF WritesSound, DispatchesHaveRows, UncreatedIsQuiet, Ordered, TypeOK
  <1>2. CASE LedgerMoves(d, ledger[d], ledger'[d]) /\ (d \in sending' => d \in sending)
    BY <1>1, <1>2 DEF LedgerMoves, LedgerSound, RowsStay
  <1>3. CASE Reports(d)
    <2>1. /\ ledger[d].status # "none" /\ ledger'[d].status = "reported"
          /\ ledger'[d].row = ledger[d].row
      BY <1>1, <1>3 DEF Reports, ReportQueued, ReportIgnored, CanReport, IsOpen, MarkReported,
                        LedgerRecord
    <2> QED BY <1>1, <2>1 DEF LedgerSound, RowsStay
  <1>4. CASE CreateDispatch(d)
    <2>1. PICK n \in RowIds :
            /\ deliveries' = Insert(deliveries, n, "dispatch", d, Assignee[d])
            /\ ledger' = [ledger EXCEPT ![d] = [status |-> "queued", failed |-> FALSE,
                                                revision |-> 0, row |-> n]]
      BY <1>4 DEF CreateDispatch
    <2>2. ledger'[d].status = "queued" /\ ledger'[d].row = n
      BY <1>1, <2>1
    <2>3. deliveries'[n] = NewDelivery("dispatch", d, Assignee[d])
      BY <2>1, InsertedRow DEF Ordered, TypeOK, Table
    <2> QED BY <2>2, <2>3 DEF LedgerSound, NewDelivery, NoDelivery
  <1> QED BY <1>2, <1>3, <1>4, LedgerSteps DEF WritesSound

(* Nothing was written before the first step.                              *)
LEMMA InitWritesSound ==
  ASSUME Init
  PROVE  WritesSound
  <1>1. RowsSound /\ AttemptsSound /\ WrittenInOrder(deliveries) /\ AttemptingRowsAreOwned
    BY DEF Init, NoDelivery, NoAttempt, RowsSound, RowSound, AttemptsSound, AttemptSound,
           WrittenInOrder, AttemptingRowsAreOwned
  <1>2. LaunchesSound /\ LaunchesWait
    BY DEF Init, NotStarting, LaunchesSound, LaunchSound, LaunchesWait
  <1>3. DispatchesHaveRows /\ UncreatedIsQuiet
    BY DEF Init, DispatchesHaveRows, LedgerSound, UncreatedIsQuiet
  <1> QED BY <1>1, <1>2, <1>3 DEF WritesSound

(* Every step leaves the rows, the attempts and the launches sound.        *)
LEMMA StepStaysSound ==
  ASSUME Ordered, WritesSound, [Next]_vars
  PROVE  StaysSound
  <1>1. Ordered'
    BY OrderedIsInductive
  <1>2. CASE UNCHANGED vars \/ Close \/ \E a \in Agents : RunOf(a)
    BY <1>2, QuietOnlySettles, SettlingKeepsSound
  <1>3. ASSUME NEW i \in RowIds, Attempting(i)
        PROVE  StaysSound
    BY <1>1, <1>3, AttemptKeepsSound, CrashKeepsSound
  <1>4. ASSUME NEW d \in Dispatches, Dispatching(d)
        PROVE  StaysSound
    BY <1>4, DispatchOnlySettles, SettlingKeepsSound
  <1> QED BY <1>1, <1>2, <1>3, <1>4, LaunchKeepsSound, CrashKeepsSound DEF Next

(* The inductive invariant of this module.                                 *)
LEMMA WritesSoundIsInductive ==
  ASSUME Ordered, WritesSound, [Next]_vars
  PROVE  WritesSound'
  BY StepStaysSound, LaunchesStillWait, LedgerStaysSound DEF StaysSound, WritesSound

(* The inductive invariant of the writes holds in every behaviour.         *)
THEOREM AlwaysWritesSound == Spec => []WritesSound
  <1>1. Init => WritesSound
    BY InitWritesSound
  <1>2. Ordered /\ WritesSound /\ [Next]_vars => WritesSound'
    BY WritesSoundIsInductive
  <1> QED BY <1>1, <1>2, AlwaysOrdered, PTL DEF Spec

(* Until a person asks for another copy, a message reaches a terminal at   *)
(* most once.                                                              *)
THEOREM NoSecondCopy == Spec => []AtMostOneCopy
  <1>1. WritesSound => AtMostOneCopy
    BY DEF WritesSound, RowsSound, RowSound, AtMostOneCopy
  <1> QED BY <1>1, AlwaysWritesSound, PTL

(* What may be claimed again was never written.                            *)
THEOREM UncertainWritesAreNotRetried == Spec => []RetriesAreUnwritten
  <1>1. WritesSound => RetriesAreUnwritten
    BY DEF WritesSound, RowsSound, RowSound, RetriesAreUnwritten
  <1> QED BY <1>1, AlwaysWritesSound, PTL

(* A claimed row has somebody in this process who will release it.         *)
THEOREM NoRowIsOrphaned == Spec => []AttemptingRowsAreOwned
  <1>1. WritesSound => AttemptingRowsAreOwned
    BY DEF WritesSound
  <1> QED BY <1>1, AlwaysWritesSound, PTL

(* No message reaches a recipient before an earlier one is settled.        *)
THEOREM NoMessageOvertakes == Spec => []DeliveredInOrder
  <1>1. WritesSound => DeliveredInOrder
    BY DEF WritesSound, RowsSound, RowSound, WrittenInOrder, DeliveredInOrder
  <1> QED BY <1>1, AlwaysWritesSound, PTL

-----------------------------------------------------------------------------
(* Delivery implements ComposerLane: what each kind of step is there.      *)
LEMMA SettlingSettles ==
  ASSUME OnlySettles
  PROVE  Lane!Next
  <1>0. \A s : Place(s) \in Lane!Places
    BY DEF Place, Lane!Places
  <1>1. ASSUME NEW i \in RowIds, SettlesRow(deliveries[i], deliveries'[i])
        PROVE  /\ Place(deliveries'[i].state) # Place(deliveries[i].state) =>
                    /\ Place(deliveries[i].state) \in {"waiting", "holding"}
                    /\ Place(deliveries'[i].state) = "settled"
               /\ deliveries'[i].recipient = deliveries[i].recipient
    BY <1>1 DEF SettlesRow, Place, Settled, Fencing
  <1>2. CASE Settles(deliveries, deliveries')
    <2>1. Lane!Settle
      BY <1>0, <1>1, <1>2 DEF Settles, OnlySettles, Lane!Settle, Lane!SettledOrKept
    <2> QED BY <2>1 DEF Lane!Next
  <1>3. ASSUME NEW n \in RowIds, SendsRow(deliveries, deliveries', n)
        PROVE  Lane!Next
    <2>1. PICK r \in Agents : deliveries'[n].recipient = r /\ deliveries'[n].state = "pending"
      BY <1>3, SentFields
    <2>2. /\ deliveries[n].state = "absent"
          /\ \A m \in RowIds : m < n => deliveries[m].state # "absent"
          /\ \A m \in RowIds \ {n} : SettlesRow(deliveries[m], deliveries'[m])
      BY <1>3 DEF SendsRow, RowIds
    <2>3. Lane!Send(n, r)
      BY <1>0, <1>1, <2>1, <2>2 DEF OnlySettles, Lane!Send, Lane!SettledOrKept, Place
    <2> QED BY <2>3 DEF Lane!Next
  <1> QED BY <1>2, <1>3 DEF OnlySettles, Settling

(* One row is settled, keeps its place, or goes back without a copy.       *)
LEMMA RowKeepsTheLane ==
  ASSUME NEW i \in RowIds, Changes(deliveries, deliveries', i), UNCHANGED copies,
         \/ Place(deliveries'[i].state) = Place(deliveries[i].state)
         \/ /\ Place(deliveries[i].state) \in {"waiting", "holding"}
            /\ Place(deliveries'[i].state) = "settled"
         \/ /\ Place(deliveries[i].state) = "holding" /\ copies[i] = 0
            /\ Place(deliveries'[i].state) = "waiting"
  PROVE  Lane!Next
  <1>0. \A s : Place(s) \in Lane!Places
    BY DEF Place, Lane!Places
  <1>1. \A j \in RowIds : deliveries'[j].recipient = deliveries[j].recipient
    BY DEF Changes
  <1>2. \A j \in RowIds \ {i} : deliveries'[j].state = deliveries[j].state
    BY DEF Changes
  <1>3. CASE \/ Place(deliveries'[i].state) = Place(deliveries[i].state)
             \/ /\ Place(deliveries[i].state) \in {"waiting", "holding"}
                /\ Place(deliveries'[i].state) = "settled"
    <2>1. Lane!Settle
      BY <1>0, <1>1, <1>2, <1>3 DEF Lane!Settle, Lane!SettledOrKept
    <2> QED BY <2>1 DEF Lane!Next
  <1>4. CASE /\ Place(deliveries[i].state) = "holding" /\ copies[i] = 0
             /\ Place(deliveries'[i].state) = "waiting"
    <2>1. Lane!GiveBack
      BY <1>0, <1>1, <1>2, <1>4 DEF Lane!GiveBack
    <2> QED BY <2>1 DEF Lane!Next
  <1> QED BY <1>3, <1>4

(* The head of a lane is claimed.                                          *)
LEMMA ClaimsTakeTheLane ==
  ASSUME Ordered, NEW i \in RowIds, CanClaim(deliveries, i), UNCHANGED copies,
         Changes(deliveries, deliveries', i), deliveries'[i].state = "attempting"
  PROVE  Lane!Next
  <1>1. \A j \in RowIds : deliveries'[j].recipient = deliveries[j].recipient
    BY DEF Changes
  <1>2. \A j \in RowIds \ {i} : deliveries'[j].state = deliveries[j].state
    BY DEF Changes
  <1>3. Place(deliveries[i].state) = "waiting" /\ Place(deliveries'[i].state) = "holding"
    BY DEF CanClaim, Place, Fencing
  <1>4. ASSUME NEW j \in RowIds \ {i}, deliveries[j].recipient = deliveries[i].recipient
        PROVE  /\ Place(deliveries[j].state) # "holding"
               /\ j < i => Place(deliveries[j].state) = "settled"
    <2>1. deliveries[j].state \notin Fencing /\ ~(deliveries[j].state = "pending" /\ j < i)
      BY <1>4 DEF CanClaim, Unblocked
    <2>2. j < i => deliveries[j].state # "absent"
      BY DEF CanClaim, Ordered, InOrder, NoGaps
    <2> QED BY <2>1, <2>2 DEF Place
  <1>5. Lane!Take(i)
    BY <1>1, <1>2, <1>3, <1>4 DEF Lane!Take, Lane!SameLane
  <1> QED BY <1>5 DEF Lane!Next

(* The holder is put into its terminal.                                    *)
LEMMA CopiesShowInTheLane ==
  ASSUME NEW i \in RowIds, deliveries[i].state \in Fencing, copies[i] = 0,
         copies \in [RowIds -> Nat], copies' = [copies EXCEPT ![i] = @ + 1],
         \A j \in RowIds : /\ deliveries'[j].recipient = deliveries[j].recipient
                           /\ deliveries'[j].state = deliveries[j].state
  PROVE  Lane!Next
  <1>1. copies'[i] = 1 /\ \A j \in RowIds \ {i} : copies'[j] = copies[j]
    OBVIOUS
  <1>2. Place(deliveries[i].state) = "holding"
    BY DEF Place, Fencing
  <1>3. {j \in RowIds : copies'[j] > 0} = {j \in RowIds : copies[j] > 0} \cup {i}
    BY <1>1
  <1>4. Lane!Show(i)
    BY <1>2, <1>3 DEF Lane!Show
  <1> QED BY <1>4 DEF Lane!Next

(* An attempt that ends gives its row back only if it wrote nothing.       *)
LEMMA FailuresKeepTheLane ==
  ASSUME Ordered, WritesSound, NEW i \in RowIds, UNCHANGED copies, NEW terminal, NEW attempt,
         \/ deliveries' = Failed(deliveries, i, attempt, terminal)
         \/ /\ Owned(i) /\ attempt = active[i].attempt
            /\ deliveries' = Failed(WriteIntent(i), i, attempt, terminal)
  PROVE  Lane!Next
  <1>0. deliveries \in Table /\ WriteIntent(i) \in Table
    BY RowType DEF Ordered, TypeOK, Table, WriteIntent
  <1>1. RowSound(deliveries[i], copies[i])
    BY DEF WritesSound, RowsSound
  <1>2. CASE deliveries' = deliveries
    BY <1>2, RowKeepsTheLane DEF Changes
  <1>3. CASE deliveries' = Failed(deliveries, i, attempt, terminal)
             /\ OwnsAttempt(deliveries, i, attempt)
    <2>1. /\ Sets(deliveries, deliveries', i, deliveries'[i].state)
          /\ deliveries[i].write_started => deliveries'[i].state = "unknown"
          /\ ~deliveries[i].write_started =>
               deliveries'[i].state \in {"pending", "manual", "resolved"}
          /\ deliveries[i].state = "attempting"
      BY <1>0, <1>3, FailedRow DEF OwnsAttempt
    <2>2. ~deliveries[i].write_started => copies[i] = 0
      BY <1>1 DEF RowSound
    <2> QED BY <2>1, <2>2, RowKeepsTheLane DEF Sets, Place, Fencing
  <1>4. CASE /\ Owned(i) /\ attempt = active[i].attempt
             /\ deliveries' = Failed(WriteIntent(i), i, attempt, terminal)
    <2>1. Marks(deliveries, WriteIntent(i), i)
      BY <1>0, RowTransactions DEF WriteIntent
    <2>2. Sets(WriteIntent(i), deliveries', i, "unknown")
      BY <1>0, <1>4, <2>1, FailedRow DEF Owned, OwnsAttempt, Marks
    <2>3. Changes(deliveries, deliveries', i) /\ deliveries'[i].state = "unknown"
          /\ deliveries[i].state = "attempting"
      BY <1>4, <2>1, <2>2 DEF Sets, Marks, Changes, Owned, OwnsAttempt
    <2> QED BY <2>3, RowKeepsTheLane DEF Place, Fencing
  <1> QED BY <1>0, <1>2, <1>3, <1>4, FailedRow

(* The steps of an attempt are steps of the lane.                          *)
LEMMA AttemptKeepsTheLane ==
  ASSUME Ordered, WritesSound, NEW i \in RowIds, Attempting(i), ~CrashBeforeWrite(i)
  PROVE  Lane!Next
  <1>0. deliveries \in Table /\ copies \in [RowIds -> Nat]
    BY DEF Ordered, TypeOK, Table
  <1>1. RowSound(deliveries[i], copies[i]) /\ AttemptSound(deliveries[i], active[i])
    BY DEF WritesSound, RowsSound, AttemptsSound
  <1>2. CASE Deliver(i)
    BY <1>0, <1>2, RowTransactions, ClaimsTakeTheLane DEF Deliver, history
  <1>3. CASE WriteInput(i)
    <2>1. Marks(deliveries, deliveries', i)
      BY <1>0, <1>3, RowTransactions DEF WriteInput, WriteIntent
    <2>2. /\ deliveries[i].state = "attempting" /\ copies[i] = 0
          /\ copies' = [copies EXCEPT ![i] = @ + 1]
      BY <1>1, <1>3 DEF WriteInput, CanWrite, Owned, OwnsAttempt, RowSound, AttemptSound
    <2> QED BY <1>0, <2>1, <2>2, CopiesShowInTheLane DEF Marks, Changes, Fencing
  <1>4. CASE WriteRejected(i)
    BY <1>4, FailuresKeepTheLane DEF WriteRejected, FailAttempt, CanWrite, history
  <1>5. CASE PressEnter(i)
    <2>1. Marks(deliveries, deliveries', i)
      BY <1>0, <1>5, RowTransactions DEF PressEnter
    <2> QED BY <1>5, <2>1, RowKeepsTheLane DEF PressEnter, history, Marks
  <1>6. CASE CompleteNative(i) \/ CompletePty(i)
    <2>1. \E s \in {"confirmed", "unknown"} : Sets(deliveries, deliveries', i, s)
      BY <1>0, <1>6, RowTransactions DEF CompleteNative, CompletePty, Submitted
    <2>2. deliveries[i].state = "attempting" /\ UNCHANGED copies
      BY <1>6 DEF CompleteNative, CompletePty, Owned, OwnsAttempt, history
    <2> QED BY <2>1, <2>2, RowKeepsTheLane DEF Sets, Place, Fencing
  <1>7. CASE AttemptFails(i) \/ AttemptNeedsReview(i) \/ AttemptDropped(i)
    BY <1>7, FailuresKeepTheLane
       DEF AttemptFails, AttemptNeedsReview, AttemptDropped, FailAttempt, history
  <1>8. CASE Recheck(i) \/ Journal(i) \/ HandledByUser(i)
    BY <1>8, AnswersOnlySettle, SettlingSettles
  <1>9. CASE ResendByUser(i)
    <2>1. /\ Changes(deliveries, deliveries', i)
          /\ deliveries'[i].state = "pending"
          /\ deliveries[i].state \in {"pending", "unknown", "manual"}
          /\ copies' = [copies EXCEPT ![i] = 0]
      BY <1>0, <1>9, RowTransactions DEF ResendByUser, CanResolve
    <2>2. {j \in RowIds : copies'[j] > 0} = {j \in RowIds : copies[j] > 0} \ {i}
      BY <1>0, <2>1
    <2>3. \A j \in RowIds : deliveries'[j].recipient = deliveries[j].recipient
      BY <2>1 DEF Changes
    <2>4. \A j \in RowIds \ {i} : deliveries'[j].state = deliveries[j].state
      BY <2>1 DEF Changes
    <2>5. Lane!Resend(i)
      BY <2>1, <2>2, <2>3, <2>4 DEF Lane!Resend, Place, Fencing
    <2> QED BY <2>5 DEF Lane!Next
  <1> QED BY <1>2, <1>3, <1>4, <1>5, <1>6, <1>7, <1>8, <1>9 DEF Attempting

(* The steps of a launch are steps of the lane.                            *)
LEMMA LaunchKeepsTheLane ==
  ASSUME Ordered, WritesSound, NEW w \in Workers, Launching(w)
  PROVE  Lane!Next
  <1>i. PICK i : i = starting[w].row
    OBVIOUS
  <1> USE <1>i
  <1>0. /\ deliveries \in Table /\ copies \in [RowIds -> Nat]
        /\ starting[w].phase # "none" => i \in RowIds
    BY DEF Ordered, TypeOK, Table, Starting, NotStarting
  <1>1. LaunchSound(w, starting[w], deliveries[i], active[i], copies[i])
    BY DEF WritesSound, LaunchesSound
  <1>2. deliveries' = deliveries /\ UNCHANGED copies => Lane!Next
    <2>1. deliveries' = deliveries /\ UNCHANGED copies => Lane!Settle
      BY DEF Lane!Settle, Lane!SettledOrKept, Place, Lane!Places
    <2> QED BY <2>1 DEF Lane!Next
  <1>3. CASE PrepareInitial(w)
    BY <1>2, <1>3 DEF PrepareInitial, history
  <1>4. CASE ClaimInitial(w)
    <2> DEFINE claimed == Claim(deliveries, i)
    <2>1. /\ i \in RowIds /\ CanClaim(deliveries, i) /\ UNCHANGED copies
          /\ deliveries' = SaveCheckpoint(claimed, i)
      BY <1>0, <1>4 DEF ClaimInitial, history
    <2>2. claimed \in Table
      BY <1>0, <2>1, RowType
    <2>3. Changes(deliveries, claimed, i) /\ claimed[i].state = "attempting"
      BY <1>0, <2>1, RowTransactions
    <2>4. Marks(claimed, deliveries', i)
      BY <2>1, <2>2, RowTransactions
    <2> HIDE DEF claimed
    <2>5. Changes(deliveries, deliveries', i) /\ deliveries'[i].state = "attempting"
      BY <2>3, <2>4 DEF Marks, Changes
    <2> QED BY <2>1, <2>5, ClaimsTakeTheLane
  <1>5. CASE SpawnInitial(w)
    BY <1>0, <1>1, <1>5, CopiesShowInTheLane DEF SpawnInitial, persistent, LaunchSound, Fencing
  <1>6. CASE Launched(w)
    <2>1. /\ i \in RowIds /\ UNCHANGED copies /\ starting[w].phase = "spawned"
          /\ deliveries' = AwaitingReceipt(deliveries, i)
      BY <1>0, <1>6 DEF Launched, history
    <2>2. CASE deliveries[i].state \in Settled
      BY <1>2, <2>1, <2>2 DEF AwaitingReceipt
    <2>3. CASE deliveries[i].state \notin Settled
      <3>1. deliveries[i].state = "attempting"
        BY <1>1, <2>1, <2>3 DEF LaunchSound
      <3>2. Sets(deliveries, deliveries', i, "unknown")
        BY <1>0, <2>1, <2>3, RowTransactions DEF AwaitingReceipt
      <3> QED BY <2>1, <3>1, <3>2, RowKeepsTheLane DEF Sets, Place, Fencing
    <2> QED BY <2>2, <2>3
  <1>7. CASE LaunchFails(w)
    BY <1>0, <1>2, <1>7, FailuresKeepTheLane DEF LaunchFails, history
  <1> QED BY <1>3, <1>4, <1>5, <1>6, <1>7 DEF Launching

(* A crash gives back what was claimed and not written.                    *)
LEMMA CrashKeepsTheLane ==
  ASSUME Ordered, WritesSound, Restart \/ \E i \in RowIds : CrashBeforeWrite(i)
  PROVE  Lane!Next
  <1>0. deliveries \in Table
    BY DEF Ordered, TypeOK, Table
  <1>1. PICK t \in Table :
          /\ Restarted(t)
          /\ t = deliveries \/ \E i \in RowIds : Marks(deliveries, t, i)
    <2>1. ASSUME NEW i \in RowIds, CrashBeforeWrite(i)
          PROVE  /\ Restarted(WriteIntent(i)) /\ WriteIntent(i) \in Table
                 /\ Marks(deliveries, WriteIntent(i), i)
      BY <1>0, <2>1, RowType, RowTransactions DEF CrashBeforeWrite, WriteIntent
    <2> QED BY <1>0, <2>1 DEF Restart
  <1>2. ASSUME NEW j \in RowIds
        PROVE  /\ t[j].recipient = deliveries[j].recipient /\ t[j].state = deliveries[j].state
               /\ ~t[j].write_started => copies[j] = 0
    BY <1>1 DEF Marks, Changes, WritesSound, RowsSound, RowSound
  <1>3. ASSUME NEW j \in RowIds
        PROVE  /\ deliveries'[j].recipient = t[j].recipient
               /\ \/ deliveries'[j].state = t[j].state
                  \/ t[j].state = "attempting" /\ deliveries'[j].state = "unknown"
                  \/ /\ t[j].state = "attempting" /\ deliveries'[j].state = "pending"
                     /\ ~t[j].write_started
    BY <1>1 DEF Restarted, Recover, Table, DeliveryRecord
  <1>4. UNCHANGED copies
    BY <1>1 DEF Restarted
  <1>5. ASSUME NEW j \in RowIds
        PROVE  \/ Place(deliveries'[j].state) = Place(deliveries[j].state)
               \/ /\ Place(deliveries[j].state) = "holding" /\ copies[j] = 0
                  /\ Place(deliveries'[j].state) = "waiting"
    BY <1>2, <1>3 DEF Place, Fencing
  <1>6. \A s : Place(s) \in Lane!Places
    BY DEF Place, Lane!Places
  <1>7. Lane!GiveBack
    BY <1>2, <1>3, <1>4, <1>5, <1>6 DEF Lane!GiveBack
  <1> QED BY <1>7 DEF Lane!Next

(* Every step of the delivery is a step of the lane or a stutter.          *)
LEMMA StepKeepsTheLane ==
  ASSUME Ordered, WritesSound, [Next]_vars
  PROVE  [Lane!Next]_(Lane!vars)
  <1>1. CASE UNCHANGED vars \/ Close \/ \E a \in Agents : RunOf(a)
    BY <1>1, QuietOnlySettles, SettlingSettles
  <1>2. ASSUME NEW i \in RowIds, Attempting(i)
        PROVE  Lane!Next
    BY <1>2, AttemptKeepsTheLane, CrashKeepsTheLane
  <1>3. ASSUME NEW d \in Dispatches, Dispatching(d)
        PROVE  Lane!Next
    BY <1>3, DispatchOnlySettles, SettlingSettles
  <1> QED BY <1>1, <1>2, <1>3, LaunchKeepsTheLane, CrashKeepsTheLane DEF Next

(* Every behaviour of the delivery is one of the lane: one message at a    *)
(* time holds a composer, in order, and it is shown once per request.      *)
THEOREM DeliveryKeepsTheLane == Spec => KeepsTheLane
  <1>1. Init => Lane!Init
    BY DEF Init, Lane!Init, NoDelivery, Place
  <1>2. Ordered /\ WritesSound /\ [Next]_vars => [Lane!Next]_(Lane!vars)
    BY StepKeepsTheLane
  <1> QED BY <1>1, <1>2, AlwaysOrdered, AlwaysWritesSound, PTL DEF Spec, KeepsTheLane, Lane!Spec
=============================================================================
