------------------------ MODULE ResourceAdmissionProofs ------------------------
(***************************************************************************)
(* What holds of the admission of processes whatever the agents,           *)
(* workspaces, limits and bounds: its types, that whatever lives holds a   *)
(* slot, that no agent runs twice, and that the limits hold over all       *)
(* instances of the server.                                                *)
(*                                                                         *)
(* The inductive invariant is IInv.  Most steps only let rows follow their *)
(* processes (Follows): a row is blocked, or released when nothing lives   *)
(* on it.  What is left is the reservation of a row, the spawn in it, the  *)
(* registration of the start and the return of a slot from a preparation   *)
(* to its launch.                                                          *)
(***************************************************************************)
EXTENDS ResourceAdmission, FiniteSetTheorems, SequenceTheorems,
        WellFoundedInduction, TLAPS

Legacy == Len(LegacyRuns)

Table == {t \in Seq(Reservation) : Len(t) <= MaxRows}
Processes == {pr \in Seq(Process) : Len(pr) <= MaxProcs}

RowsSound(t) ==
  /\ Legacy <= Len(t)
  /\ \A i \in 1..Legacy : t[i].state \in {"recovery_blocked", "released"}
  /\ \A i \in DOMAIN t : t[i].state = "reserved" => t[i].pid = 0
  /\ \A i, j \in DOMAIN t :
       /\ i # j /\ t[i].agent = t[j].agent
       /\ t[i].state # "released" /\ t[j].state # "released"
       => i <= Legacy

(* A living process counts, and the pid of its row is its own if known. *)
ProcessSound(t, pr, p) ==
  LET r == t[pr[p].row]
  IN /\ pr[p].row \in DOMAIN t /\ r.agent = pr[p].agent
     /\ pr[p].kind # "legacy" => pr[p].row > Legacy
     /\ pr[p].kind = "pty" => r.state # "reserved"
     /\ pr[p].exit # "no" => ~pr[p].alive
     /\ pr[p].alive => r.state \notin {"reserved", "released"} /\ r.pid \in {0, p}

(* A process follows on dead ones in its slot, and none follows a terminal. *)
SlotsAreReused(pr) ==
  \A p, q \in DOMAIN pr :
    p < q /\ pr[p].row = pr[q].row => ~pr[p].alive /\ pr[p].kind # "pty"

(* A launch works on a row of its agent, with the last process of the row. *)
LaunchSound(t, pr, l, a) ==
  l.phase # "none" =>
    /\ l.row \in DOMAIN t /\ t[l.row].agent = a
    /\ l.phase # "preparing" =>
         /\ l.proc \in DOMAIN pr /\ pr[l.proc].row = l.row
         /\ \A q \in DOMAIN pr : q > l.proc => pr[q].row # l.row
         /\ l.phase = "helping" => pr[l.proc].kind = "helper"

Sound(t, pr, l) ==
  /\ RowsSound(t)
  /\ \A p \in DOMAIN pr : ProcessSound(t, pr, p)
  /\ SlotsAreReused(pr)
  /\ \A a \in Agents : LaunchSound(t, pr, l[a], a)

(* Rows that reserve made; adopted ones were never admitted. *)
Admitted(t) == {i \in Active(t) : i > Legacy}
AdmittedIn(t, w) == {i \in Admitted(t) : WorkspaceOf[t[i].agent] = w}

Counted(t, lim, top) ==
  /\ lim.total <= top.total /\ lim.workspace <= top.workspace
  /\ Cardinality(Admitted(t)) <= top.total
  /\ \A w \in Workspaces : Cardinality(AdmittedIn(t, w)) <= top.workspace

Dead(pr, i) == \A p \in DOMAIN pr : pr[p].row = i => ~pr[p].alive

(* Row i was c and is b: it is blocked, or released if nothing lives on it. *)
RowFollows(c, b, pr, i) ==
  /\ b.agent = c.agent /\ b.pid = c.pid
  /\ \/ b.state = c.state
     \/ b.state = "recovery_blocked" /\ c.state # "released"
     \/ b.state = "released" /\ (c.state = "reserved" \/ Dead(pr, i))

Follows(t, u, pr) ==
  /\ u \in Table /\ Len(u) = Len(t)
  /\ \A i \in 1..Len(t) : RowFollows(t[i], u[i], pr, i)

-----------------------------------------------------------------------------
(* The table.                                                              *)

LEMMA TableRows ==
  ASSUME NEW t \in Table
  PROVE  /\ Len(t) \in Nat /\ Len(t) <= MaxRows /\ DOMAIN t = 1..Len(t)
         /\ \A i \in 1..Len(t) : t[i] \in Reservation
         /\ t \in Seq(Reservation)
  BY LenProperties, ElementOfSeq DEF Table

(* Rows that are changed one by one stay a table.                          *)
LEMMA RowsType ==
  ASSUME NEW t \in Table, NEW u \in [DOMAIN t -> Reservation]
  PROVE  u \in Table /\ Len(u) = Len(t)
  <1>1. Len(t) \in Nat /\ DOMAIN t = 1..Len(t) /\ Len(t) <= MaxRows
    BY TableRows
  <1>2. u \in Seq(Reservation)
    BY <1>1, SeqDef
  <1>3. Len(u) = Len(t)
    BY <1>1, <1>2, LenProperties
  <1> QED BY <1>1, <1>2, <1>3 DEF Table

(* A change of one row. *)
LEMMA RowType ==
  ASSUME NEW t \in Table, NEW i, NEW r,
         i \in DOMAIN t => r \in Reservation
  PROVE  /\ [t EXCEPT ![i] = r] \in Table
         /\ Len([t EXCEPT ![i] = r]) = Len(t)
         /\ \A j \in 1..Len(t) : [t EXCEPT ![i] = r][j] = IF j = i THEN r ELSE t[j]
  <1> DEFINE u == [t EXCEPT ![i] = r]
  <1>1. DOMAIN u = DOMAIN t /\ DOMAIN t = 1..Len(t)
    BY TableRows
  <1>2. \A j \in DOMAIN t : u[j] = IF j = i THEN r ELSE t[j]
    OBVIOUS
  <1>3. u \in [DOMAIN t -> Reservation]
    BY <1>1, <1>2, TableRows
  <1> QED BY <1>1, <1>2, <1>3, RowsType

LEMMA OneRowFollows ==
  ASSUME NEW t \in Table, NEW i, NEW r, NEW pr,
         i \in DOMAIN t => r \in Reservation /\ RowFollows(t[i], r, pr, i)
  PROVE  Follows(t, [t EXCEPT ![i] = r], pr)
  <1>1. \A j \in 1..Len(t) : RowFollows(t[j], t[j], pr, j)
    BY DEF RowFollows
  <1>2. DOMAIN t = 1..Len(t)
    BY TableRows
  <1> QED BY <1>1, <1>2, RowType DEF Follows

LEMMA ReservationFields ==
  ASSUME NEW r \in Reservation, NEW s \in RowStates, NEW c \in BOOLEAN
  PROVE  /\ [r EXCEPT !.state = s] \in Reservation
         /\ [r EXCEPT !.state = s].agent = r.agent
         /\ [r EXCEPT !.state = s].pid = r.pid
         /\ [r EXCEPT !.state = s].state = s
         /\ [r EXCEPT !.confirmed = c, !.state = s] \in Reservation
         /\ [r EXCEPT !.confirmed = c, !.state = s].agent = r.agent
         /\ [r EXCEPT !.confirmed = c, !.state = s].pid = r.pid
         /\ [r EXCEPT !.confirmed = c, !.state = s].state = s
         /\ [r EXCEPT !.state = s, !.confirmed = c] \in Reservation
         /\ [r EXCEPT !.state = s, !.confirmed = c].agent = r.agent
         /\ [r EXCEPT !.state = s, !.confirmed = c].pid = r.pid
         /\ [r EXCEPT !.state = s, !.confirmed = c].state = s
  BY DEF Reservation

LEMMA FollowsItself ==
  ASSUME NEW t \in Table, NEW pr
  PROVE  Follows(t, t, pr)
  BY DEF Follows, RowFollows

LEMMA FollowsTransitive ==
  ASSUME NEW t \in Table, NEW u, NEW v, NEW pr,
         Follows(t, u, pr), Follows(u, v, pr)
  PROVE  Follows(t, v, pr)
  <1>1. ASSUME NEW i \in 1..Len(t) PROVE RowFollows(t[i], v[i], pr, i)
    <2>1. RowFollows(t[i], u[i], pr, i) /\ RowFollows(u[i], v[i], pr, i)
      BY DEF Follows
    <2> QED BY <2>1 DEF RowFollows
  <1> QED BY <1>1 DEF Follows

LEMMA ReleaseUnspawnedFollows ==
  ASSUME NEW t \in Table, NEW i, NEW pr
  PROVE  Follows(t, ReleaseUnspawned(t, i), pr)
  <1> DEFINE s == IF t[i].state = "reserved" THEN "released" ELSE t[i].state
             r == [t[i] EXCEPT !.state = s]
  <1>1. ReleaseUnspawned(t, i) = [t EXCEPT ![i] = r]
    BY DEF ReleaseUnspawned
  <1>2. ASSUME i \in DOMAIN t
        PROVE  r \in Reservation /\ RowFollows(t[i], r, pr, i)
    <2>1. t[i] \in Reservation /\ s \in RowStates
      BY <1>2, TableRows DEF Reservation, RowStates
    <2>2. s = t[i].state \/ (s = "released" /\ t[i].state = "reserved")
      OBVIOUS
    <2> HIDE DEF s
    <2> QED BY <2>1, <2>2 DEF RowFollows, Reservation
  <1> HIDE DEF r
  <1>3. Follows(t, [t EXCEPT ![i] = r], pr)
    BY <1>2, OneRowFollows
  <1> QED BY <1>1, <1>3

LEMMA MarkRecoveryBlockedFollows ==
  ASSUME NEW t \in Table, NEW i, NEW pr
  PROVE  Follows(t, MarkRecoveryBlocked(t, i), pr)
  <1> DEFINE s == IF t[i].state = "released" THEN "released" ELSE "recovery_blocked"
             r == [t[i] EXCEPT !.state = s]
  <1>1. MarkRecoveryBlocked(t, i) = [t EXCEPT ![i] = r]
    BY DEF MarkRecoveryBlocked
  <1>2. ASSUME i \in DOMAIN t
        PROVE  r \in Reservation /\ RowFollows(t[i], r, pr, i)
    <2>1. t[i] \in Reservation /\ s \in RowStates
      BY <1>2, TableRows DEF RowStates
    <2>2. s = t[i].state \/ (s = "recovery_blocked" /\ t[i].state # "released")
      OBVIOUS
    <2> HIDE DEF s
    <2> QED BY <2>1, <2>2 DEF RowFollows, Reservation
  <1> HIDE DEF r
  <1>3. Follows(t, [t EXCEPT ![i] = r], pr)
    BY <1>2, OneRowFollows
  <1> QED BY <1>1, <1>3

(* An exit releases the row of a process if nothing else lives on it. *)
LEMMA ReleaseExitedFollows ==
  ASSUME NEW t \in Table, NEW i, NEW pr, i \in DOMAIN t => Dead(pr, i)
  PROVE  Follows(t, ReleaseExited(t, i), pr)
  <1> DEFINE c == t[i].confirmed \/ t[i].state # "released"
             r == [t[i] EXCEPT !.confirmed = c, !.state = "released"]
  <1>1. ReleaseExited(t, i) = [t EXCEPT ![i] = r]
    BY DEF ReleaseExited
  <1>2. ASSUME i \in DOMAIN t
        PROVE  r \in Reservation /\ RowFollows(t[i], r, pr, i)
    <2>1. t[i] \in Reservation /\ c \in BOOLEAN /\ "released" \in RowStates
      BY <1>2, TableRows DEF Reservation, RowStates
    <2> HIDE DEF c
    <2> QED BY <1>2, <2>1 DEF RowFollows, Reservation
  <1> HIDE DEF r
  <1>3. Follows(t, [t EXCEPT ![i] = r], pr)
    BY <1>2, OneRowFollows
  <1> QED BY <1>1, <1>3

(* A spawn that throws releases the row that it had marked. *)
LEMMA SpawnThrowsFollows ==
  ASSUME NEW t \in Table, NEW i, NEW pr, i \in DOMAIN t => t[i].state = "reserved"
  PROVE  Follows(t, ReleaseExited(BeginSpawn(t, i), i), pr)
  <1> DEFINE r == [t[i] EXCEPT !.confirmed = TRUE, !.state = "released"]
  <1>1. CASE i \in DOMAIN t
    <2>1. t[i] \in Reservation /\ "released" \in RowStates /\ TRUE \in BOOLEAN
          /\ "spawn_pending" \in RowStates
      BY <1>1, TableRows DEF RowStates
    <2> DEFINE b == [t[i] EXCEPT !.state = "spawn_pending"]
    <2>2. BeginSpawn(t, i) = [t EXCEPT ![i] = b]
      BY DEF BeginSpawn
    <2>3. ReleaseExited(BeginSpawn(t, i), i)
          = [t EXCEPT ![i] = [b EXCEPT !.confirmed = b.confirmed \/ b.state # "released",
                                       !.state = "released"]]
      BY <1>1, <2>2 DEF ReleaseExited
    <2>4. [b EXCEPT !.confirmed = b.confirmed \/ b.state # "released",
                    !.state = "released"] = r
      BY <2>1 DEF Reservation
    <2>5. r \in Reservation /\ RowFollows(t[i], r, pr, i)
      <3>1. r \in Reservation /\ r.agent = t[i].agent /\ r.pid = t[i].pid
            /\ r.state = "released"
        BY <2>1, ReservationFields
      <3> HIDE DEF r
      <3> QED BY <1>1, <3>1 DEF RowFollows
    <2> HIDE DEF r, b
    <2>6. Follows(t, [t EXCEPT ![i] = r], pr)
      BY <2>5, OneRowFollows
    <2> QED BY <2>3, <2>4, <2>6
  <1>2. CASE i \notin DOMAIN t
    <2>1. BeginSpawn(t, i) = t /\ ReleaseExited(t, i) = t
      BY <1>2, TableRows DEF BeginSpawn, ReleaseExited
    <2> QED BY <2>1, FollowsItself
  <1> QED BY <1>1, <1>2

(* Recovery releases what never spawned and what the probe found absent.  *)
LEMMA RecoverFollows ==
  ASSUME NEW t \in Table, NEW inst, NEW absent, NEW pr,
         \A i \in absent : Dead(pr, i)
  PROVE  Follows(t, Recover(t, inst, absent), pr)
  <1> DEFINE u == Recover(t, inst, absent)
  <1>1. ASSUME NEW i \in DOMAIN t
        PROVE  u[i] \in Reservation /\ RowFollows(t[i], u[i], pr, i)
    <2>1. t[i] \in Reservation /\ "released" \in RowStates
          /\ "recovery_blocked" \in RowStates /\ FALSE \in BOOLEAN
      BY <1>1, TableRows DEF RowStates
    <2>2. CASE i \notin Uncertain(t, inst)
      <3>1. u[i] = t[i]
        BY <1>1, <2>2 DEF Recover
      <3> QED BY <2>1, <3>1 DEF RowFollows
    <2>3. CASE i \in Uncertain(t, inst) /\ Safe(t, inst, i, absent)
      <3>1. u[i] = [t[i] EXCEPT !.state = "released", !.confirmed = FALSE]
        BY <1>1, <2>3 DEF Recover
      <3>2. t[i].state = "reserved" \/ Dead(pr, i)
        BY <2>3 DEF Safe
      <3> QED BY <2>1, <3>1, <3>2 DEF RowFollows, Reservation
    <2>4. CASE i \in Uncertain(t, inst) /\ ~Safe(t, inst, i, absent)
      <3>1. u[i] = [t[i] EXCEPT !.state = "recovery_blocked"]
        BY <1>1, <2>4 DEF Recover
      <3>2. t[i].state # "released"
        BY <2>4 DEF Uncertain, Active
      <3> QED BY <2>1, <3>1, <3>2 DEF RowFollows, Reservation
    <2> QED BY <2>2, <2>3, <2>4
  <1>2. u \in [DOMAIN t -> Reservation]
    <2>1. DOMAIN u = DOMAIN t /\ u = [i \in DOMAIN u |-> u[i]]
      BY DEF Recover
    <2> HIDE DEF u
    <2> QED BY <1>1, <2>1
  <1>3. Follows(t, u, pr)
    <2> HIDE DEF u
    <2> QED BY <1>1, <1>2, RowsType, TableRows DEF Follows
  <1> QED BY <1>3

-----------------------------------------------------------------------------
(* Steps that keep processes, rows and launches in accord.                 *)

LEMMA ProcessList ==
  ASSUME NEW pr \in Processes
  PROVE  /\ Len(pr) \in Nat /\ Len(pr) <= MaxProcs /\ DOMAIN pr = 1..Len(pr)
         /\ \A p \in DOMAIN pr : pr[p] \in Process
         /\ pr \in Seq(Process)
  BY LenProperties, ElementOfSeq DEF Processes

(* Processes only die, or have their exit seen once they are dead.         *)
Fades(pr, qr) ==
  /\ qr \in Processes /\ Len(qr) = Len(pr)
  /\ \A p \in DOMAIN pr :
       /\ qr[p].agent = pr[p].agent /\ qr[p].row = pr[p].row
       /\ qr[p].kind = pr[p].kind
       /\ qr[p].alive => pr[p].alive
       /\ qr[p].exit = pr[p].exit \/ ~qr[p].alive

(* Launches end or go on with their row, or their terminal has started or  *)
(* failed.                                                                 *)
MovesOn(l, m) ==
  \/ m.phase = "none"
  \/ m.phase = "preparing" /\ m.row = l.row /\ l.phase # "none"
  \/ /\ m.row = l.row /\ m.proc = l.proc
     /\ \/ m.phase = l.phase
        \/ l.phase = "connecting" /\ m.phase \in {"failing", "running"}

LEMMA FollowsSound ==
  ASSUME NEW t \in Table, NEW pr \in Processes, NEW l, NEW u,
         Sound(t, pr, l), Follows(t, u, pr)
  PROVE  u \in Table /\ Sound(u, pr, l)
  <1>1. /\ Len(u) = Len(t) /\ Len(t) \in Nat /\ Legacy <= Len(t)
        /\ DOMAIN u = 1..Len(t) /\ DOMAIN t = 1..Len(t) /\ u \in Table
    BY TableRows DEF Follows, Sound, RowsSound
  <1>2. Legacy \in Nat
    BY AdmissionAssumption, LenProperties DEF Legacy
  <1>3. ASSUME NEW i \in 1..Len(t)
        PROVE  /\ u[i].agent = t[i].agent /\ u[i].pid = t[i].pid
               /\ u[i].state = "reserved" => t[i].state = "reserved"
               /\ t[i].state = "released" => u[i].state = "released"
               /\ u[i].state = "released" =>
                    t[i].state \in {"reserved", "released"} \/ Dead(pr, i)
    <2>1. RowFollows(t[i], u[i], pr, i)
      BY DEF Follows
    <2> QED BY <2>1 DEF RowFollows
  <1>4. RowsSound(u)
    <2>1. ASSUME NEW i \in 1..Legacy PROVE u[i].state \in {"recovery_blocked", "released"}
      <3>1. i \in 1..Len(t)
        BY <1>1, <1>2
      <3>2. t[i].state \in {"recovery_blocked", "released"}
        BY DEF Sound, RowsSound
      <3>3. RowFollows(t[i], u[i], pr, i)
        BY <3>1 DEF Follows
      <3> QED BY <3>2, <3>3 DEF RowFollows
    <2>2. ASSUME NEW i \in DOMAIN u, u[i].state = "reserved" PROVE u[i].pid = 0
      BY <1>1, <1>3, <2>2 DEF Sound, RowsSound
    <2>3. ASSUME NEW i \in DOMAIN u, NEW j \in DOMAIN u,
                 i # j, u[i].agent = u[j].agent,
                 u[i].state # "released", u[j].state # "released"
          PROVE  i <= Legacy
      BY <1>1, <1>3, <2>3 DEF Sound, RowsSound
    <2> QED BY <1>1, <2>1, <2>2, <2>3 DEF RowsSound
  <1>5. ASSUME NEW p \in DOMAIN pr PROVE ProcessSound(u, pr, p)
    <2>1. ProcessSound(t, pr, p)
      BY DEF Sound
    <2>2. pr[p].row \in 1..Len(t)
      BY <1>1, <2>1 DEF ProcessSound
    <2>3. pr[p].alive => ~Dead(pr, pr[p].row)
      BY DEF Dead
    <2> QED BY <1>1, <1>3, <2>1, <2>2, <2>3 DEF ProcessSound
  <1>6. ASSUME NEW a \in Agents PROVE LaunchSound(u, pr, l[a], a)
    <2>1. LaunchSound(t, pr, l[a], a)
      BY DEF Sound
    <2> QED BY <1>1, <1>3, <2>1 DEF LaunchSound
  <1> QED BY <1>1, <1>4, <1>5, <1>6 DEF Sound

LEMMA FadesSound ==
  ASSUME NEW t \in Table, NEW pr \in Processes, NEW l, NEW qr,
         Sound(t, pr, l), Fades(pr, qr)
  PROVE  qr \in Processes /\ Sound(t, qr, l)
  <1>1. DOMAIN qr = DOMAIN pr /\ qr \in Processes
    BY ProcessList DEF Fades
  <1>2. ASSUME NEW p \in DOMAIN qr PROVE ProcessSound(t, qr, p)
    <2>1. ProcessSound(t, pr, p)
      BY <1>1 DEF Sound
    <2>2. /\ qr[p].agent = pr[p].agent /\ qr[p].row = pr[p].row
          /\ qr[p].kind = pr[p].kind /\ (qr[p].alive => pr[p].alive)
          /\ qr[p].exit = pr[p].exit \/ ~qr[p].alive
      BY <1>1 DEF Fades
    <2> QED BY <2>1, <2>2 DEF ProcessSound
  <1>3. SlotsAreReused(qr)
    <2> SUFFICES ASSUME NEW p \in DOMAIN qr, NEW q \in DOMAIN qr,
                        p < q, qr[p].row = qr[q].row
                 PROVE  ~qr[p].alive /\ qr[p].kind # "pty"
      BY DEF SlotsAreReused
    <2>1. pr[p].row = pr[q].row
      BY <1>1 DEF Fades
    <2>2. ~pr[p].alive /\ pr[p].kind # "pty"
      BY <1>1, <2>1 DEF Sound, SlotsAreReused
    <2> QED BY <1>1, <2>2 DEF Fades
  <1>4. ASSUME NEW a \in Agents PROVE LaunchSound(t, qr, l[a], a)
    <2>1. LaunchSound(t, pr, l[a], a)
      BY DEF Sound
    <2> QED BY <1>1, <2>1 DEF LaunchSound, Fades
  <1> QED BY <1>1, <1>2, <1>3, <1>4 DEF Sound

LEMMA MovesOnSound ==
  ASSUME NEW t, NEW pr, NEW l, NEW m, Sound(t, pr, l),
         \A a \in Agents : MovesOn(l[a], m[a])
  PROVE  Sound(t, pr, m)
  <1>1. ASSUME NEW a \in Agents PROVE LaunchSound(t, pr, m[a], a)
    <2>1. LaunchSound(t, pr, l[a], a)
      BY DEF Sound
    <2>2. MovesOn(l[a], m[a])
      OBVIOUS
    <2> QED BY <2>1, <2>2 DEF LaunchSound, MovesOn
  <1> QED BY <1>1 DEF Sound

(* Limits count the rows that were admitted.                               *)
LEMMA CountedShrinks ==
  ASSUME NEW t \in Table, NEW u \in Table, NEW lim, NEW top,
         top \in [total: Nat, workspace: Nat], Counted(t, lim, top),
         Len(u) = Len(t),
         \A i \in 1..Len(t) :
           u[i].agent = t[i].agent /\ (u[i].state # "released" => t[i].state # "released")
  PROVE  Counted(u, lim, top)
  <1>1. DOMAIN t = 1..Len(t) /\ DOMAIN u = 1..Len(t)
    BY TableRows
  <1>2. Admitted(u) \subseteq Admitted(t)
    BY <1>1 DEF Admitted, Active
  <1>3. ASSUME NEW w \in Workspaces PROVE AdmittedIn(u, w) \subseteq AdmittedIn(t, w)
    BY <1>1, <1>2 DEF AdmittedIn, Admitted, Active
  <1>4. IsFiniteSet(Admitted(t))
    <2>1. Admitted(t) \subseteq 1..Len(t) /\ Len(t) \in Nat
      BY <1>1, TableRows DEF Admitted, Active
    <2>2. IsFiniteSet(1..Len(t))
      <3>1. 1 \in Int /\ Len(t) \in Int
        BY <2>1
      <3> QED BY <3>1, FS_Interval
    <2> QED BY <2>1, <2>2, FS_Subset
  <1>5. ASSUME NEW w \in Workspaces PROVE IsFiniteSet(AdmittedIn(t, w))
    <2>1. AdmittedIn(t, w) \subseteq Admitted(t)
      BY DEF AdmittedIn
    <2> QED BY <1>4, <2>1, FS_Subset
  <1>6. Cardinality(Admitted(u)) <= top.total
    <2>1. Cardinality(Admitted(u)) <= Cardinality(Admitted(t))
          /\ Cardinality(Admitted(u)) \in Nat /\ Cardinality(Admitted(t)) \in Nat
      BY <1>2, <1>4, FS_Subset, FS_CardinalityType
    <2> QED BY <2>1 DEF Counted
  <1>7. ASSUME NEW w \in Workspaces PROVE Cardinality(AdmittedIn(u, w)) <= top.workspace
    <2>1. Cardinality(AdmittedIn(u, w)) <= Cardinality(AdmittedIn(t, w))
          /\ Cardinality(AdmittedIn(u, w)) \in Nat /\ Cardinality(AdmittedIn(t, w)) \in Nat
      BY <1>3, <1>5, FS_Subset, FS_CardinalityType
    <2>2. Cardinality(AdmittedIn(t, w)) <= top.workspace
      BY DEF Counted
    <2> QED BY <2>1, <2>2
  <1> QED BY <1>6, <1>7 DEF Counted

LEMMA FollowsCounted ==
  ASSUME NEW t \in Table, NEW u, NEW pr, NEW lim, NEW top,
         top \in [total: Nat, workspace: Nat], Counted(t, lim, top),
         Follows(t, u, pr)
  PROVE  Counted(u, lim, top)
  <1>1. \A i \in 1..Len(t) : RowFollows(t[i], u[i], pr, i)
    BY DEF Follows
  <1>2. \A i \in 1..Len(t) :
          u[i].agent = t[i].agent /\ (u[i].state # "released" => t[i].state # "released")
    BY <1>1 DEF RowFollows
  <1>3. u \in Table /\ Len(u) = Len(t)
    BY DEF Follows
  <1> QED BY <1>2, <1>3, CountedShrinks

-----------------------------------------------------------------------------
(* Reserving a row.                                                        *)

LEMMA FirstIsOne ==
  ASSUME NEW S \in SUBSET Nat, S # {}
  PROVE  First(S) \in S
  <1> DEFINE R == {ss \in Nat \X Nat : ss[1] < ss[2]}
  <1>1. IsWellFoundedOn(R, Nat)
    BY NatLessThanWellFounded DEF OpToRel
  <1>2. PICK x \in S : \A y \in S : ~(<<y, x>> \in R)
    <2> HIDE DEF R
    <2> QED BY <1>1, WFMin
  <1>3. \A y \in S : x <= y
    <2> SUFFICES ASSUME NEW y \in S PROVE x <= y
      OBVIOUS
    <2>1. x \in Nat /\ y \in Nat /\ ~(<<y, x>> \in R)
      BY <1>2
    <2>2. ~(y < x)
      BY <2>1
    <2> QED BY <2>1, <2>2
  <1> QED BY <1>3 DEF First

(* The row that a start gets is one of its agent, new if there was none.   *)
LEMMA ExistingIsActive ==
  ASSUME NEW t \in Table, NEW a \in Agents
  PROVE  /\ Existing(t, a) # 0 => Existing(t, a) \in ActiveByAgent(t, a)
         /\ Existing(t, a) = 0 => ActiveByAgent(t, a) = {}
  <1>1. DOMAIN t = 1..Len(t) /\ Len(t) \in Nat
    BY TableRows
  <1>2. ActiveByAgent(t, a) \in SUBSET Nat /\ 0 \notin ActiveByAgent(t, a)
    BY <1>1 DEF ActiveByAgent, Active
  <1>3. ActiveByKey(t, a) \subseteq ActiveByAgent(t, a)
    BY DEF ActiveByAgent, ActiveByKey
  <1>4. ASSUME NEW S \in SUBSET ActiveByAgent(t, a), S # {}
        PROVE  First(S) \in ActiveByAgent(t, a) /\ First(S) # 0
    BY <1>2, <1>4, FirstIsOne
  <1> QED BY <1>3, <1>4 DEF Existing

(* The row that is reserved for an agent in table t. *)
Fits(t, lim, a) ==
  Existing(t, a) # 0 \/ (~Full(t, lim, WorkspaceOf[a]) /\ Len(t) < MaxRows)

LEMMA ReserveRows ==
  ASSUME NEW t \in Table, NEW inst \in Nat, NEW a \in Agents, NEW lim,
         Fits(t, lim, a)
  PROVE  LET u == Reserve(t, inst, a)
             i == ReserveId(t, a)
         IN /\ u \in Table /\ i \in 1..Len(u) /\ u[i].agent = a
            /\ Len(t) <= Len(u)
            /\ \A j \in 1..Len(t) : u[j] = t[j]
            /\ Existing(t, a) # 0 => u = t
            /\ Existing(t, a) = 0 =>
                 /\ Len(u) = Len(t) + 1 /\ i = Len(u)
                 /\ u[i] = NewReservation(inst, a)
  <1>1. DOMAIN t = 1..Len(t) /\ Len(t) \in Nat /\ t \in Seq(Reservation)
    BY TableRows
  <1>2. CASE Existing(t, a) # 0
    <2>1. Existing(t, a) \in DOMAIN t /\ t[Existing(t, a)].agent = a
      BY <1>2, ExistingIsActive DEF ActiveByAgent, Active
    <2>2. Reserve(t, inst, a) = t /\ ReserveId(t, a) = Existing(t, a)
      BY <1>2 DEF Reserve, ReserveId
    <2>3. Existing(t, a) \in 1..Len(t) /\ Len(t) <= Len(t)
      BY <1>1, <2>1
    <2> QED BY <1>2, <2>1, <2>2, <2>3
  <1>3. CASE Existing(t, a) = 0
    <2> DEFINE r == NewReservation(inst, a)
    <2>1. r \in Reservation /\ r.agent = a
      BY DEF NewReservation, Reservation, RowStates
    <2> HIDE DEF r
    <2>2. /\ Append(t, r) \in Seq(Reservation) /\ Len(Append(t, r)) = Len(t) + 1
          /\ \A j \in 1..Len(t) : Append(t, r)[j] = t[j]
          /\ Append(t, r)[Len(t) + 1] = r
      BY <1>1, <2>1, AppendProperties
    <2>3. Len(t) < MaxRows
      BY <1>3 DEF Fits
    <2>4. Len(t) + 1 <= MaxRows
      BY <1>1, <2>3, BudgetAssumption
    <2>5. Append(t, r) \in Table
      BY <2>2, <2>4 DEF Table
    <2>6. Reserve(t, inst, a) = Append(t, r) /\ ReserveId(t, a) = Len(t) + 1
      BY <1>3 DEF Reserve, ReserveId, r
    <2> QED BY <1>1, <1>3, <2>1, <2>2, <2>5, <2>6 DEF r
  <1> QED BY <1>2, <1>3

LEMMA LegacyType == Legacy \in Nat
  BY AdmissionAssumption, LenProperties DEF Legacy

LEMMA ReserveSound ==
  ASSUME NEW t \in Table, NEW pr \in Processes, NEW l, Sound(t, pr, l),
         NEW inst \in Nat, NEW a \in Agents, NEW lim, Fits(t, lim, a)
  PROVE  Sound(Reserve(t, inst, a), pr, l)
  <1> DEFINE u == Reserve(t, inst, a)
  <1>1. CASE Existing(t, a) # 0
    BY <1>1, ReserveRows
  <1>2. CASE Existing(t, a) = 0
    <2> DEFINE n == Len(t) + 1
    <2>1. /\ u \in Table /\ Len(u) = n /\ \A j \in 1..Len(t) : u[j] = t[j]
          /\ u[n] = NewReservation(inst, a)
      BY <1>2, ReserveRows
    <2>2. u[n].agent = a /\ u[n].state = "reserved" /\ u[n].pid = 0
      BY <2>1 DEF NewReservation
    <2>3. /\ Len(t) \in Nat /\ DOMAIN t = 1..Len(t) /\ DOMAIN u = 1..n
          /\ Legacy \in Nat /\ Legacy <= Len(t)
      BY <2>1, TableRows, LegacyType DEF Sound, RowsSound
    <2>4. \A j \in 1..Len(t) : t[j].agent = a => t[j].state = "released"
      BY <1>2, <2>3, ExistingIsActive DEF ActiveByAgent, Active
    <2> HIDE DEF u
    <2>5. RowsSound(u)
      <3>1. Legacy <= Len(u) /\ \A i \in 1..Legacy : u[i].state \in {"recovery_blocked", "released"}
        <4>1. \A i \in 1..Legacy : i \in 1..Len(t)
          BY <2>3
        <4> QED BY <2>1, <2>3, <4>1 DEF Sound, RowsSound
      <3>2. \A i \in DOMAIN u : i \in 1..Len(t) \/ i = n
        BY <2>3
      <3>3. ASSUME NEW i \in DOMAIN u, u[i].state = "reserved" PROVE u[i].pid = 0
        BY <2>1, <2>2, <2>3, <3>2, <3>3 DEF Sound, RowsSound
      <3>4. ASSUME NEW i \in DOMAIN u, NEW j \in DOMAIN u,
                   i # j, u[i].agent = u[j].agent,
                   u[i].state # "released", u[j].state # "released"
            PROVE  i <= Legacy
        <4>1. i \in 1..Len(t) /\ j \in 1..Len(t)
          BY <2>1, <2>2, <2>4, <3>2, <3>4
        <4> QED BY <2>1, <2>3, <3>4, <4>1 DEF Sound, RowsSound
      <3> QED BY <3>1, <3>3, <3>4 DEF RowsSound
    <2>6. ASSUME NEW p \in DOMAIN pr PROVE ProcessSound(u, pr, p)
      <3>1. ProcessSound(t, pr, p)
        BY DEF Sound
      <3>2. pr[p].row \in 1..Len(t) /\ u[pr[p].row] = t[pr[p].row] /\ pr[p].row \in DOMAIN u
        BY <2>1, <2>3, <3>1 DEF ProcessSound
      <3> QED BY <3>1, <3>2 DEF ProcessSound
    <2>7. ASSUME NEW b \in Agents PROVE LaunchSound(u, pr, l[b], b)
      <3>1. LaunchSound(t, pr, l[b], b)
        BY DEF Sound
      <3>2. l[b].phase # "none" =>
              l[b].row \in 1..Len(t) /\ u[l[b].row] = t[l[b].row] /\ l[b].row \in DOMAIN u
        BY <2>1, <2>3, <3>1 DEF LaunchSound
      <3> QED BY <3>1, <3>2 DEF LaunchSound
    <2>8. Sound(u, pr, l)
      BY <2>5, <2>6, <2>7 DEF Sound
    <2> QED BY <2>8 DEF u
  <1> QED BY <1>1, <1>2

LEMMA ReserveCounted ==
  ASSUME NEW t \in Table, NEW inst \in Nat, NEW a \in Agents, NEW lim \in Limits, NEW top,
         top \in [total: Nat, workspace: Nat], Counted(t, lim, top), Fits(t, lim, a)
  PROVE  Counted(Reserve(t, inst, a), lim, top)
  <1> DEFINE u == Reserve(t, inst, a)
             n == Len(t) + 1
  <1>1. CASE Existing(t, a) # 0
    BY <1>1, ReserveRows
  <1>2. CASE Existing(t, a) = 0
    <2>1. /\ u \in Table /\ Len(u) = n /\ (\A j \in 1..Len(t) : u[j] = t[j])
          /\ u[n].agent = a
      BY <1>2, ReserveRows
    <2>2. Len(t) \in Nat /\ DOMAIN t = 1..Len(t) /\ DOMAIN u = 1..n
      BY <2>1, TableRows
    <2>3. lim.total \in Nat /\ lim.workspace \in Nat
      BY AdmissionAssumption
    <2>4. ~Full(t, lim, WorkspaceOf[a])
      BY <1>2 DEF Fits
    <2> HIDE DEF u
    <2>5. IsFiniteSet(Active(t))
      <3>1. 1 \in Int /\ Len(t) \in Int /\ Active(t) \subseteq 1..Len(t)
        BY <2>2 DEF Active
      <3> QED BY <3>1, FS_Interval, FS_Subset
    <2>6. Admitted(t) \subseteq Active(t) /\ Admitted(u) \subseteq Admitted(t) \cup {n}
      BY <2>1, <2>2 DEF Admitted, Active
    <2>7. \A w \in Workspaces : AdmittedIn(t, w) \subseteq OccupyingIn(t, w)
      BY <2>6 DEF AdmittedIn, OccupyingIn, Occupying
    <2>8. \A w \in Workspaces : OccupyingIn(t, w) \subseteq Active(t)
      BY DEF OccupyingIn, Occupying
    <2>9. Cardinality(Admitted(u)) <= top.total
      <3> DEFINE S == Admitted(t)
      <3>1. IsFiniteSet(S) /\ Cardinality(S) <= Cardinality(Active(t))
            /\ Cardinality(S) \in Nat /\ Cardinality(Active(t)) \in Nat
        BY <2>5, <2>6, FS_Subset, FS_CardinalityType
      <3>2. Cardinality(Active(t)) < lim.total
        BY <2>3, <2>4, <3>1 DEF Full, Occupying
      <3>3. IsFiniteSet(S \cup {n}) /\ Cardinality(S \cup {n}) <= Cardinality(S) + 1
        <4>1. /\ IsFiniteSet(S \cup {n})
              /\ Cardinality(S \cup {n}) =
                   IF n \in S THEN Cardinality(S) ELSE Cardinality(S) + 1
          BY <3>1, FS_AddElement
        <4> HIDE DEF S
        <4> QED BY <3>1, <4>1
      <3>4. Cardinality(Admitted(u)) <= Cardinality(S \cup {n})
            /\ Cardinality(Admitted(u)) \in Nat /\ Cardinality(S \cup {n}) \in Nat
        BY <2>6, <3>3, FS_Subset, FS_CardinalityType
      <3>5. lim.total <= top.total /\ top.total \in Nat
        BY DEF Counted
      <3> HIDE DEF S
      <3> QED BY <2>3, <3>1, <3>2, <3>3, <3>4, <3>5
    <2>10. ASSUME NEW w \in Workspaces PROVE Cardinality(AdmittedIn(u, w)) <= top.workspace
      <3> DEFINE S == AdmittedIn(t, w)
      <3>1. IsFiniteSet(OccupyingIn(t, w)) /\ Cardinality(OccupyingIn(t, w)) \in Nat
        BY <2>5, <2>8, FS_Subset, FS_CardinalityType
      <3>2. IsFiniteSet(S) /\ Cardinality(S) <= Cardinality(OccupyingIn(t, w))
            /\ Cardinality(S) \in Nat
        BY <2>7, <3>1, FS_Subset, FS_CardinalityType
      <3>3. lim.workspace <= top.workspace /\ top.workspace \in Nat
            /\ Cardinality(S) <= top.workspace
        BY DEF Counted
      <3>4. CASE w = WorkspaceOf[a]
        <4>1. AdmittedIn(u, w) \subseteq S \cup {n}
          BY <2>1, <2>2, <2>6 DEF AdmittedIn, Admitted, Active
        <4>2. Cardinality(OccupyingIn(t, w)) < lim.workspace
          BY <2>3, <2>4, <3>1, <3>4 DEF Full
        <4>3. IsFiniteSet(S \cup {n}) /\ Cardinality(S \cup {n}) <= Cardinality(S) + 1
          <5>1. /\ IsFiniteSet(S \cup {n})
                /\ Cardinality(S \cup {n}) =
                     IF n \in S THEN Cardinality(S) ELSE Cardinality(S) + 1
            BY <3>2, FS_AddElement
          <5> HIDE DEF S
          <5> QED BY <3>2, <5>1
        <4>4. Cardinality(AdmittedIn(u, w)) <= Cardinality(S \cup {n})
              /\ Cardinality(AdmittedIn(u, w)) \in Nat /\ Cardinality(S \cup {n}) \in Nat
          BY <4>1, <4>3, FS_Subset, FS_CardinalityType
        <4> HIDE DEF S
        <4> QED BY <2>3, <3>1, <3>2, <3>3, <4>2, <4>3, <4>4
      <3>5. CASE w # WorkspaceOf[a]
        <4>1. AdmittedIn(u, w) \subseteq S
          BY <2>1, <2>2, <2>6, <3>5 DEF AdmittedIn, Admitted, Active
        <4>2. Cardinality(AdmittedIn(u, w)) <= Cardinality(S)
              /\ Cardinality(AdmittedIn(u, w)) \in Nat
          BY <3>2, <4>1, FS_Subset, FS_CardinalityType
        <4> HIDE DEF S
        <4> QED BY <3>2, <3>3, <4>2
      <3> QED BY <3>4, <3>5
    <2>11. Counted(u, lim, top)
      BY <2>9, <2>10 DEF Counted
    <2> QED BY <2>11 DEF u
  <1> QED BY <1>1, <1>2

-----------------------------------------------------------------------------
(* The spawn in a row, the registration of the start, and the return of a  *)
(* slot from a preparation.                                                *)

(* Row i alone changes, of which nothing lives or its state stays active.  *)
Changes(t, u, i) ==
  /\ u \in Table /\ Len(u) = Len(t) /\ i \in 1..Len(t)
  /\ \A j \in 1..Len(t) : j # i => u[j] = t[j]
  /\ u[i].agent = t[i].agent
  /\ u[i].state = "released" <=> t[i].state = "released"
  /\ u[i].state = "reserved" => u[i].pid = 0

LEMMA ChangesRows ==
  ASSUME NEW t \in Table, NEW u, NEW i, RowsSound(t), Changes(t, u, i),
         i <= Legacy => u[i].state \in {"recovery_blocked", "released"}
  PROVE  RowsSound(u)
  <1>1. /\ Len(t) \in Nat /\ DOMAIN t = 1..Len(t) /\ DOMAIN u = 1..Len(t)
        /\ Legacy \in Nat /\ Legacy <= Len(t) /\ Len(u) = Len(t)
    BY TableRows, LegacyType DEF Changes, RowsSound
  <1>2. \A j \in 1..Legacy : u[j].state \in {"recovery_blocked", "released"}
    <2>1. \A j \in 1..Legacy : j \in 1..Len(t) /\ j <= Legacy
      BY <1>1
    <2> QED BY <2>1 DEF Changes, RowsSound
  <1>3. \A j \in DOMAIN u : u[j].state = "reserved" => u[j].pid = 0
    BY <1>1 DEF Changes, RowsSound
  <1>4. \A j \in 1..Len(t) : /\ u[j].agent = t[j].agent
                             /\ u[j].state = "released" <=> t[j].state = "released"
    BY DEF Changes
  <1>5. \A j, k \in DOMAIN u :
          /\ j # k /\ u[j].agent = u[k].agent
          /\ u[j].state # "released" /\ u[k].state # "released"
          => j <= Legacy
    BY <1>1, <1>4 DEF RowsSound
  <1> QED BY <1>1, <1>2, <1>3, <1>5 DEF RowsSound

LEMMA ChangesCounted ==
  ASSUME NEW t \in Table, NEW u, NEW i, NEW lim, NEW top, Changes(t, u, i),
         top \in [total: Nat, workspace: Nat], Counted(t, lim, top)
  PROVE  Counted(u, lim, top)
  <1>1. \A j \in 1..Len(t) :
          u[j].agent = t[j].agent /\ (u[j].state # "released" => t[j].state # "released")
    BY DEF Changes
  <1>2. u \in Table /\ Len(u) = Len(t)
    BY DEF Changes
  <1> QED BY <1>1, <1>2, CountedShrinks

(* The change is sound if it is for the processes of the row.              *)
LEMMA ChangesSound ==
  ASSUME NEW t \in Table, NEW pr \in Processes, NEW l, NEW u, NEW i,
         Sound(t, pr, l), Changes(t, u, i),
         i <= Legacy => u[i].state \in {"recovery_blocked", "released"},
         \A p \in DOMAIN pr : pr[p].row = i =>
           /\ pr[p].kind = "pty" => u[i].state # "reserved"
           /\ pr[p].alive => u[i].state \notin {"reserved", "released"} /\ u[i].pid \in {0, p}
  PROVE  Sound(u, pr, l)
  <1>1. Len(t) \in Nat /\ DOMAIN t = 1..Len(t) /\ DOMAIN u = 1..Len(t) /\ u \in Table
    BY TableRows DEF Changes
  <1>2. RowsSound(u)
    BY ChangesRows DEF Sound
  <1>3. ASSUME NEW p \in DOMAIN pr PROVE ProcessSound(u, pr, p)
    <2>1. ProcessSound(t, pr, p)
      BY DEF Sound
    <2>2. CASE pr[p].row = i
      BY <1>1, <2>1, <2>2 DEF ProcessSound, Changes
    <2>3. CASE pr[p].row # i
      <3>1. u[pr[p].row] = t[pr[p].row]
        BY <1>1, <2>1, <2>3 DEF ProcessSound, Changes
      <3> QED BY <1>1, <2>1, <3>1 DEF ProcessSound
    <2> QED BY <2>2, <2>3
  <1>4. ASSUME NEW b \in Agents PROVE LaunchSound(u, pr, l[b], b)
    <2>1. LaunchSound(t, pr, l[b], b)
      BY DEF Sound
    <2>2. \A j \in 1..Len(t) : u[j].agent = t[j].agent
      BY DEF Changes
    <2> QED BY <1>1, <2>1, <2>2 DEF LaunchSound
  <1> QED BY <1>2, <1>3, <1>4 DEF Sound

(* The process of a launch is the only one of its row that may live.       *)
LEMMA OneLives ==
  ASSUME NEW t \in Table, NEW pr \in Processes, NEW l, NEW a \in Agents,
         Sound(t, pr, l), l[a].phase \notin {"none", "preparing"}
  PROVE  /\ l[a].row \in 1..Len(t) /\ t[l[a].row].agent = a
         /\ l[a].proc \in DOMAIN pr /\ pr[l[a].proc].row = l[a].row
         /\ \A p \in DOMAIN pr :
              pr[p].row = l[a].row /\ p # l[a].proc => ~pr[p].alive /\ pr[p].kind # "pty"
  <1>1. LaunchSound(t, pr, l[a], a)
    BY DEF Sound
  <1>2. /\ l[a].row \in 1..Len(t) /\ t[l[a].row].agent = a
        /\ l[a].proc \in DOMAIN pr /\ pr[l[a].proc].row = l[a].row
        /\ \A q \in DOMAIN pr : q > l[a].proc => pr[q].row # l[a].row
    BY <1>1, TableRows DEF LaunchSound
  <1>3. ASSUME NEW p \in DOMAIN pr, pr[p].row = l[a].row, p # l[a].proc
        PROVE  ~pr[p].alive /\ pr[p].kind # "pty"
    <2>1. p \in Nat /\ l[a].proc \in Nat
      BY <1>2, ProcessList
    <2>2. p < l[a].proc
      BY <1>2, <1>3, <2>1
    <2> QED BY <1>2, <1>3, <2>2 DEF Sound, SlotsAreReused
  <1> QED BY <1>2, <1>3

LEMMA MarkStartedSound ==
  ASSUME NEW t \in Table, NEW pr \in Processes, NEW l, NEW a \in Agents, NEW inst,
         Sound(t, pr, l), l[a].phase \in {"helping", "connecting"},
         MayMarkStarted(t, inst, l[a].row, l[a].proc)
  PROVE  LET u == MarkStarted(t, l[a].row, l[a].proc)
         IN Changes(t, u, l[a].row) /\ Sound(u, pr, l)
  <1> DEFINE i == l[a].row
             c == l[a].proc
             s == IF t[i].state = "released" THEN "released" ELSE "running"
             r == [t[i] EXCEPT !.state = s, !.run = c, !.pid = c]
             u == MarkStarted(t, i, c)
  <1>1. /\ i \in 1..Len(t) /\ c \in DOMAIN pr /\ pr[c].row = i
        /\ \A p \in DOMAIN pr : pr[p].row = i /\ p # c => ~pr[p].alive /\ pr[p].kind # "pty"
    BY OneLives
  <1>2. t[i] \in Reservation /\ c \in Nat /\ s \in RowStates /\ DOMAIN t = 1..Len(t)
    BY <1>1, TableRows, ProcessList DEF RowStates
  <1>3. u = [t EXCEPT ![i] = r]
    BY DEF MarkStarted
  <1>4. s # "reserved" /\ (s = "released" <=> t[i].state = "released")
    OBVIOUS
  <1> HIDE DEF s
  <1>5. r \in Reservation /\ r.state = s /\ r.agent = t[i].agent /\ r.pid = c
    BY <1>2 DEF Reservation
  <1> HIDE DEF r, i, c
  <1>6. /\ [t EXCEPT ![i] = r] \in Table /\ Len([t EXCEPT ![i] = r]) = Len(t)
        /\ \A j \in 1..Len(t) : [t EXCEPT ![i] = r][j] = IF j = i THEN r ELSE t[j]
    <2>1. r \in Reservation
      BY <1>5
    <2> QED BY <2>1, RowType
  <1>7. /\ u \in Table /\ Len(u) = Len(t)
        /\ \A j \in 1..Len(t) : u[j] = IF j = i THEN r ELSE t[j]
    BY <1>3, <1>6
  <1> HIDE DEF u
  <1>8. Changes(t, u, i)
    BY <1>1, <1>4, <1>5, <1>7 DEF Changes
  <1>9. i <= Legacy => u[i].state \in {"recovery_blocked", "released"}
    <2>1. i <= Legacy => i \in 1..Legacy
      BY <1>1, LegacyType
    <2>2. i <= Legacy => t[i].state \in {"recovery_blocked", "released"}
      BY <2>1 DEF Sound, RowsSound
    <2>3. t[i].state # "recovery_blocked"
      BY DEF MayMarkStarted, i, c
    <2> QED BY <1>1, <1>4, <1>5, <1>7, <2>2, <2>3
  <1>10. ASSUME NEW p \in DOMAIN pr, pr[p].row = i
         PROVE  /\ pr[p].kind = "pty" => u[i].state # "reserved"
                /\ pr[p].alive => u[i].state \notin {"reserved", "released"} /\ u[i].pid \in {0, p}
    <2>1. ProcessSound(t, pr, p)
      BY DEF Sound
    <2>2. pr[p].alive => p = c /\ t[i].state # "released"
      BY <1>1, <1>10, <2>1 DEF ProcessSound
    <2> QED BY <1>1, <1>4, <1>5, <1>7, <2>2
  <1>11. Sound(u, pr, l)
    BY <1>8, <1>9, <1>10, ChangesSound
  <1> QED BY <1>8, <1>11 DEF u, i, c

LEMMA FinishPreparationRow ==
  ASSUME NEW t \in Table, NEW i \in 1..Len(t)
  PROVE  LET u == FinishPreparation(t, i)
         IN /\ u \in Table /\ Len(u) = Len(t)
            /\ \A j \in 1..Len(t) : j # i => u[j] = t[j]
            /\ u[i].agent = t[i].agent /\ u[i].state = "reserved" /\ u[i].pid = 0
  <1> DEFINE r == [t[i] EXCEPT !.state = "reserved", !.run = 0, !.pid = 0]
  <1>1. t[i] \in Reservation /\ DOMAIN t = 1..Len(t) /\ "reserved" \in RowStates
    BY TableRows DEF RowStates
  <1>2. r \in Reservation /\ r.agent = t[i].agent /\ r.state = "reserved" /\ r.pid = 0
    BY <1>1 DEF Reservation
  <1>3. FinishPreparation(t, i) = [t EXCEPT ![i] = r]
    BY DEF FinishPreparation
  <1> HIDE DEF r
  <1>4. /\ [t EXCEPT ![i] = r] \in Table /\ Len([t EXCEPT ![i] = r]) = Len(t)
        /\ \A j \in 1..Len(t) : [t EXCEPT ![i] = r][j] = IF j = i THEN r ELSE t[j]
    BY <1>2, RowType
  <1> QED BY <1>2, <1>3, <1>4

LEMMA BeginSpawnRow ==
  ASSUME NEW t \in Table, NEW i \in 1..Len(t)
  PROVE  LET u == BeginSpawn(t, i)
         IN /\ u \in Table /\ Len(u) = Len(t)
            /\ \A j \in 1..Len(t) : j # i => u[j] = t[j]
            /\ u[i].agent = t[i].agent /\ u[i].state = "spawn_pending" /\ u[i].pid = t[i].pid
  <1> DEFINE r == [t[i] EXCEPT !.state = "spawn_pending"]
  <1>1. t[i] \in Reservation /\ DOMAIN t = 1..Len(t) /\ "spawn_pending" \in RowStates
    BY TableRows DEF RowStates
  <1>2. r \in Reservation /\ r.agent = t[i].agent /\ r.state = "spawn_pending" /\ r.pid = t[i].pid
    BY <1>1 DEF Reservation
  <1>3. BeginSpawn(t, i) = [t EXCEPT ![i] = r]
    BY DEF BeginSpawn
  <1> HIDE DEF r
  <1>4. /\ [t EXCEPT ![i] = r] \in Table /\ Len([t EXCEPT ![i] = r]) = Len(t)
        /\ \A j \in 1..Len(t) : [t EXCEPT ![i] = r][j] = IF j = i THEN r ELSE t[j]
    BY <1>2, RowType
  <1> QED BY <1>2, <1>3, <1>4

LEMMA FinishPreparationSound ==
  ASSUME NEW t \in Table, NEW pr \in Processes, NEW l, NEW a \in Agents, NEW inst,
         Sound(t, pr, l), l[a].phase = "helping", ~pr[l[a].proc].alive,
         MayFinishPreparation(t, inst, l[a].row, l[a].proc)
  PROVE  LET u == FinishPreparation(t, l[a].row)
         IN Changes(t, u, l[a].row) /\ Sound(u, pr, l)
  <1> DEFINE i == l[a].row
             c == l[a].proc
             u == FinishPreparation(t, i)
  <1>1. /\ i \in 1..Len(t) /\ c \in DOMAIN pr /\ pr[c].row = i
        /\ \A p \in DOMAIN pr : pr[p].row = i /\ p # c => ~pr[p].alive /\ pr[p].kind # "pty"
    BY OneLives
  <1>2. pr[c].kind = "helper"
    BY DEF Sound, LaunchSound
  <1>6. t[i].state \in {"spawn_pending", "running"}
    BY DEF MayFinishPreparation
  <1>7. ~pr[c].alive
    OBVIOUS
  <1> HIDE DEF i, c
  <1>9. /\ u \in Table /\ Len(u) = Len(t)
        /\ \A j \in 1..Len(t) : j # i => u[j] = t[j]
        /\ u[i].agent = t[i].agent /\ u[i].state = "reserved" /\ u[i].pid = 0
    BY <1>1, FinishPreparationRow
  <1> HIDE DEF u
  <1>10. Changes(t, u, i)
    BY <1>1, <1>6, <1>9 DEF Changes
  <1>11. i <= Legacy => u[i].state \in {"recovery_blocked", "released"}
    <2>1. i <= Legacy => i \in 1..Legacy
      BY <1>1, LegacyType
    <2> QED BY <1>6, <2>1 DEF Sound, RowsSound
  <1>12. ASSUME NEW p \in DOMAIN pr, pr[p].row = i
         PROVE  ~pr[p].alive /\ pr[p].kind # "pty"
    BY <1>1, <1>2, <1>7, <1>12
  <1>13. Sound(u, pr, l)
    BY <1>10, <1>11, <1>12, ChangesSound
  <1> QED BY <1>10, <1>13 DEF u, i

LEMMA SpawnSound ==
  ASSUME NEW t \in Table, NEW pr \in Processes, NEW l \in [Agents -> Launch], NEW a \in Agents,
         NEW kind \in {"pty", "helper"}, NEW e \in Nat, NEW m,
         Sound(t, pr, l), l[a].phase = "preparing", t[l[a].row].state = "reserved",
         Len(pr) < MaxProcs,
         \A b \in Agents : b # a => m[b] = l[b],
         m[a].row = l[a].row, m[a].proc = Len(pr) + 1,
         m[a].phase \in {"connecting", "helping"},
         m[a].phase = "helping" => kind = "helper"
  PROVE  LET u == BeginSpawn(t, l[a].row)
             qr == Append(pr, NewProcess(a, l[a].row, kind, e))
         IN Changes(t, u, l[a].row) /\ qr \in Processes /\ Sound(u, qr, m)
  <1> DEFINE i == l[a].row
             c == Len(pr) + 1
             new == NewProcess(a, i, kind, e)
             u == BeginSpawn(t, i)
             qr == Append(pr, new)
  <1>1. /\ Len(pr) \in Nat /\ DOMAIN pr = 1..Len(pr) /\ pr \in Seq(Process)
        /\ Len(t) \in Nat /\ DOMAIN t = 1..Len(t) /\ Len(t) <= MaxRows /\ MaxRows \in Nat
    BY ProcessList, TableRows, BudgetAssumption
  <1>2. i \in 1..Len(t) /\ t[i].agent = a /\ t[i].state = "reserved"
    <2>1. LaunchSound(t, pr, l[a], a)
      BY DEF Sound
    <2> QED BY <1>1, <2>1 DEF LaunchSound
  <1>3. t[i].pid = 0 /\ i > Legacy
    <2>1. t[i].pid = 0
      BY <1>1, <1>2 DEF Sound, RowsSound
    <2>2. i \notin 1..Legacy
      BY <1>2 DEF Sound, RowsSound
    <2> QED BY <1>2, <2>1, <2>2, LegacyType
  <1>4. /\ u \in Table /\ Len(u) = Len(t)
        /\ \A j \in 1..Len(t) : j # i => u[j] = t[j]
        /\ u[i].agent = a /\ u[i].state = "spawn_pending" /\ u[i].pid = 0
    BY <1>2, <1>3, BeginSpawnRow
  <1>5. /\ new \in Process /\ new.agent = a /\ new.row = i /\ new.kind = kind
        /\ new.alive = TRUE /\ new.exit = "no"
    <2>1. i \in 0..MaxRows
      BY <1>1, <1>2
    <2> HIDE DEF i
    <2> QED BY <2>1 DEF NewProcess, Process
  <1> HIDE DEF new
  <1>6. /\ qr \in Seq(Process) /\ Len(qr) = c
        /\ \A p \in 1..Len(pr) : qr[p] = pr[p]
        /\ qr[c] = new
    BY <1>1, <1>5, AppendProperties
  <1>7. qr \in Processes /\ DOMAIN qr = 1..c
    <2>1. c <= MaxProcs
      BY <1>1, AdmissionAssumption
    <2>2. qr \in Processes
      BY <1>6, <2>1 DEF Processes
    <2> QED BY <1>6, <2>2, ProcessList
  <1>8. \A p \in DOMAIN pr : pr[p].row = i => ~pr[p].alive /\ pr[p].kind # "pty"
    <2> SUFFICES ASSUME NEW p \in DOMAIN pr, pr[p].row = i
                 PROVE  ~pr[p].alive /\ pr[p].kind # "pty"
      OBVIOUS
    <2>1. ProcessSound(t, pr, p)
      BY DEF Sound
    <2> HIDE DEF i
    <2> QED BY <1>2, <2>1 DEF ProcessSound
  <1> HIDE DEF u, qr
  <1>9. Changes(t, u, i)
    BY <1>2, <1>4 DEF Changes
  <1>10. Sound(u, pr, l)
    BY <1>3, <1>4, <1>8, <1>9, <1>2, LegacyType, ChangesSound
  <1> HIDE DEF i
  <1>11. \A p \in DOMAIN qr : p \in DOMAIN pr \/ p = c
    BY <1>1, <1>7
  <1>12. ASSUME NEW p \in DOMAIN qr PROVE ProcessSound(u, qr, p)
    <2>1. CASE p \in DOMAIN pr
      <3>1. ProcessSound(u, pr, p) /\ qr[p] = pr[p]
        BY <1>1, <1>6, <1>10, <2>1 DEF Sound
      <3> QED BY <3>1 DEF ProcessSound
    <2>2. CASE p = c
      <3>1. i \in DOMAIN u
        BY <1>2, <1>4, TableRows
      <3> QED BY <1>3, <1>4, <1>5, <1>6, <2>2, <3>1 DEF ProcessSound
    <2> QED BY <1>11, <2>1, <2>2
  <1>13. SlotsAreReused(qr)
    <2> SUFFICES ASSUME NEW p \in DOMAIN qr, NEW q \in DOMAIN qr,
                        p < q, qr[p].row = qr[q].row
                 PROVE  ~qr[p].alive /\ qr[p].kind # "pty"
      BY DEF SlotsAreReused
    <2>1. p \in DOMAIN pr /\ qr[p] = pr[p]
      BY <1>1, <1>6, <1>7
    <2>2. CASE q = c
      <3>1. pr[p].row = i
        BY <1>5, <1>6, <2>1, <2>2
      <3> QED BY <1>8, <2>1, <3>1
    <2>3. CASE q \in DOMAIN pr
      <3>1. qr[q] = pr[q]
        BY <1>1, <1>6, <2>3
      <3>2. pr[p].row = pr[q].row
        BY <2>1, <3>1
      <3> QED BY <2>1, <2>3, <3>2 DEF Sound, SlotsAreReused
    <2> QED BY <1>11, <2>2, <2>3
  <1>14. ASSUME NEW b \in Agents PROVE LaunchSound(u, qr, m[b], b)
    <2>1. CASE b = a
      <3>1. m[a].row \in DOMAIN u /\ u[m[a].row].agent = a
        BY <1>2, <1>4, TableRows DEF i
      <3>2. m[a].proc \in DOMAIN qr /\ qr[m[a].proc] = new
        BY <1>1, <1>6, <1>7
      <3>3. \A q \in DOMAIN qr : ~(q > m[a].proc)
        BY <1>1, <1>7
      <3> QED BY <1>5, <2>1, <3>1, <3>2, <3>3 DEF LaunchSound, i
    <2>2. CASE b # a /\ l[b].phase # "none"
      <3>1. LaunchSound(u, pr, l[b], b) /\ m[b] = l[b]
        BY <1>10, <2>2 DEF Sound
      <3>2. l[b].row # i
        BY <1>4, <2>2, <3>1 DEF LaunchSound
      <3>3. \A p \in DOMAIN pr : qr[p] = pr[p] /\ p \in DOMAIN qr
        BY <1>1, <1>6, <1>7
      <3>4. \A q \in DOMAIN qr : q = c => qr[q].row # l[b].row
        BY <1>5, <1>6, <3>2
      <3> QED BY <1>11, <2>2, <3>1, <3>3, <3>4 DEF LaunchSound
    <2>3. CASE b # a /\ l[b].phase = "none"
      BY <2>3 DEF LaunchSound
    <2> QED BY <2>1, <2>2, <2>3
  <1>15. Sound(u, qr, m)
    BY <1>10, <1>12, <1>13, <1>14 DEF Sound
  <1> QED BY <1>7, <1>9, <1>15 DEF u, qr, i, new

(* A launch begins with a row of its agent.                                *)
LEMMA NewLaunchSound ==
  ASSUME NEW t \in Table, NEW pr, NEW l \in [Agents -> Launch], NEW a \in Agents,
         NEW i \in 1..Len(t), NEW e \in Nat, Sound(t, pr, l), t[i].agent = a
  PROVE  LET m == [l EXCEPT ![a] = NewLaunch(i, e)]
         IN m \in [Agents -> Launch] /\ Sound(t, pr, m)
  <1> DEFINE n == NewLaunch(i, e)
             m == [l EXCEPT ![a] = n]
  <1>1. DOMAIN t = 1..Len(t) /\ i \in 0..MaxRows
    BY TableRows, BudgetAssumption
  <1>2. n \in Launch /\ n.phase = "preparing" /\ n.row = i
    <2>1. 0 \in 0..MaxProcs
      BY AdmissionAssumption
    <2> QED BY <1>1, <2>1 DEF NewLaunch, NoLaunch, Launch
  <1> HIDE DEF n
  <1>3. m \in [Agents -> Launch] /\ m[a] = n /\ \A b \in Agents : b # a => m[b] = l[b]
    BY <1>2
  <1> HIDE DEF m
  <1>4. ASSUME NEW b \in Agents PROVE LaunchSound(t, pr, m[b], b)
    <2>1. CASE b = a
      BY <1>1, <1>2, <1>3, <2>1 DEF LaunchSound
    <2>2. CASE b # a
      BY <1>3, <2>2 DEF Sound
    <2> QED BY <2>1, <2>2
  <1>5. Sound(t, pr, m)
    BY <1>4 DEF Sound
  <1> QED BY <1>3, <1>5 DEF m, n

(* What a probe found absent is not alive, and nothing else is in the row. *)
LEMMA AbsentIsDead ==
  ASSUME NEW t \in Table, NEW pr \in Processes, NEW l, Sound(t, pr, l), NEW inst,
         NEW k \in Absent(t, inst, pr)
  PROVE  Dead(pr, k)
  <1> SUFFICES ASSUME NEW p \in DOMAIN pr, pr[p].row = k, pr[p].alive PROVE FALSE
    BY DEF Dead
  <1>1. ProcessSound(t, pr, p)
    BY DEF Sound
  <1>2. t[k].pid \in {0, p}
    BY <1>1 DEF ProcessSound
  <1> QED BY <1>2 DEF Absent

-----------------------------------------------------------------------------
(* Rows, processes and launches together.                                  *)

Accord(t, pr, l, lim, top) ==
  /\ t \in Table /\ pr \in Processes /\ l \in [Agents -> Launch]
  /\ top \in [total: Nat, workspace: Nat]
  /\ Sound(t, pr, l) /\ Counted(t, lim, top)

StaysReleased(t, u) ==
  \A i \in DOMAIN t : t[i].state = "released" => u[i].state = "released"

LEMMA FollowsStaysReleased ==
  ASSUME NEW t \in Table, NEW u, NEW pr, Follows(t, u, pr)
  PROVE  StaysReleased(t, u)
  <1> SUFFICES ASSUME NEW i \in DOMAIN t, t[i].state = "released"
               PROVE  u[i].state = "released"
    BY DEF StaysReleased
  <1>1. RowFollows(t[i], u[i], pr, i)
    BY TableRows DEF Follows
  <1> QED BY <1>1 DEF RowFollows

LEMMA ChangesStaysReleased ==
  ASSUME NEW t \in Table, NEW u, NEW i, Changes(t, u, i)
  PROVE  StaysReleased(t, u)
  <1> SUFFICES ASSUME NEW j \in DOMAIN t, t[j].state = "released"
               PROVE  u[j].state = "released"
    BY DEF StaysReleased
  <1>1. j \in 1..Len(t)
    BY TableRows
  <1> QED BY <1>1 DEF Changes

(* A step in which processes fade, rows follow and launches move on. *)
LEMMA AccordIsKept ==
  ASSUME NEW t, NEW pr, NEW l, NEW lim, NEW top, Accord(t, pr, l, lim, top),
         NEW u, NEW qr, NEW m \in [Agents -> Launch],
         Fades(pr, qr), Follows(t, u, qr), \A a \in Agents : MovesOn(l[a], m[a])
  PROVE  Accord(u, qr, m, lim, top) /\ StaysReleased(t, u)
  <1>1. t \in Table /\ pr \in Processes /\ Sound(t, pr, l) /\ Counted(t, lim, top)
        /\ top \in [total: Nat, workspace: Nat]
    BY DEF Accord
  <1>2. qr \in Processes /\ Sound(t, qr, l)
    BY <1>1, FadesSound
  <1>3. u \in Table /\ Sound(u, qr, l)
    BY <1>1, <1>2, FollowsSound
  <1>4. Sound(u, qr, m)
    BY <1>3, MovesOnSound
  <1>5. Counted(u, lim, top)
    BY <1>1, FollowsCounted
  <1>6. StaysReleased(t, u)
    BY <1>1, FollowsStaysReleased
  <1> QED BY <1>1, <1>2, <1>3, <1>4, <1>5, <1>6 DEF Accord

LEMMA NoLaunchType == NoLaunch \in Launch
  <1>1. 0 \in 0..MaxRows /\ 0 \in 0..MaxProcs /\ FALSE \in BOOLEAN
    BY AdmissionAssumption, BudgetAssumption
  <1> QED BY <1>1 DEF NoLaunch, Launch

LEMMA FadesItself ==
  ASSUME NEW pr \in Processes
  PROVE  Fades(pr, pr)
  BY DEF Fades

LEMMA MovesOnItself ==
  ASSUME NEW l
  PROVE  MovesOn(l, l)
  BY DEF MovesOn

LEMMA OneProcessFades ==
  ASSUME NEW pr \in Processes, NEW p, NEW r,
         p \in DOMAIN pr =>
           /\ r \in Process
           /\ r.agent = pr[p].agent /\ r.row = pr[p].row /\ r.kind = pr[p].kind
           /\ r.alive => pr[p].alive
           /\ r.exit = pr[p].exit \/ ~r.alive
  PROVE  Fades(pr, [pr EXCEPT ![p] = r])
  <1> DEFINE qr == [pr EXCEPT ![p] = r]
  <1>1. /\ Len(pr) \in Nat /\ Len(pr) <= MaxProcs /\ DOMAIN pr = 1..Len(pr)
        /\ \A q \in DOMAIN pr : pr[q] \in Process
    BY ProcessList
  <1>2. DOMAIN qr = DOMAIN pr /\ \A q \in DOMAIN pr : qr[q] = IF q = p THEN r ELSE pr[q]
    OBVIOUS
  <1>3. qr \in [1..Len(pr) -> Process]
    BY <1>1, <1>2
  <1> HIDE DEF qr
  <1>4. qr \in Seq(Process)
    BY <1>1, <1>3, SeqDef
  <1>5. Len(qr) = Len(pr)
    BY <1>1, <1>2, <1>4, LenProperties
  <1>6. qr \in Processes
    BY <1>1, <1>4, <1>5 DEF Processes
  <1>7. Fades(pr, qr)
    BY <1>2, <1>5, <1>6 DEF Fades
  <1> QED BY <1>7 DEF qr

LEMMA StoppingFades ==
  ASSUME NEW pr \in Processes, NEW p
  PROVE  Fades(pr, [pr EXCEPT ![p].stopping = TRUE])
  <1> DEFINE b == TRUE
             r == [pr[p] EXCEPT !.stopping = b]
  <1>1. ASSUME p \in DOMAIN pr
        PROVE  /\ r \in Process
               /\ r.agent = pr[p].agent /\ r.row = pr[p].row /\ r.kind = pr[p].kind
               /\ r.alive = pr[p].alive /\ r.exit = pr[p].exit
    <2>1. pr[p] \in Process /\ b \in BOOLEAN
      BY <1>1, ProcessList
    <2> HIDE DEF b
    <2> QED BY <2>1 DEF Process
  <1> HIDE DEF r
  <1>2. Fades(pr, [pr EXCEPT ![p] = r])
    BY <1>1, OneProcessFades
  <1> QED BY <1>2 DEF r

LEMMA DeathFades ==
  ASSUME NEW pr \in Processes, NEW p
  PROVE  Fades(pr, [pr EXCEPT ![p].alive = FALSE])
  <1> DEFINE b == FALSE
             r == [pr[p] EXCEPT !.alive = b]
  <1>1. ASSUME p \in DOMAIN pr
        PROVE  /\ r \in Process
               /\ r.agent = pr[p].agent /\ r.row = pr[p].row /\ r.kind = pr[p].kind
               /\ ~r.alive
    <2>1. pr[p] \in Process /\ b \in BOOLEAN /\ b = FALSE
      BY <1>1, ProcessList
    <2> HIDE DEF b
    <2> QED BY <2>1 DEF Process
  <1> HIDE DEF r
  <1>2. Fades(pr, [pr EXCEPT ![p] = r])
    BY <1>1, OneProcessFades
  <1> QED BY <1>2 DEF r

LEMMA ExitFades ==
  ASSUME NEW pr \in Processes, NEW p, p \in DOMAIN pr => ~pr[p].alive,
         NEW s \in {"cleaning", "done"}
  PROVE  Fades(pr, [pr EXCEPT ![p].exit = s])
  <1> DEFINE r == [pr[p] EXCEPT !.exit = s]
  <1>1. ASSUME p \in DOMAIN pr
        PROVE  /\ r \in Process
               /\ r.agent = pr[p].agent /\ r.row = pr[p].row /\ r.kind = pr[p].kind
               /\ ~r.alive
    <2>1. pr[p] \in Process /\ ~pr[p].alive
      BY <1>1, ProcessList
    <2> QED BY <2>1 DEF Process
  <1> HIDE DEF r
  <1>2. Fades(pr, [pr EXCEPT ![p] = r])
    BY <1>1, OneProcessFades
  <1> QED BY <1>2 DEF r

-----------------------------------------------------------------------------
(* The queue, the drain and the other variables.                           *)

Statuses == {"queued", "starting", "started", "failed", "cancelled"}
Queues == {q \in Seq(QueueEntry) : Len(q) <= MaxEntries}
Drains ==
  [phase: {"idle", "run", "await"}, todo: SUBSET (1..MaxEntries),
   from: Workspaces \cup {0}, blocked: SUBSET (1..MaxEntries), progressed: BOOLEAN,
   entry: 0..MaxEntries]

Rest ==
  /\ limits \in Limits /\ changes \in 0..MaxLimitChanges
  /\ queue \in Queues
  /\ cursor \in Workspaces \cup {0}
  /\ paused \subseteq Agents
  /\ instance \in 1..(MaxRestarts + 1)
  /\ drain \in Drains
  /\ woken \in BOOLEAN

(* The inductive invariant. *)
IInv == Accord(rows, proc, launch, limits, peak) /\ Rest

Kept == StaysReleased(rows, rows')

LEMMA QueueList ==
  ASSUME NEW q \in Queues
  PROVE  /\ Len(q) \in Nat /\ Len(q) <= MaxEntries /\ DOMAIN q = 1..Len(q)
         /\ DOMAIN q \subseteq 1..MaxEntries
         /\ \A e \in DOMAIN q : q[e] \in QueueEntry
         /\ q \in Seq(QueueEntry)
  <1>1. /\ Len(q) \in Nat /\ Len(q) <= MaxEntries /\ DOMAIN q = 1..Len(q)
        /\ \A e \in DOMAIN q : q[e] \in QueueEntry
        /\ q \in Seq(QueueEntry)
    BY LenProperties, ElementOfSeq DEF Queues
  <1>2. 1..Len(q) \subseteq 1..MaxEntries
    BY <1>1, AdmissionAssumption
  <1> QED BY <1>1, <1>2

(* Entries that are changed one by one stay a queue. *)
LEMMA EntriesChange ==
  ASSUME NEW q \in Queues, NEW r \in [DOMAIN q -> QueueEntry]
  PROVE  r \in Queues
  <1>1. Len(q) \in Nat /\ DOMAIN q = 1..Len(q) /\ Len(q) <= MaxEntries
    BY QueueList
  <1>2. r \in Seq(QueueEntry)
    BY <1>1, SeqDef
  <1>3. Len(r) = Len(q)
    BY <1>1, <1>2, LenProperties
  <1> QED BY <1>1, <1>2, <1>3 DEF Queues

LEMMA OneEntryChanges ==
  ASSUME NEW q \in Queues, NEW e, NEW r, e \in DOMAIN q => r \in QueueEntry
  PROVE  [q EXCEPT ![e] = r] \in Queues
  <1>1. [q EXCEPT ![e] = r] \in [DOMAIN q -> QueueEntry]
    BY QueueList
  <1> QED BY <1>1, EntriesChange

LEMMA FinishType ==
  ASSUME NEW q \in Queues, NEW e, NEW status \in Statuses
  PROVE  Finish(q, e, status) \in Queues
  <1> DEFINE s == IF q[e].status = "cancelled" THEN "cancelled" ELSE status
             r == [q[e] EXCEPT !.status = s]
  <1>1. Finish(q, e, status) = [q EXCEPT ![e] = r]
    BY DEF Finish
  <1>2. s \in Statuses
    BY DEF Statuses
  <1>3. e \in DOMAIN q => r \in QueueEntry
    <2>1. e \in DOMAIN q => q[e] \in QueueEntry
      BY QueueList
    <2> HIDE DEF s
    <2> QED BY <1>2, <2>1 DEF QueueEntry, Statuses
  <1> HIDE DEF r
  <1>4. [q EXCEPT ![e] = r] \in Queues
    BY <1>3, OneEntryChanges
  <1> QED BY <1>1, <1>4

LEMMA EnqueueType ==
  ASSUME NEW q \in Queues, NEW a \in Agents, Len(q) < MaxEntries
  PROVE  Enqueue(q, a) \in Queues
  <1> DEFINE n == [agent |-> a, status |-> "queued", row |-> 0]
  <1>1. n \in QueueEntry
    BY BudgetAssumption DEF QueueEntry
  <1> HIDE DEF n
  <1>2. Append(q, n) \in Seq(QueueEntry) /\ Len(Append(q, n)) = Len(q) + 1
    BY <1>1, QueueList, AppendProperties
  <1>3. Len(q) + 1 <= MaxEntries
    BY QueueList, AdmissionAssumption
  <1>4. Append(q, n) \in Queues
    BY <1>2, <1>3 DEF Queues
  <1>5. Enqueue(q, a) \in {q, Append(q, n)}
    BY DEF Enqueue, n
  <1> QED BY <1>4, <1>5

LEMMA RequeueType ==
  ASSUME NEW q \in Queues
  PROVE  Requeue(q) \in Queues
  <1>1. ASSUME NEW e \in DOMAIN q PROVE [q[e] EXCEPT !.status = "queued"] \in QueueEntry
    <2>1. q[e] \in QueueEntry
      BY QueueList
    <2> QED BY <2>1 DEF QueueEntry
  <1>2. Requeue(q) \in [DOMAIN q -> QueueEntry]
    BY <1>1, QueueList DEF Requeue
  <1> QED BY <1>2, EntriesChange

LEMMA CancelledType ==
  ASSUME queue \in Queues, NEW a
  PROVE  [e \in Entries |-> IF e \in OpenEntries(a)
            THEN [queue[e] EXCEPT !.status = "cancelled"] ELSE queue[e]] \in Queues
  <1>1. ASSUME NEW e \in DOMAIN queue
        PROVE  [queue[e] EXCEPT !.status = "cancelled"] \in QueueEntry /\ queue[e] \in QueueEntry
    <2>1. queue[e] \in QueueEntry
      BY QueueList
    <2> QED BY <2>1 DEF QueueEntry
  <1>2. [e \in Entries |-> IF e \in OpenEntries(a)
            THEN [queue[e] EXCEPT !.status = "cancelled"] ELSE queue[e]]
        \in [DOMAIN queue -> QueueEntry]
    BY <1>1 DEF Entries
  <1> QED BY <1>2, EntriesChange

LEMMA NoDrainType == NoDrain \in Drains
  <1>1. 0 \in 0..MaxEntries /\ 0 \in Workspaces \cup {0} /\ FALSE \in BOOLEAN
    BY AdmissionAssumption
  <1> QED BY <1>1 DEF NoDrain, Drains

LEMMA RoundType ==
  ASSUME Rest, NEW d \in Drains
  PROVE  Round(d) \in Drains
  <1>1. Heads \subseteq 1..MaxEntries
    BY QueueList DEF Rest, Heads, Entries
  <1>2. cursor \in Workspaces \cup {0} /\ FALSE \in BOOLEAN
    BY DEF Rest
  <1> HIDE DEF Rest
  <1> QED BY <1>1, <1>2 DEF Round, Drains

LEMMA PhaseType ==
  ASSUME NEW d \in Drains, NEW phase \in {"idle", "run", "await"}
  PROVE  [d EXCEPT !.phase = phase] \in Drains
  BY DEF Drains

LEMMA VisitedType ==
  ASSUME NEW d \in Drains, NEW e \in 1..MaxEntries
  PROVE  /\ [d EXCEPT !.todo = @ \ {e}] \in Drains
         /\ [d EXCEPT !.todo = @ \ {e}, !.progressed = TRUE] \in Drains
         /\ [d EXCEPT !.todo = @ \ {e}, !.progressed = TRUE, !.entry = e] \in Drains
         /\ [d EXCEPT !.blocked = @ \cup {e}] \in Drains
  <1> DEFINE b == TRUE
             s == d.todo \ {e}
             c == d.blocked \cup {e}
  <1>1. b \in BOOLEAN /\ s \in SUBSET (1..MaxEntries) /\ c \in SUBSET (1..MaxEntries)
        /\ e \in 0..MaxEntries
    BY DEF Drains
  <1> HIDE DEF b, s, c
  <1>2. /\ [d EXCEPT !.todo = s] \in Drains
        /\ [d EXCEPT !.todo = s, !.progressed = b] \in Drains
        /\ [d EXCEPT !.todo = s, !.progressed = b, !.entry = e] \in Drains
        /\ [d EXCEPT !.blocked = c] \in Drains
    BY <1>1 DEF Drains
  <1> QED BY <1>2 DEF b, s, c

LEMMA SettleType ==
  ASSUME Rest, NEW a, NEW status \in Statuses, Settle(a, status)
  PROVE  queue' \in Queues /\ drain' \in Drains
  <1>1. queue \in Queues /\ drain \in Drains
    BY DEF Rest
  <1>2. CASE AwaitedBy(a) = 0
    BY <1>1, <1>2 DEF Settle
  <1>3. CASE AwaitedBy(a) # 0
    <2>1. queue' = Finish(queue, AwaitedBy(a), status)
          /\ drain' = [drain EXCEPT !.phase = "run"]
      BY <1>3 DEF Settle
    <2> QED BY <1>1, <2>1, FinishType, PhaseType
  <1> QED BY <1>2, <1>3

(* A launch ends once its row has followed what happened to its processes. *)
LEMMA LaunchEndsWell ==
  ASSUME Rest, NEW a \in Agents, NEW t, NEW u, LaunchEnds(a, u),
         Accord(t, proc, launch, limits, peak), Fades(proc, proc'), Follows(t, u, proc')
  PROVE  /\ Accord(rows', proc', launch', limits, peak) /\ StaysReleased(t, rows')
         /\ queue' \in Queues /\ drain' \in Drains
  <1>1. launch \in [Agents -> Launch] /\ t \in Table
    BY DEF Accord
  <1>2. launch' = [launch EXCEPT ![a] = NoLaunch] /\ Settle(a, "failed")
    BY DEF LaunchEnds
  <1>3. NoLaunch \in Launch
    BY NoLaunchType
  <1>4. launch' \in [Agents -> Launch] /\ \A b \in Agents : MovesOn(launch[b], launch'[b])
    BY <1>1, <1>2, <1>3 DEF MovesOn, NoLaunch
  <1>5. Follows(t, rows', proc')
    <2>1. CASE AwaitedBy(a) = 0
      <3>1. rows' = u
        BY <2>1 DEF LaunchEnds
      <3> QED BY <3>1
    <2>2. CASE AwaitedBy(a) # 0
      <3>1. rows' = ReleaseUnspawned(u, queue[AwaitedBy(a)].row)
        BY <2>2 DEF LaunchEnds
      <3>2. u \in Table
        BY DEF Follows
      <3>3. Follows(u, rows', proc')
        BY <3>1, <3>2, ReleaseUnspawnedFollows
      <3> QED BY <1>1, <3>3, FollowsTransitive
    <2> QED BY <2>1, <2>2
  <1>6. queue' \in Queues /\ drain' \in Drains
    BY <1>2, SettleType DEF Statuses
  <1>7. Accord(rows', proc', launch', limits, peak) /\ StaysReleased(t, rows')
    BY <1>4, <1>5, AccordIsKept
  <1> QED BY <1>6, <1>7

-----------------------------------------------------------------------------
(* What a step does, in terms of the lemmas above.                         *)

LEMMA MayReserveFits ==
  ASSUME NEW t, NEW lim, NEW inst, NEW a, MayReserve(t, lim, inst, a)
  PROVE  Fits(t, lim, a)
  BY DEF MayReserve, Fits

LEMMA ReserveAccord ==
  ASSUME NEW t, NEW pr, NEW l, NEW lim \in Limits, NEW top, Accord(t, pr, l, lim, top),
         NEW inst \in Nat, NEW a \in Agents, MayReserve(t, lim, inst, a)
  PROVE  LET u == Reserve(t, inst, a)
             i == ReserveId(t, a)
         IN /\ Accord(u, pr, l, lim, top) /\ StaysReleased(t, u)
            /\ i \in 1..Len(u) /\ u[i].agent = a /\ i \in 0..MaxRows
  <1> DEFINE u == Reserve(t, inst, a)
             i == ReserveId(t, a)
  <1>1. Fits(t, lim, a)
    BY MayReserveFits
  <1>2. t \in Table /\ pr \in Processes /\ Sound(t, pr, l) /\ Counted(t, lim, top)
        /\ top \in [total: Nat, workspace: Nat] /\ l \in [Agents -> Launch]
    BY DEF Accord
  <1>3. u \in Table /\ i \in 1..Len(u) /\ u[i].agent = a /\ \A j \in 1..Len(t) : u[j] = t[j]
    BY <1>1, <1>2, ReserveRows
  <1>4. Sound(u, pr, l) /\ Counted(u, lim, top)
    BY <1>1, <1>2, ReserveSound, ReserveCounted
  <1> HIDE DEF u, i
  <1>5. Accord(u, pr, l, lim, top)
    BY <1>2, <1>3, <1>4 DEF Accord
  <1>6. StaysReleased(t, u)
    BY <1>2, <1>3, TableRows DEF StaysReleased
  <1>7. i \in 0..MaxRows
    BY <1>3, TableRows, BudgetAssumption
  <1> QED BY <1>3, <1>5, <1>6, <1>7 DEF u, i

LEMMA NewLaunchAccord ==
  ASSUME NEW t, NEW pr, NEW l, NEW lim, NEW top, Accord(t, pr, l, lim, top),
         NEW a \in Agents, NEW i \in 1..Len(t), NEW e \in Nat, t[i].agent = a
  PROVE  Accord(t, pr, [l EXCEPT ![a] = NewLaunch(i, e)], lim, top)
  <1>1. t \in Table /\ pr \in Processes /\ Sound(t, pr, l) /\ Counted(t, lim, top)
        /\ top \in [total: Nat, workspace: Nat] /\ l \in [Agents -> Launch]
    BY DEF Accord
  <1>2. /\ [l EXCEPT ![a] = NewLaunch(i, e)] \in [Agents -> Launch]
        /\ Sound(t, pr, [l EXCEPT ![a] = NewLaunch(i, e)])
    BY <1>1, NewLaunchSound
  <1> QED BY <1>1, <1>2 DEF Accord

LEMMA LaunchFields ==
  ASSUME NEW l \in [Agents -> Launch], NEW a \in Agents
  PROVE  /\ l[a].entry \in Nat /\ l[a].row \in 0..MaxRows /\ l[a].proc \in 0..MaxProcs
         /\ l[a].aborted \in BOOLEAN
  BY DEF Launch

LEMMA SpawnAccord ==
  ASSUME NEW t, NEW pr, NEW l, NEW lim, NEW top, Accord(t, pr, l, lim, top),
         NEW a \in Agents, NEW kind \in {"pty", "helper"},
         NEW phase \in {"connecting", "helping"}, phase = "helping" => kind = "helper",
         l[a].phase = "preparing", t[l[a].row].state = "reserved", Len(pr) < MaxProcs
  PROVE  LET u == BeginSpawn(t, l[a].row)
         IN /\ Accord(u, Append(pr, NewProcess(a, l[a].row, kind, l[a].entry)),
                      [l EXCEPT ![a].phase = phase, ![a].proc = Len(pr) + 1], lim, top)
            /\ StaysReleased(t, u)
  <1> DEFINE u == BeginSpawn(t, l[a].row)
             qr == Append(pr, NewProcess(a, l[a].row, kind, l[a].entry))
             n == [l[a] EXCEPT !.phase = phase, !.proc = Len(pr) + 1]
             m == [l EXCEPT ![a] = n]
  <1>1. t \in Table /\ pr \in Processes /\ Sound(t, pr, l) /\ Counted(t, lim, top)
        /\ top \in [total: Nat, workspace: Nat] /\ l \in [Agents -> Launch]
    BY DEF Accord
  <1>2. l[a] \in Launch /\ Len(pr) + 1 \in 0..MaxProcs /\ l[a].entry \in Nat
    BY <1>1, ProcessList, LaunchFields, AdmissionAssumption
  <1>3. n \in Launch /\ n.phase = phase /\ n.proc = Len(pr) + 1 /\ n.row = l[a].row
    BY <1>2 DEF Launch
  <1> HIDE DEF n
  <1>4. m \in [Agents -> Launch] /\ m[a] = n /\ \A b \in Agents : b # a => m[b] = l[b]
    BY <1>1, <1>3
  <1> HIDE DEF m
  <1>5. Changes(t, u, l[a].row) /\ qr \in Processes /\ Sound(u, qr, m)
    <2> SUFFICES LET v == BeginSpawn(t, l[a].row)
                     q == Append(pr, NewProcess(a, l[a].row, kind, l[a].entry))
                 IN Changes(t, v, l[a].row) /\ q \in Processes /\ Sound(v, q, m)
      OBVIOUS
    <2> HIDE DEF u, qr
    <2>1. /\ m[a].row = l[a].row /\ m[a].proc = Len(pr) + 1
          /\ m[a].phase \in {"connecting", "helping"}
          /\ m[a].phase = "helping" => kind = "helper"
      BY <1>3, <1>4
    <2> QED BY <1>1, <1>2, <1>4, <2>1, SpawnSound
  <1> HIDE DEF u, qr
  <1>6. u \in Table /\ Counted(u, lim, top) /\ StaysReleased(t, u)
    <2>1. u \in Table
      BY <1>5 DEF Changes
    <2> QED BY <1>1, <1>5, <2>1, ChangesCounted, ChangesStaysReleased
  <1>7. Accord(u, qr, m, lim, top)
    BY <1>1, <1>4, <1>5, <1>6 DEF Accord
  <1>8. m = [l EXCEPT ![a].phase = phase, ![a].proc = Len(pr) + 1]
    BY DEF m, n
  <1> QED BY <1>6, <1>7, <1>8 DEF u, qr

(* A row that changes for its own processes. *)
LEMMA ChangesAccord ==
  ASSUME NEW t, NEW pr, NEW l, NEW lim, NEW top, Accord(t, pr, l, lim, top),
         NEW u, NEW i, Changes(t, u, i), Sound(u, pr, l)
  PROVE  Accord(u, pr, l, lim, top) /\ StaysReleased(t, u)
  <1>1. t \in Table /\ pr \in Processes /\ Sound(t, pr, l) /\ Counted(t, lim, top)
        /\ top \in [total: Nat, workspace: Nat] /\ l \in [Agents -> Launch]
    BY DEF Accord
  <1>2. u \in Table
    BY DEF Changes
  <1> QED BY <1>1, <1>2, ChangesCounted, ChangesStaysReleased DEF Accord

LEMMA StaysReleasedTransitive ==
  ASSUME NEW t \in Table, NEW u, NEW v, Len(u) = Len(t), u \in Table,
         StaysReleased(t, u), StaysReleased(u, v)
  PROVE  StaysReleased(t, v)
  <1>1. DOMAIN u = DOMAIN t
    BY TableRows
  <1> QED BY <1>1 DEF StaysReleased

(* Processes fade, rows follow, launches move on, limits stay. *)
LEMMA QuietStep ==
  ASSUME IInv, Fades(proc, proc'), Follows(rows, rows', proc'),
         launch' \in [Agents -> Launch], \A a \in Agents : MovesOn(launch[a], launch'[a]),
         UNCHANGED <<limits, peak>>, Rest'
  PROVE  IInv' /\ Kept
  <1>1. Accord(rows, proc, launch, limits, peak)
    BY DEF IInv
  <1>2. Accord(rows', proc', launch', limits, peak) /\ StaysReleased(rows, rows')
    BY <1>1, AccordIsKept
  <1>3. limits' = limits /\ peak' = peak
    OBVIOUS
  <1> QED BY <1>2, <1>3 DEF IInv, Kept

LEMMA InvariantParts ==
  ASSUME IInv
  PROVE  /\ rows \in Table /\ proc \in Processes /\ launch \in [Agents -> Launch]
         /\ peak \in [total: Nat, workspace: Nat]
         /\ Sound(rows, proc, launch) /\ Counted(rows, limits, peak)
         /\ Accord(rows, proc, launch, limits, peak) /\ Rest
         /\ limits \in Limits /\ instance \in Nat
         /\ queue \in Queues /\ drain \in Drains
  <1>1. instance \in 1..(MaxRestarts + 1) /\ limits \in Limits /\ queue \in Queues
        /\ drain \in Drains
    BY DEF IInv, Rest
  <1>2. instance \in Nat
    BY <1>1, AdmissionAssumption
  <1> QED BY <1>1, <1>2 DEF IInv, Accord

-----------------------------------------------------------------------------
(* The steps of a launch.                                                  *)

LEMMA SpawnSteps ==
  ASSUME IInv, NEW a \in Agents, Spawn(a) \/ HelperSpawn(a)
  PROVE  IInv' /\ Kept
  <1>1. MaySpawn(a) /\ rows' = BeginSpawn(rows, launch[a].row)
        /\ UNCHANGED <<limits, changes, queue, cursor, paused, instance, drain, woken, peak>>
    BY DEF Spawn, HelperSpawn
  <1>2. launch[a].phase = "preparing" /\ rows[launch[a].row].state = "reserved"
        /\ Len(proc) < MaxProcs
    BY <1>1 DEF MaySpawn, IsReserved
  <1>3. PICK kind \in {"pty", "helper"}, phase \in {"connecting", "helping"} :
          /\ phase = "helping" => kind = "helper"
          /\ proc' = Append(proc, NewProcess(a, launch[a].row, kind, launch[a].entry))
          /\ launch' = [launch EXCEPT ![a].phase = phase, ![a].proc = Len(proc) + 1]
    BY DEF Spawn, HelperSpawn
  <1>4. Accord(rows, proc, launch, limits, peak)
    BY DEF IInv
  <1>5. Accord(rows', proc', launch', limits, peak) /\ StaysReleased(rows, rows')
    BY <1>1, <1>2, <1>3, <1>4, SpawnAccord
  <1>6. Rest'
    BY <1>1 DEF IInv, Rest
  <1> QED BY <1>1, <1>5, <1>6 DEF IInv, Kept

(* Launches that end before their spawn, or for which it throws. *)
LEMMA UnspawnedSteps ==
  ASSUME IInv, NEW a \in Agents, SpawnThrows(a) \/ PreparationFails(a)
  PROVE  IInv' /\ Kept
  <1>1. UNCHANGED <<limits, changes, cursor, paused, instance, proc, peak>> /\ woken' = TRUE
    BY DEF SpawnThrows, PreparationFails
  <1>2. PICK u : LaunchEnds(a, u) /\ Follows(rows, u, proc')
    <2> DEFINE i == launch[a].row
    <2>1. CASE SpawnThrows(a)
      <3>1. rows[i].state = "reserved" /\ LaunchEnds(a, ReleaseExited(BeginSpawn(rows, i), i))
        BY <2>1 DEF SpawnThrows, MaySpawn, IsReserved
      <3> HIDE DEF i
      <3>2. Follows(rows, ReleaseExited(BeginSpawn(rows, i), i), proc')
        BY <3>1, InvariantParts, SpawnThrowsFollows
      <3> QED BY <3>1, <3>2
    <2>2. CASE PreparationFails(a)
      <3>1. LaunchEnds(a, ReleaseUnspawned(rows, i))
        BY <2>2 DEF PreparationFails
      <3> HIDE DEF i
      <3>2. Follows(rows, ReleaseUnspawned(rows, i), proc')
        BY InvariantParts, ReleaseUnspawnedFollows
      <3> QED BY <3>1, <3>2
    <2> QED BY <2>1, <2>2
  <1>3. Fades(proc, proc')
    BY <1>1, InvariantParts, FadesItself
  <1>4. /\ Accord(rows', proc', launch', limits, peak) /\ StaysReleased(rows, rows')
        /\ queue' \in Queues /\ drain' \in Drains
    BY <1>2, <1>3, InvariantParts, LaunchEndsWell
  <1>5. Rest'
    BY <1>1, <1>4 DEF IInv, Rest
  <1> QED BY <1>1, <1>4, <1>5 DEF IInv, Kept

LEMMA ConnectedStep ==
  ASSUME IInv, NEW a \in Agents, Connected(a)
  PROVE  IInv' /\ Kept
  <1> DEFINE i == launch[a].row
             p == launch[a].proc
             u == MarkStarted(rows, i, p)
             n == IF proc[p].exit # "no" THEN NoLaunch ELSE [launch[a] EXCEPT !.phase = "running"]
  <1>1. /\ launch[a].phase = "connecting" /\ MayMarkStarted(rows, instance, i, p)
        /\ rows' = u /\ launch' = [launch EXCEPT ![a] = n]
        /\ \E status \in {"started", "failed"} : Settle(a, status)
        /\ UNCHANGED <<limits, changes, cursor, paused, instance, proc, woken, peak>>
    BY DEF Connected
  <1>2. Changes(rows, u, i) /\ Sound(u, proc, launch)
    BY <1>1, InvariantParts, MarkStartedSound
  <1>3. n \in Launch /\ MovesOn(launch[a], n)
    <2>1. NoLaunch \in Launch
      BY NoLaunchType
    <2>2. launch[a] \in Launch
      BY InvariantParts
    <2>3. [launch[a] EXCEPT !.phase = "running"] \in Launch
          /\ MovesOn(launch[a], [launch[a] EXCEPT !.phase = "running"])
      BY <1>1, <2>2 DEF Launch, MovesOn
    <2>4. MovesOn(launch[a], NoLaunch)
      BY DEF MovesOn, NoLaunch
    <2> QED BY <2>1, <2>3, <2>4
  <1> HIDE DEF n, u, i
  <1>4. Accord(u, proc, launch, limits, peak) /\ StaysReleased(rows, u) /\ u \in Table
    BY <1>2, InvariantParts, ChangesAccord DEF Accord
  <1>5. launch' \in [Agents -> Launch] /\ \A b \in Agents : MovesOn(launch[b], launch'[b])
    BY <1>1, <1>3, InvariantParts, MovesOnItself
  <1>6. Accord(u, proc, launch', limits, peak)
    BY <1>4, <1>5, InvariantParts, FadesItself, FollowsItself, AccordIsKept
  <1>7. queue' \in Queues /\ drain' \in Drains
    BY <1>1, InvariantParts, SettleType DEF Statuses
  <1>8. Rest'
    BY <1>1, <1>7 DEF IInv, Rest
  <1> QED BY <1>1, <1>4, <1>6, <1>8 DEF IInv, Kept

LEMMA ConnectFailsStep ==
  ASSUME IInv, NEW a \in Agents, NEW registered \in BOOLEAN, ConnectFails(a, registered)
  PROVE  IInv' /\ Kept
  <1> DEFINE i == launch[a].row
             p == launch[a].proc
  <1>1. /\ launch[a].phase = "connecting"
        /\ registered => MayMarkStarted(rows, instance, i, p)
        /\ rows' = IF registered THEN MarkStarted(rows, i, p) ELSE rows
        /\ launch' = [launch EXCEPT ![a].phase = "failing"]
        /\ proc' = [proc EXCEPT ![p].stopping = TRUE]
        /\ UNCHANGED <<limits, changes, queue, cursor, paused, instance, drain, woken, peak>>
    BY DEF ConnectFails
  <1>2. Accord(rows', proc, launch, limits, peak) /\ StaysReleased(rows, rows')
    <2>1. CASE registered
      <3>1. rows' = MarkStarted(rows, i, p) /\ MayMarkStarted(rows, instance, i, p)
        BY <1>1, <2>1
      <3>2. Changes(rows, rows', i) /\ Sound(rows', proc, launch)
        BY <1>1, <3>1, InvariantParts, MarkStartedSound
      <3> HIDE DEF i, p
      <3> QED BY <3>2, InvariantParts, ChangesAccord
    <2>2. CASE ~registered
      <3>1. rows' = rows
        BY <1>1, <2>2
      <3> QED BY <3>1, InvariantParts DEF StaysReleased
    <2> QED BY <2>1, <2>2
  <1>3. launch' \in [Agents -> Launch] /\ \A b \in Agents : MovesOn(launch[b], launch'[b])
    <2>1. launch[a] \in Launch
      BY InvariantParts
    <2>2. [launch[a] EXCEPT !.phase = "failing"] \in Launch
          /\ MovesOn(launch[a], [launch[a] EXCEPT !.phase = "failing"])
      BY <1>1, <2>1 DEF Launch, MovesOn
    <2> QED BY <1>1, <2>2, InvariantParts, MovesOnItself
  <1> HIDE DEF p
  <1>4. Fades(proc, proc')
    BY <1>1, InvariantParts, StoppingFades
  <1>5. rows' \in Table
    BY <1>2 DEF Accord
  <1>6. Accord(rows', proc', launch', limits, peak)
    BY <1>2, <1>3, <1>4, <1>5, FollowsItself, AccordIsKept
  <1>7. Rest'
    BY <1>1 DEF IInv, Rest
  <1> QED BY <1>1, <1>2, <1>6, <1>7 DEF IInv, Kept

(* Launches that end after their spawn. *)
LEMMA EndSteps ==
  ASSUME IInv, NEW a \in Agents, KillFails(a) \/ LaunchFailed(a) \/ HelperUnconfirmed(a)
  PROVE  IInv' /\ Kept
  <1> DEFINE i == launch[a].row
  <1>1. UNCHANGED <<limits, changes, cursor, paused, instance, woken, peak>>
    BY DEF KillFails, LaunchFailed, HelperUnconfirmed
  <1>2. Fades(proc, proc')
    <2>1. CASE KillFails(a) \/ LaunchFailed(a)
      <3>1. proc' = proc
        BY <2>1 DEF KillFails, LaunchFailed
      <3> QED BY <3>1, InvariantParts, FadesItself
    <2>2. CASE HelperUnconfirmed(a)
      <3>1. proc' = [proc EXCEPT ![launch[a].proc].exit = "done"]
            /\ ~proc[launch[a].proc].alive
        BY <2>2 DEF HelperUnconfirmed, Live
      <3> QED BY <3>1, InvariantParts, ExitFades
    <2> QED BY <2>1, <2>2
  <1>3. LaunchEnds(a, MarkRecoveryBlocked(rows, i)) \/ LaunchEnds(a, rows)
    BY DEF KillFails, LaunchFailed, HelperUnconfirmed
  <1> HIDE DEF i
  <1>4. PICK u : LaunchEnds(a, u) /\ Follows(rows, u, proc')
    BY <1>3, InvariantParts, MarkRecoveryBlockedFollows, FollowsItself
  <1>5. /\ Accord(rows', proc', launch', limits, peak) /\ StaysReleased(rows, rows')
        /\ queue' \in Queues /\ drain' \in Drains
    BY <1>2, <1>4, InvariantParts, LaunchEndsWell
  <1>6. Rest'
    BY <1>1, <1>5 DEF IInv, Rest
  <1> QED BY <1>1, <1>5, <1>6 DEF IInv, Kept

LEMMA HelperStartedStep ==
  ASSUME IInv, NEW a \in Agents, HelperStarted(a)
  PROVE  IInv' /\ Kept
  <1>1. /\ launch[a].phase = "helping"
        /\ MayMarkStarted(rows, instance, launch[a].row, launch[a].proc)
        /\ rows' = MarkStarted(rows, launch[a].row, launch[a].proc)
        /\ UNCHANGED <<limits, changes, queue, cursor, paused, instance, proc, launch,
                       drain, woken, peak>>
    BY DEF HelperStarted
  <1>2. Changes(rows, rows', launch[a].row) /\ Sound(rows', proc, launch)
    BY <1>1, InvariantParts, MarkStartedSound
  <1>3. Accord(rows', proc, launch, limits, peak) /\ StaysReleased(rows, rows')
    BY <1>2, InvariantParts, ChangesAccord
  <1>4. Rest'
    BY <1>1 DEF IInv, Rest
  <1> QED BY <1>1, <1>3, <1>4 DEF IInv, Kept

LEMMA HelperStoppedStep ==
  ASSUME IInv, NEW a \in Agents, HelperStopped(a)
  PROVE  IInv' /\ Kept
  <1>1. /\ proc' = [proc EXCEPT ![launch[a].proc].stopping = TRUE]
        /\ UNCHANGED <<rows, limits, changes, queue, cursor, paused, instance, launch,
                       drain, woken, peak>>
    BY DEF HelperStopped
  <1>2. Fades(proc, proc')
    BY <1>1, InvariantParts, StoppingFades
  <1>3. Follows(rows, rows', proc')
    BY <1>1, InvariantParts, FollowsItself
  <1>4. launch' \in [Agents -> Launch] /\ \A b \in Agents : MovesOn(launch[b], launch'[b])
    BY <1>1, InvariantParts, MovesOnItself
  <1>5. Rest'
    BY <1>1 DEF IInv, Rest
  <1> QED BY <1>1, <1>2, <1>3, <1>4, <1>5, QuietStep

LEMMA HelperClosedStep ==
  ASSUME IInv, NEW a \in Agents, NEW succeeded \in BOOLEAN, HelperClosed(a, succeeded)
  PROVE  IInv' /\ Kept
  <1> DEFINE i == launch[a].row
             p == launch[a].proc
             u == FinishPreparation(rows, i)
  <1>1. /\ launch[a].phase = "helping" /\ ~proc[p].alive
        /\ MayFinishPreparation(rows, instance, i, p)
        /\ proc' = [proc EXCEPT ![p].exit = "done"]
        /\ UNCHANGED <<limits, changes, cursor, paused, instance, peak>>
    BY DEF HelperClosed, Live
  <1>2. Changes(rows, u, i) /\ Sound(u, proc, launch)
    BY <1>1, InvariantParts, FinishPreparationSound
  <1>3. CASE succeeded
    <2> DEFINE n == [launch[a] EXCEPT !.phase = "preparing", !.proc = 0]
    <2>1. /\ rows' = u /\ launch' = [launch EXCEPT ![a] = n]
          /\ UNCHANGED <<queue, drain, woken>>
      BY <1>3 DEF HelperClosed
    <2>2. n \in Launch /\ MovesOn(launch[a], n)
      <3>1. launch[a] \in Launch /\ 0 \in 0..MaxProcs
        BY InvariantParts, AdmissionAssumption
      <3> QED BY <1>1, <3>1 DEF Launch, MovesOn
    <2> HIDE DEF n, u, i, p
    <2>3. launch' \in [Agents -> Launch] /\ \A b \in Agents : MovesOn(launch[b], launch'[b])
      BY <2>1, <2>2, InvariantParts, MovesOnItself
    <2>4. Accord(u, proc, launch, limits, peak) /\ StaysReleased(rows, u) /\ u \in Table
      BY <1>2, InvariantParts, ChangesAccord DEF Accord
    <2>5. Fades(proc, proc')
      BY <1>1, InvariantParts, ExitFades
    <2>6. Accord(u, proc', launch', limits, peak)
      BY <2>3, <2>4, <2>5, FollowsItself, AccordIsKept
    <2>7. Rest'
      BY <1>1, <2>1 DEF IInv, Rest
    <2> QED BY <1>1, <2>1, <2>4, <2>6, <2>7 DEF IInv, Kept
  <1>4. CASE ~succeeded
    <2>1. LaunchEnds(a, ReleaseUnspawned(u, i)) /\ woken' = TRUE
      BY <1>4 DEF HelperClosed
    <2> HIDE DEF u, i, p
    <2>2. Accord(u, proc, launch, limits, peak) /\ StaysReleased(rows, u) /\ u \in Table
      BY <1>2, InvariantParts, ChangesAccord DEF Accord
    <2>3. Fades(proc, proc')
      BY <1>1, InvariantParts, ExitFades
    <2>4. Follows(u, ReleaseUnspawned(u, i), proc')
      BY <2>2, ReleaseUnspawnedFollows
    <2>5. /\ Accord(rows', proc', launch', limits, peak) /\ StaysReleased(u, rows')
          /\ queue' \in Queues /\ drain' \in Drains
      BY <2>1, <2>2, <2>3, <2>4, InvariantParts, LaunchEndsWell
    <2>6. StaysReleased(rows, rows')
      <3>1. Len(u) = Len(rows)
        BY <1>2 DEF Changes
      <3> QED BY <2>2, <2>5, <3>1, InvariantParts, StaysReleasedTransitive
    <2>7. Rest'
      BY <1>1, <2>1, <2>5 DEF IInv, Rest
    <2> QED BY <1>1, <2>5, <2>6, <2>7 DEF IInv, Kept
  <1> QED BY <1>3, <1>4

-----------------------------------------------------------------------------
(* The steps of processes and their exits.                                 *)

LEMMA ProcessDiesStep ==
  ASSUME IInv, NEW p \in Pids, ProcessDies(p)
  PROVE  IInv' /\ Kept
  <1>1. /\ proc' = [proc EXCEPT ![p].alive = FALSE]
        /\ UNCHANGED <<rows, limits, changes, queue, cursor, paused, instance, launch,
                       drain, woken, peak>>
    BY DEF ProcessDies
  <1>2. Fades(proc, proc')
    BY <1>1, InvariantParts, DeathFades
  <1>3. Follows(rows, rows', proc')
    BY <1>1, InvariantParts, FollowsItself
  <1>4. launch' \in [Agents -> Launch] /\ \A b \in Agents : MovesOn(launch[b], launch'[b])
    BY <1>1, InvariantParts, MovesOnItself
  <1>5. Rest'
    BY <1>1 DEF IInv, Rest
  <1> QED BY <1>1, <1>2, <1>3, <1>4, <1>5, QuietStep

LEMMA NativeExitStep ==
  ASSUME IInv, NEW p \in Pids, NativeExit(p)
  PROVE  IInv' /\ Kept
  <1> DEFINE a == proc[p].agent
  <1>1. /\ ~proc[p].alive /\ proc' = [proc EXCEPT ![p].exit = "cleaning"]
        /\ launch' = launch \/ launch' = [launch EXCEPT ![a] = NoLaunch]
        /\ UNCHANGED <<rows, limits, changes, queue, cursor, paused, instance, drain,
                       woken, peak>>
    BY DEF NativeExit, Live
  <1>2. Fades(proc, proc')
    BY <1>1, InvariantParts, ExitFades
  <1>3. Follows(rows, rows', proc')
    BY <1>1, InvariantParts, FollowsItself
  <1>4. launch' \in [Agents -> Launch] /\ \A b \in Agents : MovesOn(launch[b], launch'[b])
    <2>1. MovesOn(launch[a], NoLaunch)
      BY DEF MovesOn, NoLaunch
    <2> HIDE DEF a
    <2> QED BY <1>1, <2>1, InvariantParts, NoLaunchType, MovesOnItself
  <1>5. Rest'
    BY <1>1 DEF IInv, Rest
  <1> QED BY <1>1, <1>2, <1>3, <1>4, <1>5, QuietStep

(* Nothing lives in the row of a terminal whose exit was seen. *)
LEMMA ExitLeavesNothing ==
  ASSUME NEW t, NEW pr \in Processes, NEW l, Sound(t, pr, l), NEW p \in DOMAIN pr,
         pr[p].kind = "pty", pr[p].exit # "no"
  PROVE  ~pr[p].alive /\ Dead(pr, pr[p].row)
  <1>1. ~pr[p].alive
    BY DEF Sound, ProcessSound
  <1>2. ASSUME NEW q \in DOMAIN pr, pr[q].row = pr[p].row PROVE ~pr[q].alive
    <2>1. p \in Nat /\ q \in Nat
      BY ProcessList
    <2>2. CASE q = p
      BY <1>1, <2>2
    <2>3. CASE q < p
      BY <1>2, <2>3 DEF Sound, SlotsAreReused
    <2>4. CASE p < q
      BY <1>2, <2>4 DEF Sound, SlotsAreReused
    <2> QED BY <2>1, <2>2, <2>3, <2>4
  <1> QED BY <1>1, <1>2 DEF Dead

LEMMA ExitSteps ==
  ASSUME IInv, NEW p \in Pids, ConfirmExit(p) \/ CleanupFails(p)
  PROVE  IInv' /\ Kept
  <1> DEFINE i == proc[p].row
  <1>1. /\ proc[p].kind = "pty" /\ proc[p].exit # "no"
        /\ proc' = [proc EXCEPT ![p].exit = "done"]
        /\ rows' = ReleaseExited(rows, i) \/ rows' = MarkRecoveryBlocked(rows, i)
        /\ woken' \in {TRUE, woken}
        /\ UNCHANGED <<limits, changes, queue, cursor, paused, instance, launch, drain, peak>>
    BY DEF ConfirmExit, CleanupFails, Cleaning
  <1>2. ~proc[p].alive /\ Dead(proc, i)
    BY <1>1, InvariantParts, ExitLeavesNothing DEF Pids
  <1> HIDE DEF i
  <1>3. Fades(proc, proc')
    BY <1>1, <1>2, InvariantParts, ExitFades
  <1>4. Dead(proc', i)
    <2>1. DOMAIN proc' = DOMAIN proc
      BY <1>1
    <2> QED BY <1>2, <1>3, <2>1 DEF Dead, Fades
  <1>5. Follows(rows, rows', proc')
    BY <1>1, <1>4, InvariantParts, ReleaseExitedFollows, MarkRecoveryBlockedFollows
  <1>6. launch' \in [Agents -> Launch] /\ \A b \in Agents : MovesOn(launch[b], launch'[b])
    BY <1>1, InvariantParts, MovesOnItself
  <1>7. Rest'
    BY <1>1 DEF IInv, Rest
  <1> QED BY <1>1, <1>3, <1>5, <1>6, <1>7, QuietStep

-----------------------------------------------------------------------------
(* Steps that leave rows, processes and launches alone.                    *)

LEMMA IdleStep ==
  ASSUME IInv, UNCHANGED <<rows, proc, launch, limits, peak>>, Rest'
  PROVE  IInv' /\ Kept
  BY DEF IInv, Kept, StaysReleased

LEMMA DrainSteps ==
  ASSUME IInv, DrainStarts \/ DrainPassEnds \/ WaitTimer
  PROVE  IInv' /\ Kept
  <1>1. UNCHANGED <<rows, limits, changes, queue, cursor, paused, instance, proc, launch, peak>>
        /\ woken' \in {TRUE, FALSE, woken}
    BY DEF DrainStarts, DrainPassEnds, WaitTimer
  <1>2. drain' \in Drains
    <2> DEFINE d == [NoDrain EXCEPT !.phase = "run"]
    <2>1. drain' \in {Round(d), Round(drain), NoDrain, drain}
      BY DEF DrainStarts, DrainPassEnds, WaitTimer
    <2>2. d \in Drains
      BY NoDrainType, PhaseType
    <2> HIDE DEF d
    <2> QED BY <2>1, <2>2, InvariantParts, NoDrainType, RoundType
  <1>3. Rest'
    BY <1>1, <1>2 DEF IInv, Rest
  <1> QED BY <1>1, <1>3, IdleStep

LEMMA VisitSteps ==
  ASSUME IInv, NEW e \in Entries, VisitWaits(e) \/ VisitStale(e)
  PROVE  IInv' /\ Kept
  <1>1. UNCHANGED <<rows, limits, changes, queue, cursor, paused, instance, proc, launch,
                    woken, peak>>
    BY DEF VisitWaits, VisitStale
  <1>2. drain' \in Drains
    <2>1. e \in 1..MaxEntries
      BY InvariantParts, QueueList DEF Entries
    <2>2. drain' = [drain EXCEPT !.todo = @ \ {e}]
          \/ drain' = [drain EXCEPT !.todo = @ \ {e}, !.progressed = TRUE]
      BY DEF VisitWaits, VisitStale
    <2>3. [drain EXCEPT !.todo = @ \ {e}] \in Drains
          /\ [drain EXCEPT !.todo = @ \ {e}, !.progressed = TRUE] \in Drains
      BY <2>1, InvariantParts, VisitedType
    <2> QED BY <2>2, <2>3
  <1>3. Rest'
    BY <1>1, <1>2 DEF IInv, Rest
  <1> QED BY <1>1, <1>3, IdleStep

LEMMA QueueingSteps ==
  ASSUME IInv, NEW a \in Agents, NEW enqueued \in BOOLEAN,
         StartRefused(a, enqueued) \/ StartJoined(a)
  PROVE  IInv' /\ Kept
  <1>1. UNCHANGED <<rows, limits, changes, cursor, instance, proc, launch, drain, peak>>
        /\ paused' = paused \ {a} /\ woken' \in {TRUE, woken}
    BY DEF StartRefused, StartJoined
  <1>2. queue' \in Queues
    <2>1. queue' = queue \/ (Len(queue) < MaxEntries /\ queue' = Enqueue(queue, a))
      BY DEF StartRefused, StartJoined
    <2> QED BY <2>1, InvariantParts, EnqueueType
  <1>3. Rest'
    BY <1>1, <1>2 DEF IInv, Rest
  <1> QED BY <1>1, <1>3, IdleStep

LEMMA UpdateLimitsStep ==
  ASSUME IInv, NEW new \in Limits, UpdateLimits(new)
  PROVE  IInv' /\ Kept
  <1>1. /\ limits' = new /\ changes < MaxLimitChanges /\ changes' = changes + 1 /\ woken' = TRUE
        /\ peak' = [total |-> Highest(peak.total, new.total),
                    workspace |-> Highest(peak.workspace, new.workspace)]
        /\ UNCHANGED <<rows, queue, cursor, paused, instance, proc, launch, drain>>
    BY DEF UpdateLimits
  <1>2. new.total \in Nat /\ new.workspace \in Nat /\ peak.total \in Nat /\ peak.workspace \in Nat
    BY AdmissionAssumption, InvariantParts
  <1>3. /\ peak' \in [total: Nat, workspace: Nat]
        /\ new.total <= peak'.total /\ new.workspace <= peak'.workspace
        /\ peak.total <= peak'.total /\ peak.workspace <= peak'.workspace
    BY <1>1, <1>2 DEF Highest
  <1>4. Counted(rows, new, peak')
    <2>1. Active(rows) \subseteq 1..Len(rows) /\ Len(rows) \in Nat
      BY InvariantParts, TableRows DEF Active
    <2>2. IsFiniteSet(Active(rows))
      <3>1. 1 \in Int /\ Len(rows) \in Int
        BY <2>1
      <3> QED BY <2>1, <3>1, FS_Interval, FS_Subset
    <2>3. Cardinality(Admitted(rows)) \in Nat
          /\ \A w \in Workspaces : Cardinality(AdmittedIn(rows, w)) \in Nat
      <3>1. Admitted(rows) \subseteq Active(rows)
            /\ \A w \in Workspaces : AdmittedIn(rows, w) \subseteq Active(rows)
        BY DEF Admitted, AdmittedIn
      <3> QED BY <2>2, <3>1, FS_Subset, FS_CardinalityType
    <2>4. Counted(rows, limits, peak)
      BY InvariantParts
    <2> QED BY <1>2, <1>3, <2>3, <2>4 DEF Counted
  <1>5. Accord(rows', proc', launch', limits', peak')
    BY <1>1, <1>3, <1>4, InvariantParts DEF Accord
  <1>6. changes' \in 0..MaxLimitChanges
    BY <1>1, AdmissionAssumption DEF IInv, Rest
  <1>7. Rest'
    BY <1>1, <1>6 DEF IInv, Rest
  <1> QED BY <1>1, <1>5, <1>7 DEF IInv, Kept, StaysReleased

-----------------------------------------------------------------------------
(* Starts and claims.                                                      *)

LEMMA StartAgentStep ==
  ASSUME IInv, NEW a \in Agents, StartAgent(a)
  PROVE  IInv' /\ Kept
  <1> DEFINE i == ReserveId(rows, a)
             u == Reserve(rows, instance, a)
  <1>1. /\ MayReserve(rows, limits, instance, a) /\ rows' = u
        /\ launch' = [launch EXCEPT ![a] = NewLaunch(i, 0)] /\ paused' = paused \ {a}
        /\ UNCHANGED <<limits, changes, queue, cursor, instance, proc, drain, woken, peak>>
    BY DEF StartAgent, StartsFresh
  <1>2. /\ Accord(u, proc, launch, limits, peak) /\ StaysReleased(rows, u)
        /\ i \in 1..Len(u) /\ u[i].agent = a
    BY <1>1, InvariantParts, ReserveAccord
  <1> HIDE DEF u, i
  <1>3. Accord(u, proc, [launch EXCEPT ![a] = NewLaunch(i, 0)], limits, peak)
    BY <1>2, NewLaunchAccord
  <1>4. Rest'
    BY <1>1 DEF IInv, Rest
  <1> QED BY <1>1, <1>2, <1>3, <1>4 DEF IInv, Kept

LEMMA ClaimStep ==
  ASSUME IInv, NEW e \in Entries, VisitClaims(e)
  PROVE  IInv' /\ Kept
  <1> DEFINE a == queue[e].agent
             i == ReserveId(rows, a)
             t == Reserve(rows, instance, a)
             n == [queue[e] EXCEPT !.status = "starting", !.row = i]
             q == [queue EXCEPT ![e] = n]
             d == [drain EXCEPT !.todo = @ \ {e}, !.progressed = TRUE, !.entry = e]
  <1>1. queue[e] \in QueueEntry /\ a \in Agents /\ e \in 1..MaxEntries /\ e \in Nat
    <2>1. queue[e] \in QueueEntry /\ e \in 1..MaxEntries
      BY InvariantParts, QueueList DEF Entries
    <2> QED BY <2>1 DEF QueueEntry
  <1>2. MayReserve(rows, limits, instance, a)
    BY DEF VisitClaims, Admissible
  <1>3. Workspace(e) \in Workspaces
    BY <1>1, BudgetAssumption DEF Workspace
  <1>4. /\ Accord(t, proc, launch, limits, peak) /\ StaysReleased(rows, t)
        /\ i \in 1..Len(t) /\ t[i].agent = a /\ i \in 0..MaxRows
    BY <1>1, <1>2, InvariantParts, ReserveAccord
  <1>5. d \in Drains /\ [d EXCEPT !.phase = "await"] \in Drains
        /\ [d EXCEPT !.blocked = @ \cup {e}] \in Drains
    <2>1. d \in Drains
      BY <1>1, InvariantParts, VisitedType
    <2> HIDE DEF d
    <2> QED BY <1>1, <2>1, PhaseType, VisitedType
  <1>6. q \in Queues
    <2>1. n \in QueueEntry
      <3> HIDE DEF i
      <3> QED BY <1>1, <1>4 DEF QueueEntry
    <2> HIDE DEF n
    <2> QED BY <2>1, InvariantParts, OneEntryChanges
  <1>7. /\ cursor' = Workspace(e)
        /\ UNCHANGED <<limits, changes, paused, instance, proc, peak>>
        /\ \/ /\ rows' \in {t, ReleaseUnspawned(t, i)} /\ launch' = launch
           \/ /\ rows' = t /\ launch' = [launch EXCEPT ![a] = NewLaunch(i, e)]
        /\ \/ queue' = q
           \/ \E status \in Statuses : queue' = Finish(q, e, status)
        /\ drain' \in {d, [d EXCEPT !.phase = "await"], [d EXCEPT !.blocked = @ \cup {e}]}
        /\ woken' \in {TRUE, woken}
    BY DEF VisitClaims, Statuses
  <1>8. queue' \in Queues /\ drain' \in Drains
    <2> HIDE DEF q, d
    <2>1. drain' \in Drains
      BY <1>5, <1>7
    <2>2. ASSUME NEW status \in Statuses PROVE Finish(q, e, status) \in Queues
      BY <1>6, FinishType
    <2>3. queue' \in Queues
      BY <1>6, <1>7, <2>2
    <2> QED BY <2>1, <2>3
  <1>9. Rest'
    <2> HIDE DEF a, i, t, q, d
    <2> QED BY <1>3, <1>7, <1>8 DEF IInv, Rest
  <1> HIDE DEF a, i, t
  <1>10. t \in Table /\ proc \in Processes
    BY <1>4 DEF Accord
  <1>11. CASE rows' \in {t, ReleaseUnspawned(t, i)} /\ launch' = launch
    <2>1. Follows(t, rows', proc)
      BY <1>10, <1>11, FollowsItself, ReleaseUnspawnedFollows
    <2>2. launch' \in [Agents -> Launch] /\ \A b \in Agents : MovesOn(launch[b], launch'[b])
      BY <1>11, InvariantParts, MovesOnItself
    <2>3. Accord(rows', proc, launch', limits, peak) /\ StaysReleased(t, rows')
      BY <1>4, <1>10, <2>1, <2>2, FadesItself, AccordIsKept
    <2>4. StaysReleased(rows, rows')
      <3>1. \A j \in DOMAIN rows : j \in DOMAIN t
        <4>1. Fits(rows, limits, a)
          BY <1>2, MayReserveFits
        <4>2. Len(rows) <= Len(t)
          BY <1>1, <4>1, InvariantParts, ReserveRows DEF t
        <4>3. DOMAIN rows = 1..Len(rows) /\ DOMAIN t = 1..Len(t)
              /\ Len(rows) \in Nat /\ Len(t) \in Nat
          BY <1>10, InvariantParts, TableRows
        <4> QED BY <4>2, <4>3
      <3> QED BY <1>4, <2>3, <3>1 DEF StaysReleased
    <2> QED BY <1>7, <1>9, <2>3, <2>4 DEF IInv, Kept
  <1>12. CASE rows' = t /\ launch' = [launch EXCEPT ![a] = NewLaunch(i, e)]
    <2>1. Accord(t, proc, launch', limits, peak)
      BY <1>1, <1>4, <1>12, NewLaunchAccord
    <2> QED BY <1>4, <1>7, <1>9, <1>12, <2>1 DEF IInv, Kept
  <1> QED BY <1>7, <1>11, <1>12

-----------------------------------------------------------------------------
(* What a person does.                                                     *)

LEMMA AbortStep ==
  ASSUME IInv, NEW a \in Agents, CancelEntries(a), UNCHANGED <<limits, peak>>,
         changes' = changes, cursor' = cursor, instance' = instance, drain' = drain,
         paused' \subseteq Agents, woken' \in BOOLEAN
  PROVE  IInv' /\ Kept
  <1> DEFINE t == [i \in DOMAIN rows |->
                     IF \E e \in OpenEntries(a) : queue[e].row = i
                       THEN ReleaseUnspawned(rows, i)[i] ELSE rows[i]]
  <1>1. Abort(a, t) /\ queue' \in Queues
    BY InvariantParts, CancelledType DEF CancelEntries
  <1>2. ASSUME NEW pr PROVE Follows(rows, t, pr)
    <2>1. DOMAIN rows = 1..Len(rows) /\ rows \in Table
      BY InvariantParts, TableRows
    <2>2. ASSUME NEW i \in DOMAIN rows
          PROVE  t[i] \in Reservation /\ RowFollows(rows[i], t[i], pr, i)
      <3>1. Follows(rows, ReleaseUnspawned(rows, i), pr) /\ Follows(rows, rows, pr)
        BY <2>1, ReleaseUnspawnedFollows, FollowsItself
      <3>2. RowFollows(rows[i], ReleaseUnspawned(rows, i)[i], pr, i)
            /\ RowFollows(rows[i], rows[i], pr, i)
        BY <2>1, <3>1 DEF Follows
      <3>3. ReleaseUnspawned(rows, i) \in Table /\ Len(ReleaseUnspawned(rows, i)) = Len(rows)
        BY <3>1 DEF Follows
      <3>4. ReleaseUnspawned(rows, i)[i] \in Reservation /\ rows[i] \in Reservation
        BY <2>1, <3>3, TableRows
      <3>5. t[i] \in {ReleaseUnspawned(rows, i)[i], rows[i]}
        OBVIOUS
      <3> HIDE DEF t
      <3> QED BY <3>2, <3>4, <3>5
    <2>3. DOMAIN t = DOMAIN rows /\ t = [i \in DOMAIN rows |-> t[i]]
      OBVIOUS
    <2> HIDE DEF t
    <2>4. t \in [DOMAIN rows -> Reservation]
      BY <2>2, <2>3
    <2>5. t \in Table /\ Len(t) = Len(rows)
      BY <2>1, <2>4, RowsType
    <2> QED BY <2>1, <2>2, <2>5 DEF Follows
  <1> HIDE DEF t
  <1>3. /\ rows' \in {t, ReleaseUnspawned(t, launch[a].row)}
        /\ proc' \in {proc, [proc EXCEPT ![launch[a].proc].stopping = TRUE]}
        /\ launch' \in {launch, [launch EXCEPT ![a].aborted = TRUE]}
    BY <1>1 DEF Abort
  <1>4. Fades(proc, proc')
    <2>1. proc \in Processes
      BY InvariantParts
    <2>2. Fades(proc, proc)
      BY <2>1, FadesItself
    <2>3. Fades(proc, [proc EXCEPT ![launch[a].proc].stopping = TRUE])
      BY <2>1, StoppingFades
    <2> QED BY <1>3, <2>2, <2>3
  <1>5. Follows(rows, rows', proc')
    <2>1. Follows(rows, t, proc')
      BY <1>2
    <2>2. t \in Table /\ rows \in Table
      BY <2>1, InvariantParts DEF Follows
    <2>3. Follows(t, rows', proc')
      BY <1>3, <2>2, FollowsItself, ReleaseUnspawnedFollows
    <2> QED BY <2>1, <2>2, <2>3, FollowsTransitive
  <1>6. launch' \in [Agents -> Launch] /\ \A b \in Agents : MovesOn(launch[b], launch'[b])
    <2> DEFINE c == TRUE
               n == [launch[a] EXCEPT !.aborted = c]
    <2>1. launch[a] \in Launch /\ c \in BOOLEAN
      BY InvariantParts
    <2>2. n \in Launch /\ MovesOn(launch[a], n)
      <3> HIDE DEF c
      <3> QED BY <2>1 DEF Launch, MovesOn
    <2>3. launch' \in {launch, [launch EXCEPT ![a] = n]}
      BY <1>3
    <2> HIDE DEF n
    <2> QED BY <2>2, <2>3, InvariantParts, MovesOnItself
  <1>7. Rest'
    BY <1>1 DEF IInv, Rest
  <1> QED BY <1>4, <1>5, <1>6, <1>7, QuietStep

LEMMA CancelSteps ==
  ASSUME IInv,
         \/ \E e \in Entries, pauseAgent \in BOOLEAN : Cancel(e, pauseAgent)
         \/ \E a \in Agents : CancelReservation(a)
  PROVE  IInv' /\ Kept
  <1>1. /\ UNCHANGED <<limits, peak>>
        /\ changes' = changes /\ cursor' = cursor /\ instance' = instance /\ drain' = drain
        /\ woken' \in BOOLEAN
    BY DEF Cancel, CancelReservation
  <1>2. PICK a \in Agents : CancelEntries(a) /\ paused' \subseteq paused \cup {a}
    <2>1. \A e \in Entries : queue[e].agent \in Agents
      BY InvariantParts, QueueList DEF Entries, QueueEntry
    <2> QED BY <2>1 DEF Cancel, CancelReservation
  <1>3. paused' \subseteq Agents
    BY <1>2 DEF IInv, Rest
  <1> QED BY <1>1, <1>2, <1>3, AbortStep

LEMMA StopRunStep ==
  ASSUME IInv, NEW a \in Agents, StopRun(a)
  PROVE  IInv' /\ Kept
  <1>1. /\ proc' = [proc EXCEPT ![launch[a].proc].stopping = TRUE]
        /\ queue' = [e \in Entries |-> IF e \in OpenEntries(a)
             THEN [queue[e] EXCEPT !.status = "cancelled"] ELSE queue[e]]
        /\ paused' = paused \cup {a} /\ woken' = (woken \/ OpenEntries(a) # {})
        /\ UNCHANGED <<rows, limits, changes, cursor, instance, launch, drain, peak>>
    BY DEF StopRun
  <1>2. queue' \in Queues /\ woken' \in BOOLEAN
    BY <1>1, InvariantParts, CancelledType DEF Rest
  <1>3. Fades(proc, proc')
    BY <1>1, InvariantParts, StoppingFades
  <1>4. Follows(rows, rows', proc')
    BY <1>1, InvariantParts, FollowsItself
  <1>5. launch' \in [Agents -> Launch] /\ \A b \in Agents : MovesOn(launch[b], launch'[b])
    BY <1>1, InvariantParts, MovesOnItself
  <1>6. Rest'
    BY <1>1, <1>2 DEF IInv, Rest
  <1> QED BY <1>1, <1>3, <1>4, <1>5, <1>6, QuietStep

LEMMA ReconcileStep ==
  ASSUME IInv, Reconcile
  PROVE  IInv' /\ Kept
  <1>1. /\ woken' = TRUE
        /\ UNCHANGED <<limits, changes, queue, cursor, paused, instance, proc, launch,
                       drain, peak>>
    BY DEF Reconcile
  <1>2. PICK absent \in SUBSET Absent(rows, instance, proc) :
          rows' = Recover(rows, instance, absent)
    BY DEF Reconcile
  <1>3. \A k \in absent : Dead(proc, k)
    BY InvariantParts, AbsentIsDead
  <1>4. Follows(rows, rows', proc')
    BY <1>1, <1>2, <1>3, InvariantParts, RecoverFollows
  <1>5. Fades(proc, proc')
    BY <1>1, InvariantParts, FadesItself
  <1>6. launch' \in [Agents -> Launch] /\ \A b \in Agents : MovesOn(launch[b], launch'[b])
    BY <1>1, InvariantParts, MovesOnItself
  <1>7. Rest'
    BY <1>1 DEF IInv, Rest
  <1> QED BY <1>1, <1>4, <1>5, <1>6, <1>7, QuietStep

LEMMA RestartStep ==
  ASSUME IInv, Restart
  PROVE  IInv' /\ Kept
  <1>1. /\ instance <= MaxRestarts /\ instance' = instance + 1
        /\ queue' = Requeue(queue) /\ launch' = [a \in Agents |-> NoLaunch]
        /\ drain' = NoDrain /\ woken' = TRUE
        /\ UNCHANGED <<limits, changes, cursor, paused, peak>>
    BY DEF Restart
  <1>2. PICK survivors \in SUBSET {p \in Pids : Live(p)} :
          proc' = [p \in Pids |-> [proc[p] EXCEPT !.alive = p \in survivors, !.watched = FALSE]]
    BY DEF Restart
  <1>3. PICK absent \in SUBSET Absent(rows, instance + 1, proc') :
          rows' = Recover(rows, instance + 1, absent)
    BY DEF Restart
  <1>4. Fades(proc, proc')
    <2>1. /\ Len(proc) \in Nat /\ Len(proc) <= MaxProcs /\ DOMAIN proc = 1..Len(proc)
          /\ DOMAIN proc' = DOMAIN proc
      BY <1>2, InvariantParts, ProcessList DEF Pids
    <2>2. ASSUME NEW p \in DOMAIN proc
          PROVE  /\ proc'[p] \in Process
                 /\ proc'[p].agent = proc[p].agent /\ proc'[p].row = proc[p].row
                 /\ proc'[p].kind = proc[p].kind /\ proc'[p].exit = proc[p].exit
                 /\ proc'[p].alive => proc[p].alive
      <3> DEFINE b == p \in survivors
                 c == FALSE
      <3>1. proc[p] \in Process /\ b \in BOOLEAN /\ c \in BOOLEAN /\ (b => proc[p].alive)
        BY InvariantParts, ProcessList DEF Live
      <3>2. proc'[p] = [proc[p] EXCEPT !.alive = b, !.watched = c]
        BY <1>2 DEF Pids
      <3> HIDE DEF b, c
      <3> QED BY <3>1, <3>2 DEF Process
    <2>3. proc' = [p \in DOMAIN proc |-> proc'[p]]
      BY <1>2 DEF Pids
    <2>4. proc' \in [1..Len(proc) -> Process]
      BY <2>1, <2>2, <2>3
    <2>5. proc' \in Seq(Process)
      BY <2>1, <2>4, SeqDef
    <2>6. Len(proc') = Len(proc)
      BY <2>1, <2>5, LenProperties
    <2>7. proc' \in Processes
      BY <2>1, <2>5, <2>6 DEF Processes
    <2> QED BY <2>2, <2>6, <2>7 DEF Fades
  <1>5. proc' \in Processes /\ Sound(rows, proc', launch)
    BY <1>4, InvariantParts, FadesSound
  <1>6. \A k \in absent : Dead(proc', k)
    BY <1>5, InvariantParts, AbsentIsDead
  <1>7. Follows(rows, rows', proc')
    BY <1>3, <1>6, InvariantParts, RecoverFollows
  <1>8. launch' \in [Agents -> Launch] /\ \A b \in Agents : MovesOn(launch[b], launch'[b])
    <2>1. \A b \in Agents : MovesOn(launch[b], NoLaunch)
      BY DEF MovesOn, NoLaunch
    <2> QED BY <1>1, <2>1, NoLaunchType
  <1>9. instance' \in 1..(MaxRestarts + 1)
    BY <1>1, InvariantParts, AdmissionAssumption DEF Rest
  <1>10. queue' \in Queues /\ drain' \in Drains
    BY <1>1, InvariantParts, RequeueType, NoDrainType
  <1>11. Rest'
    BY <1>1, <1>9, <1>10 DEF IInv, Rest
  <1> QED BY <1>1, <1>4, <1>7, <1>8, <1>11, QuietStep

-----------------------------------------------------------------------------
(* The first server, and every step.                                       *)

LEMMA AdoptedTable ==
  LET t == AdoptLegacy(LegacyRuns)
  IN /\ t \in Table /\ Len(t) = Legacy
     /\ \A p \in 1..Legacy :
          /\ t[p].agent = LegacyRuns[p].agent /\ t[p].state = "recovery_blocked"
          /\ t[p].pid \in {0, p}
  <1> DEFINE t == AdoptLegacy(LegacyRuns)
  <1>1. /\ Legacy \in Nat /\ Legacy <= MaxRows /\ DOMAIN LegacyRuns = 1..Legacy
        /\ \A p \in 1..Legacy : LegacyRuns[p] \in [agent: Agents, pid: BOOLEAN]
    BY AdmissionAssumption, LegacyType, LenProperties, ElementOfSeq DEF Legacy
  <1>2. DOMAIN t = 1..Legacy /\ t = [p \in DOMAIN t |-> t[p]]
    BY <1>1 DEF AdoptLegacy
  <1>3. ASSUME NEW p \in 1..Legacy
        PROVE  /\ t[p] \in Reservation
               /\ t[p].agent = LegacyRuns[p].agent /\ t[p].state = "recovery_blocked"
               /\ t[p].pid \in {0, p}
    <2> DEFINE key == IF \E q \in DOMAIN LegacyRuns :
                              q < p /\ LegacyRuns[q].agent = LegacyRuns[p].agent
                        THEN "legacy" ELSE "agent"
               pid == IF LegacyRuns[p].pid THEN p ELSE 0
               no == FALSE
    <2>1. t[p] = [instance |-> 0, agent |-> LegacyRuns[p].agent, key |-> key,
                  state |-> "recovery_blocked", run |-> p, pid |-> pid, confirmed |-> no]
      BY <1>1 DEF AdoptLegacy
    <2>2. key \in {"agent", "legacy"} /\ pid \in {0, p} /\ pid \in Nat /\ p \in Nat
          /\ no \in BOOLEAN /\ LegacyRuns[p].agent \in Agents /\ "recovery_blocked" \in RowStates
      BY <1>1 DEF RowStates
    <2> HIDE DEF key, pid, no, t
    <2> QED BY <2>1, <2>2 DEF Reservation
  <1> HIDE DEF t
  <1>4. t \in [1..Legacy -> Reservation]
    BY <1>2, <1>3
  <1>5. t \in Seq(Reservation)
    BY <1>1, <1>4, SeqDef
  <1>6. Len(t) = Legacy
    BY <1>1, <1>2, <1>5, LenProperties
  <1>7. t \in Table
    BY <1>1, <1>5, <1>6 DEF Table
  <1> QED BY <1>3, <1>6, <1>7 DEF t

LEMMA InitGood == Init => IInv
  <1> SUFFICES ASSUME Init PROVE IInv
    OBVIOUS
  <1> DEFINE t == AdoptLegacy(LegacyRuns)
  <1>1. /\ t \in Table /\ Len(t) = Legacy /\ DOMAIN t = 1..Legacy
        /\ \A p \in 1..Legacy :
             /\ t[p].agent = LegacyRuns[p].agent /\ t[p].state = "recovery_blocked"
             /\ t[p].pid \in {0, p}
    BY AdoptedTable, TableRows
  <1>2. /\ Legacy \in Nat /\ Legacy <= MaxRows /\ Legacy <= MaxProcs
        /\ DOMAIN LegacyRuns = 1..Legacy
        /\ \A p \in 1..Legacy : LegacyRuns[p] \in [agent: Agents, pid: BOOLEAN]
    BY AdmissionAssumption, LegacyType, LenProperties, ElementOfSeq DEF Legacy
  <1>3. PICK survivors \in SUBSET DOMAIN LegacyRuns :
          proc = [p \in DOMAIN LegacyRuns |->
            [agent |-> LegacyRuns[p].agent, row |-> p, kind |-> "legacy",
             alive |-> p \in survivors, watched |-> FALSE, stopping |-> FALSE,
             exit |-> "no", entry |-> 0]]
    BY DEF Init
  <1>4. ASSUME NEW p \in 1..Legacy
        PROVE  /\ proc[p] \in Process /\ proc[p].agent = LegacyRuns[p].agent
               /\ proc[p].row = p /\ proc[p].kind = "legacy" /\ proc[p].exit = "no"
    <2> DEFINE b == p \in survivors
               c == FALSE
    <2>1. proc[p] = [agent |-> LegacyRuns[p].agent, row |-> p, kind |-> "legacy",
                     alive |-> b, watched |-> c, stopping |-> c,
                     exit |-> "no", entry |-> 0]
      BY <1>2, <1>3
    <2>2. b \in BOOLEAN /\ c \in BOOLEAN /\ p \in 0..MaxRows /\ LegacyRuns[p].agent \in Agents
      BY <1>2, BudgetAssumption
    <2> HIDE DEF b, c
    <2> QED BY <2>1, <2>2 DEF Process
  <1>5. proc \in Processes /\ DOMAIN proc = 1..Legacy
    <2>1. DOMAIN proc = 1..Legacy /\ proc = [p \in 1..Legacy |-> proc[p]]
      BY <1>2, <1>3
    <2>2. proc \in [1..Legacy -> Process]
      BY <1>4, <2>1
    <2>3. proc \in Seq(Process)
      BY <1>2, <2>2, SeqDef
    <2>4. Len(proc) = Legacy
      BY <1>2, <2>1, <2>3, LenProperties
    <2> QED BY <1>2, <2>1, <2>3, <2>4 DEF Processes
  <1>6. launch \in [Agents -> Launch] /\ \A a \in Agents : launch[a].phase = "none"
    BY NoLaunchType DEF Init, NoLaunch
  <1>7. limits \in Limits /\ peak = limits
    BY DEF Init
  <1>8. peak \in [total: Nat, workspace: Nat] /\ limits.total \in Nat /\ limits.workspace \in Nat
    BY <1>7, AdmissionAssumption
  <1> HIDE DEF t
  <1>9. RowsSound(t)
    BY <1>1, <1>2 DEF RowsSound
  <1>10. ASSUME NEW p \in DOMAIN proc PROVE ProcessSound(t, proc, p)
    BY <1>1, <1>4, <1>5 DEF ProcessSound
  <1>11. SlotsAreReused(proc)
    <2> SUFFICES ASSUME NEW p \in DOMAIN proc, NEW q \in DOMAIN proc,
                        p < q, proc[p].row = proc[q].row
                 PROVE  FALSE
      BY DEF SlotsAreReused
    <2>1. p = q /\ p \in Nat
      BY <1>2, <1>4, <1>5
    <2> QED BY <2>1
  <1>12. Sound(t, proc, launch)
    BY <1>6, <1>9, <1>10, <1>11 DEF Sound, LaunchSound
  <1>13. Counted(t, limits, peak)
    <2>1. Admitted(t) = {}
      BY <1>1, <1>2 DEF Admitted, Active
    <2>2. \A w \in Workspaces : AdmittedIn(t, w) = {}
      BY <2>1 DEF AdmittedIn
    <2>3. Cardinality({}) = 0
      BY FS_EmptySet
    <2> QED BY <1>7, <1>8, <2>1, <2>2, <2>3 DEF Counted
  <1>14. Accord(t, proc, launch, limits, peak)
    BY <1>1, <1>5, <1>6, <1>8, <1>12, <1>13 DEF Accord
  <1>15. PICK absent \in SUBSET Absent(t, 1, proc) : rows = Recover(t, 1, absent)
    BY DEF Init, t
  <1>16. \A k \in absent : Dead(proc, k)
    BY <1>1, <1>5, <1>12, AbsentIsDead
  <1>17. Follows(t, rows, proc)
    BY <1>1, <1>15, <1>16, RecoverFollows
  <1>18. Accord(rows, proc, launch, limits, peak)
    BY <1>5, <1>6, <1>14, <1>17, FadesItself, MovesOnItself, AccordIsKept
  <1>19. Rest
    <2>1. queue \in Queues
      <3>1. queue = << >>
        BY DEF Init
      <3>2. << >> \in Seq(QueueEntry) /\ Len(<< >>) = 0 /\ 0 <= MaxEntries
        BY EmptySeq, AdmissionAssumption
      <3> QED BY <3>1, <3>2 DEF Queues
    <2>2. changes \in 0..MaxLimitChanges /\ instance \in 1..(MaxRestarts + 1)
      BY AdmissionAssumption DEF Init
    <2>3. drain \in Drains
      BY NoDrainType DEF Init
    <2> QED BY <1>7, <2>1, <2>2, <2>3 DEF Init, Rest
  <1> QED BY <1>18, <1>19 DEF IInv

LEMMA LaunchNextStep ==
  ASSUME IInv, NEW a \in Agents, LaunchNext(a)
  PROVE  IInv' /\ Kept
  <1>1. CASE Spawn(a) \/ HelperSpawn(a)
    BY <1>1, SpawnSteps
  <1>2. CASE SpawnThrows(a) \/ PreparationFails(a)
    BY <1>2, UnspawnedSteps
  <1>3. CASE KillFails(a) \/ LaunchFailed(a) \/ HelperUnconfirmed(a)
    BY <1>3, EndSteps
  <1>4. CASE HelperStarted(a) \/ HelperStopped(a)
    BY <1>4, HelperStartedStep, HelperStoppedStep
  <1>5. CASE Connected(a)
    BY <1>5, ConnectedStep
  <1>6. CASE \E succeeded \in BOOLEAN : HelperClosed(a, succeeded)
    BY <1>6, HelperClosedStep
  <1>7. CASE \E registered \in BOOLEAN : ConnectFails(a, registered)
    BY <1>7, ConnectFailsStep
  <1> QED BY <1>1, <1>2, <1>3, <1>4, <1>5, <1>6, <1>7 DEF LaunchNext

LEMMA EveryStep ==
  ASSUME IInv, Next
  PROVE  IInv' /\ Kept
  <1>1. CASE \E a \in Agents : LaunchNext(a)
    BY <1>1, LaunchNextStep
  <1>2. CASE \E p \in Pids : ProcessDies(p) \/ ExitNext(p)
    BY <1>2, ProcessDiesStep, NativeExitStep, ExitSteps DEF ExitNext
  <1>3. CASE DrainNext
    <2>1. CASE DrainStarts \/ DrainPassEnds \/ WaitTimer
      BY <2>1, DrainSteps
    <2>2. CASE \E e \in Entries : VisitWaits(e) \/ VisitStale(e)
      BY <2>2, VisitSteps
    <2>3. CASE \E e \in Entries : VisitClaims(e)
      BY <2>3, ClaimStep
    <2> QED BY <1>3, <2>1, <2>2, <2>3 DEF DrainNext
  <1>4. CASE RequestNext
    <2>1. CASE \E a \in Agents : StartAgent(a)
      BY <2>1, StartAgentStep
    <2>2. CASE \E a \in Agents : StartJoined(a) \/ \E enqueued \in BOOLEAN : StartRefused(a, enqueued)
      BY <2>2, QueueingSteps
    <2>3. CASE \E a \in Agents : StopRun(a)
      BY <2>3, StopRunStep
    <2>4. CASE \/ \E e \in Entries, pauseAgent \in BOOLEAN : Cancel(e, pauseAgent)
               \/ \E a \in Agents : CancelReservation(a)
      BY <2>4, CancelSteps
    <2>5. CASE \E new \in Limits : UpdateLimits(new)
      BY <2>5, UpdateLimitsStep
    <2>6. CASE Reconcile
      BY <2>6, ReconcileStep
    <2> QED BY <1>4, <2>1, <2>2, <2>3, <2>4, <2>5, <2>6 DEF RequestNext
  <1>5. CASE Restart
    BY <1>5, RestartStep
  <1> QED BY <1>1, <1>2, <1>3, <1>4, <1>5 DEF Next

LEMMA IInvIsInductive == IInv /\ [Next]_vars => IInv'
  <1>1. ASSUME IInv, Next PROVE IInv'
    BY <1>1, EveryStep
  <1>2. ASSUME IInv, UNCHANGED vars PROVE IInv'
    BY <1>2 DEF vars, IInv, Rest
  <1> QED BY <1>1, <1>2

(* Rows, processes and launches agree in every state: whatever lives holds *)
(* a slot of its agent and is the last process of its row, and the rows    *)
(* that were admitted are within the highest limits.                       *)
THEOREM AlwaysInAccord == Spec => []IInv
  BY InitGood, IInvIsInductive, PTL DEF Spec

(* Every variable has its type, whatever the agents, the limits and the    *)
(* bounds.                                                                 *)
THEOREM AdmissionTypeCorrect == Spec => []TypeOK
  <1>1. IInv => TypeOK
    BY DEF IInv, Accord, Rest, TypeOK, Table, Processes, Queues, Drains
  <1> QED BY <1>1, AlwaysInAccord, PTL

(* Every living process is counted, in a row past "reserved", which        *)
(* recovery and cancellation would release without asking for a process    *)
(* (resource-budget-store.ts:309-313, 350-356, finishPreparation).         *)
THEOREM LivingHoldsSlot == Spec => []LivingProcessHoldsSlot
  <1>1. IInv => LivingProcessHoldsSlot
    BY DEF IInv, Accord, Sound, ProcessSound, LivingProcessHoldsSlot, Pids, Live
  <1> QED BY <1>1, AlwaysInAccord, PTL

(* No agent has two living processes, of whatever instances of the server, *)
(* for any number of agents, starts and restarts: reserve refuses or       *)
(* shares the row of one that may live (resource-budget-store.ts:207-229). *)
THEOREM AgentRunsOnce == Spec => []OneProcessPerAgent
  <1>1. ASSUME IInv PROVE OneProcessPerAgent
    <2> SUFFICES ASSUME NEW p \in Managed, NEW q \in Pids,
                        Live(q), proc[q].agent = proc[p].agent
                 PROVE  p = q
      BY DEF OneProcessPerAgent
    <2> DEFINE i == proc[p].row
               j == proc[q].row
    <2>1. p \in DOMAIN proc /\ q \in DOMAIN proc /\ proc[p].alive /\ proc[q].alive
          /\ proc[p].kind # "legacy"
      BY DEF Managed, Pids, Live
    <2>2. ProcessSound(rows, proc, p) /\ ProcessSound(rows, proc, q)
      BY <1>1, <2>1, InvariantParts DEF Sound
    <2>3. /\ i \in DOMAIN rows /\ j \in DOMAIN rows /\ rows[i].agent = rows[j].agent
          /\ rows[i].state # "released" /\ rows[j].state # "released" /\ i > Legacy
      BY <2>1, <2>2 DEF ProcessSound
    <2>4. i \in Nat /\ p \in Nat /\ q \in Nat
      BY <1>1, <2>1, <2>3, InvariantParts, TableRows, ProcessList
    <2>5. i # j => i <= Legacy
      <3> HIDE DEF i, j
      <3> QED BY <1>1, <2>3, InvariantParts DEF Sound, RowsSound
    <2>6. i = j
      <3> HIDE DEF i, j
      <3> QED BY <2>3, <2>4, <2>5, LegacyType
    <2>7. ~(p < q) /\ ~(q < p)
      BY <1>1, <2>1, <2>6, InvariantParts DEF Sound, SlotsAreReused
    <2> QED BY <2>4, <2>7
  <1> QED BY <1>1, AlwaysInAccord, PTL

(* Living processes are in rows of their own, which were admitted. *)
LEMMA LivingAreAdmitted ==
  ASSUME IInv, NEW S \in SUBSET Managed, NEW T \in SUBSET Admitted(rows),
         \A p \in S : proc[p].row \in Admitted(rows) => proc[p].row \in T
  PROVE  IsFiniteSet(T) /\ Cardinality(S) \in Nat /\ Cardinality(S) <= Cardinality(T)
  <1> DEFINE f == [p \in S |-> proc[p].row]
  <1>1. IsFiniteSet(T)
    <2>1. T \subseteq 1..Len(rows) /\ Len(rows) \in Nat
      BY InvariantParts, TableRows DEF Admitted, Active
    <2>2. 1 \in Int /\ Len(rows) \in Int
      BY <2>1
    <2> QED BY <2>1, <2>2, FS_Interval, FS_Subset
  <1>2. ASSUME NEW p \in S PROVE proc[p].row \in T
    <2>1. p \in DOMAIN proc /\ proc[p].alive /\ proc[p].kind # "legacy"
      BY DEF Managed, Pids, Live
    <2>2. ProcessSound(rows, proc, p)
      BY <2>1, InvariantParts DEF Sound
    <2> QED BY <2>1, <2>2 DEF ProcessSound, Admitted, Active
  <1>3. ASSUME NEW p \in S, NEW q \in S, proc[p].row = proc[q].row PROVE p = q
    <2>1. p \in DOMAIN proc /\ q \in DOMAIN proc /\ proc[p].alive /\ proc[q].alive
      BY DEF Managed, Pids, Live
    <2>2. p \in Nat /\ q \in Nat
      BY <2>1, InvariantParts, ProcessList
    <2>3. ~(p < q) /\ ~(q < p)
      BY <1>3, <2>1, InvariantParts DEF Sound, SlotsAreReused
    <2> QED BY <2>2, <2>3
  <1>4. f \in Injection(S, T)
    BY <1>2, <1>3 DEF Injection, IsInjective
  <1> HIDE DEF f
  <1>5. IsFiniteSet(S) /\ Cardinality(S) <= Cardinality(T)
    BY <1>1, <1>4, FS_Injection
  <1> QED BY <1>1, <1>5, FS_CardinalityType

(* Over all instances of the server the living processes are within the    *)
(* highest limits ever set, in total and in every workspace, whatever the  *)
(* limits and however often they change (reserveInTransaction, 230-237).   *)
THEOREM LimitsHold == Spec => []LivingWithinLimits
  <1>1. ASSUME IInv PROVE LivingWithinLimits
    <2>1. Cardinality(Managed) <= peak.total
      <3>1. IsFiniteSet(Admitted(rows)) /\ Cardinality(Managed) \in Nat
            /\ Cardinality(Managed) <= Cardinality(Admitted(rows))
        BY <1>1, LivingAreAdmitted
      <3>2. Cardinality(Admitted(rows)) <= peak.total /\ peak.total \in Nat
            /\ Cardinality(Admitted(rows)) \in Nat
        BY <1>1, <3>1, InvariantParts, FS_CardinalityType DEF Counted
      <3> QED BY <3>1, <3>2
    <2>2. ASSUME NEW w \in Workspaces
          PROVE  Cardinality({p \in Managed : WorkspaceOf[proc[p].agent] = w}) <= peak.workspace
      <3> DEFINE S == {p \in Managed : WorkspaceOf[proc[p].agent] = w}
      <3>1. S \in SUBSET Managed /\ AdmittedIn(rows, w) \in SUBSET Admitted(rows)
        BY DEF AdmittedIn
      <3>2. ASSUME NEW p \in S, proc[p].row \in Admitted(rows)
            PROVE  proc[p].row \in AdmittedIn(rows, w)
        <4>1. ProcessSound(rows, proc, p)
          BY <1>1, InvariantParts DEF Sound, Managed, Pids
        <4> QED BY <3>2, <4>1 DEF ProcessSound, AdmittedIn
      <3> HIDE DEF S
      <3>3. IsFiniteSet(AdmittedIn(rows, w)) /\ Cardinality(S) \in Nat
            /\ Cardinality(S) <= Cardinality(AdmittedIn(rows, w))
        BY <1>1, <3>1, <3>2, LivingAreAdmitted
      <3>4. Cardinality(AdmittedIn(rows, w)) <= peak.workspace /\ peak.workspace \in Nat
            /\ Cardinality(AdmittedIn(rows, w)) \in Nat
        BY <1>1, <3>3, InvariantParts, FS_CardinalityType DEF Counted
      <3>5. Cardinality(S) <= peak.workspace
        BY <3>3, <3>4
      <3> QED BY <3>5 DEF S
    <2> QED BY <2>1, <2>2 DEF LivingWithinLimits
  <1> QED BY <1>1, AlwaysInAccord, PTL

(* A slot that was given back is never taken again under the same          *)
(* reservation, in whatever order a start and its exit are registered      *)
(* (markStarted, resource-budget-store.ts:267-282).                        *)
THEOREM ReleasedStaysReleased == Spec => ReleasedIsFinal
  <1>1. ASSUME IInv, [Next]_vars
        PROVE  [\A i \in DOMAIN rows :
                  rows[i].state = "released" => rows'[i].state = "released"]_vars
    <2>1. CASE UNCHANGED vars
      BY <2>1
    <2>2. CASE Next
      BY <1>1, <2>2, EveryStep DEF Kept, StaysReleased
    <2> QED BY <1>1, <2>1, <2>2
  <1> QED BY <1>1, AlwaysInAccord, PTL DEF Spec, ReleasedIsFinal

(* A start that was cancelled while it was prepared spawns nothing more:   *)
(* only the two spawns start a process, and each looks at the entry again  *)
(* in the step of the spawn itself (agent-run-starter.ts:247).             *)
THEOREM CancelledSpawnsNothing == Spec => CancelledStartsSpawnNothing
  <1> DEFINE Spawned ==
        \A p \in DOMAIN proc' \ DOMAIN proc :
          proc'[p].entry # 0 => queue[proc'[p].entry].status # "cancelled"
  <1>1. ASSUME IInv, NEW a \in Agents, LaunchNext(a) PROVE Spawned
    <2>1. CASE Spawn(a) \/ HelperSpawn(a)
      <3>1. PICK kind \in {"pty", "helper"} :
              proc' = Append(proc, NewProcess(a, launch[a].row, kind, launch[a].entry))
        BY <2>1 DEF Spawn, HelperSpawn
      <3> DEFINE new == NewProcess(a, launch[a].row, kind, launch[a].entry)
      <3>2. new.entry = launch[a].entry
        BY DEF NewProcess
      <3>3. EntryActive(launch[a].entry)
        BY <2>1 DEF Spawn, HelperSpawn, MaySpawn
      <3> HIDE DEF new
      <3>4. \A p \in DOMAIN proc' : p \in DOMAIN proc \/ proc'[p] = new
        <4>1. proc' = Append(proc, new)
          BY <3>1 DEF new
        <4>2. DOMAIN proc = 1..Len(proc) /\ Len(proc) \in Nat
          BY <1>1, InvariantParts, ProcessList
        <4> QED BY <4>1, <4>2 DEF Append
      <3> QED BY <3>2, <3>3, <3>4 DEF EntryActive
    <2>2. CASE SpawnThrows(a) \/ PreparationFails(a) \/ KillFails(a) \/ LaunchFailed(a)
               \/ HelperStarted(a) \/ Connected(a)
      <3>1. proc' = proc
        BY <2>2 DEF SpawnThrows, PreparationFails, KillFails, LaunchFailed, HelperStarted,
                    Connected
      <3> QED BY <3>1
    <2>3. CASE HelperStopped(a) \/ HelperUnconfirmed(a)
               \/ (\E succeeded \in BOOLEAN : HelperClosed(a, succeeded))
               \/ (\E registered \in BOOLEAN : ConnectFails(a, registered))
      <3>1. DOMAIN proc' = DOMAIN proc
        BY <2>3 DEF HelperStopped, HelperUnconfirmed, HelperClosed, ConnectFails
      <3> QED BY <3>1
    <2> QED BY <1>1, <2>1, <2>2, <2>3 DEF LaunchNext
  <1>2. ASSUME NEW p \in Pids, ProcessDies(p) \/ ExitNext(p) PROVE Spawned
    <2>1. DOMAIN proc' = DOMAIN proc
      BY <1>2 DEF ProcessDies, ExitNext, NativeExit, ConfirmExit, CleanupFails
    <2> QED BY <2>1
  <1>3. ASSUME DrainNext PROVE Spawned
    <2>1. proc' = proc
      BY <1>3 DEF DrainNext, DrainStarts, DrainPassEnds, WaitTimer, VisitWaits, VisitStale,
                  VisitClaims
    <2> QED BY <2>1
  <1>4. ASSUME RequestNext PROVE Spawned
    <2>1. DOMAIN proc' = DOMAIN proc
      <3>1. CASE \/ \E e \in Entries, pauseAgent \in BOOLEAN : Cancel(e, pauseAgent)
                 \/ \E a \in Agents : CancelReservation(a)
        <4>1. \E a, t : Abort(a, t)
          BY <3>1 DEF Cancel, CancelReservation, CancelEntries
        <4> QED BY <4>1 DEF Abort
      <3>2. CASE \E a \in Agents : StopRun(a)
        BY <3>2 DEF StopRun
      <3>3. CASE \/ \E a \in Agents : StartAgent(a) \/ StartJoined(a)
                 \/ \E a \in Agents : \E enqueued \in BOOLEAN : StartRefused(a, enqueued)
                 \/ \E new \in Limits : UpdateLimits(new)
                 \/ Reconcile
        BY <3>3 DEF StartAgent, StartJoined, StartRefused, UpdateLimits, Reconcile
      <3> QED BY <1>4, <3>1, <3>2, <3>3 DEF RequestNext
    <2> QED BY <2>1
  <1>5. ASSUME Restart PROVE Spawned
    <2>1. DOMAIN proc' = DOMAIN proc
      BY <1>5 DEF Restart, Pids
    <2> QED BY <2>1
  <1>6. ASSUME IInv, [Next]_vars PROVE [Spawned]_vars
    <2>1. CASE UNCHANGED vars
      BY <2>1
    <2>2. CASE Next
      <3> HIDE DEF Spawned
      <3> QED BY <1>1, <1>2, <1>3, <1>4, <1>5, <1>6, <2>2 DEF Next
    <2> QED BY <1>6, <2>1, <2>2
  <1> QED BY <1>6, AlwaysInAccord, PTL DEF Spec, CancelledStartsSpawnNothing

=============================================================================
