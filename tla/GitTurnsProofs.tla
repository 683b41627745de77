--------------------------- MODULE GitTurnsProofs ---------------------------
(***************************************************************************)
(* What holds of the snapshots of turns whatever the bounds: no turn of    *)
(* the tracked run is forgotten, and a snapshot is refused only because of *)
(* commits that are no turn's of the same attachment.                      *)
(*                                                                         *)
(* The inductive invariant is Good(Coordinator, repo.commits).  Its heart  *)
(* is Waits: while the snapshot of a turn is outstanding, the later turns  *)
(* of its run wait in the chain behind it and have not asked for HEAD.     *)
(***************************************************************************)
EXTENDS GitTurns, SequenceTheorems, FiniteSetTheorems, TLAPS

CoordinatorType == [run: TrackedRun, turn: Seq(Turn), chain: [Runs -> Seq(Turns)],
                    gitq: Seq(Operation)]

Typed(c) ==
  /\ c \in CoordinatorType
  /\ Len(c.turn) + c.run.pending <= MaxTurns

(* The snapshot of turn t waits in the chain of its run, or was taken.     *)
InChain(c, t) ==
  \E p \in 1..Len(c.chain[c.turn[t].run]) : c.chain[c.turn[t].run][p] = t
Done(c, t) == c.turn[t].ending /\ ~InChain(c, t)

(* The active turn is the latest one.                                      *)
Tracked(c) ==
  /\ c.run.active \in {0, Len(c.turn)}
  /\ \A t \in 1..Len(c.turn) :
       /\ c.turn[t].run <= c.run.id
       /\ c.turn[t].outcome = "open" /\ c.turn[t].run = c.run.id =>
            IF c.turn[t].ending THEN InChain(c, t) ELSE c.run.active = t
  /\ c.run.active # 0 =>
       /\ c.turn[c.run.active].run = c.run.id
       /\ c.turn[c.run.active].outcome = "open"

Linked(c, r, p) ==
  /\ c.chain[r][p] \in 1..Len(c.turn)
  /\ c.turn[c.chain[r][p]].run = r /\ c.turn[c.chain[r][p]].ending
  /\ \A q \in 1..Len(c.chain[r]) : c.chain[r][p] = c.chain[r][q] => p = q

ChainGood(c) == \A r \in Runs : \A p \in 1..Len(c.chain[r]) : Linked(c, r, p)

Fate(c, t) ==
  /\ c.turn[t].after # 0 => /\ c.turn[t].after < t
                            /\ c.turn[c.turn[t].after].run = c.turn[t].run
  /\ c.turn[t].outcome = "dropped" => c.turn[t].baseline = 0
  /\ c.turn[t].outcome \in {"unready", "refused", "created", "clean"} => Done(c, t)

TurnGood(c) == \A t \in 1..Len(c.turn) : Fate(c, t)

(* No operation of the queue asks for HEAD for turn t.                     *)
Unasked(c, t) ==
  \A j \in 1..Len(c.gitq) : c.gitq[j].turn = t => c.gitq[j].op # "baseline"

Behind(c, t, u) ==
  \E q \in 1..Len(c.chain[c.turn[t].run]) : \E p \in 1..q :
    c.chain[c.turn[t].run][q] = c.turn[t].after /\ c.chain[c.turn[t].run][p] = u

Outstanding(c, t, u) ==
  c.turn[u].run = c.turn[t].run /\ c.turn[u].baseline # 0 /\ ~Done(c, u)

Waits(c) ==
  \A t \in 1..Len(c.turn) : \A u \in 1..Len(c.turn) :
    u < t /\ Outstanding(c, t, u) => Behind(c, t, u)

Ready(c, t) == c.turn[t].after = 0 \/ Done(c, c.turn[t].after)

Patient(c) ==
  \A t \in 1..Len(c.turn) : ~Ready(c, t) => c.turn[t].baseline = 0 /\ Unasked(c, t)

(* The operation of a snapshot is that of the first turn of the chain, and *)
(* HEAD is asked for before.                                               *)
IsSnapshot(o) == o.op # "baseline"

FirstOfChain(c, t) ==
  c.chain[c.turn[t].run] # <<>> /\ c.chain[c.turn[t].run][1] = t

OpGood(c, o) ==
  /\ o.turn \in 1..Len(c.turn)
  /\ IsSnapshot(o) => FirstOfChain(c, o.turn)
  /\ ~IsSnapshot(o) => c.turn[o.turn].baseline = 0
  /\ o.op = "commit" => o.expected = c.turn[o.turn].baseline

(* Operation o is before operation p.                                      *)
PairGood(c, o, p) ==
  /\ IsSnapshot(o) /\ IsSnapshot(p) => c.turn[o.turn].run # c.turn[p.turn].run
  /\ o.turn = p.turn => ~IsSnapshot(o) /\ p.op = "status"

QueueGood(c) ==
  \A k \in 1..Len(c.gitq) :
    /\ OpGood(c, c.gitq[k])
    /\ c.gitq[k].begun => k = 1
    /\ \A j \in 1..Len(c.gitq) : j < k => PairGood(c, c.gitq[j], c.gitq[k])

(* A commit by a turn, seen from a turn of the same run that had begun     *)
(* before, is one that came after that turn's own snapshot.                *)
Later(c, t, i, u) ==
  /\ c.turn[t].baseline # 0 /\ c.turn[t].baseline <= i
  /\ u # 0 /\ c.turn[u].run = c.turn[t].run /\ c.turn[u].baseline # 0

CommitsGood(c, commits) ==
  /\ commits \in Seq(0..MaxTurns)
  /\ \A i \in 1..Len(commits) :
       commits[i] # 0 => commits[i] \in 1..Len(c.turn) /\ Done(c, commits[i])
  /\ \A t \in 1..Len(c.turn) :
       /\ c.turn[t].baseline <= Len(commits) + 1
       /\ \A i \in 1..Len(commits) : Later(c, t, i, commits[i]) => Done(c, t)

(* What an operation has read: nobody's turn has committed since.          *)
HasRead(c, o, commits) ==
  /\ o.head \in 1..(Len(commits) + 1)
  /\ \A i \in 1..Len(commits) : o.head <= i => commits[i] = 0
  /\ o.op = "commit" => c.turn[o.turn].baseline <= o.head

HeadGood(c, commits) ==
  \A j \in 1..Len(c.gitq) : c.gitq[j].begun => HasRead(c, c.gitq[j], commits)

Good(c, commits) ==
  /\ Typed(c) /\ Tracked(c) /\ ChainGood(c) /\ TurnGood(c) /\ Waits(c) /\ Patient(c)
  /\ QueueGood(c) /\ CommitsGood(c, commits) /\ HeadGood(c, commits)

IInv == Good(Coordinator, repo.commits) /\ repo \in Repo

-----------------------------------------------------------------------------
(* What the type says.                                                     *)
LEMMA Fields ==
  ASSUME NEW c, c \in CoordinatorType
  PROVE  /\ c.run \in TrackedRun /\ c.run.id \in Runs /\ c.run.active \in 0..MaxTurns
         /\ c.run.pending \in 0..MaxInputs /\ c.run.prompt \in BOOLEAN
         /\ c.turn \in Seq(Turn) /\ Len(c.turn) \in Nat
         /\ c.turn \in [1..Len(c.turn) -> Turn]
         /\ c.chain \in [Runs -> Seq(Turns)]
         /\ \A r \in Runs : /\ c.chain[r] \in Seq(Turns) /\ Len(c.chain[r]) \in Nat
                            /\ c.chain[r] \in [1..Len(c.chain[r]) -> Turns]
         /\ c.gitq \in Seq(Operation) /\ Len(c.gitq) \in Nat
         /\ c.gitq \in [1..Len(c.gitq) -> Operation]
  <1>1. /\ c.run \in TrackedRun /\ c.turn \in Seq(Turn)
        /\ c.chain \in [Runs -> Seq(Turns)] /\ c.gitq \in Seq(Operation)
    BY DEF CoordinatorType
  <1>2. \A r \in Runs : c.chain[r] \in Seq(Turns)
    BY <1>1
  <1>3. /\ c.run.id \in Runs /\ c.run.active \in 0..MaxTurns
        /\ c.run.pending \in 0..MaxInputs /\ c.run.prompt \in BOOLEAN
    BY <1>1 DEF TrackedRun
  <1> QED BY <1>1, <1>2, <1>3, LenProperties

(* The fields of a turn.                                                   *)
LEMMA TurnFields ==
  ASSUME NEW t \in Turn
  PROVE  /\ t.run \in Runs /\ t.baseline \in Nat /\ t.ending \in BOOLEAN
         /\ t.settling \in BOOLEAN /\ t.saw \in BOOLEAN /\ t.after \in 0..MaxTurns
         /\ t.outcome \in {"open", "dropped", "unready", "refused", "created", "clean"}
  BY DEF Turn

(* The constants.                                                          *)
LEMMA Bounds ==
  /\ MaxTurns \in Nat /\ MaxInputs \in Nat /\ MaxRuns \in Nat \ {0}
  /\ MaxCommits \in Nat /\ MaxToggles \in Nat
  BY GitTurnsAssumption

(* The elements of a finite set, as a sequence.                            *)
LEMMA SetAsSequence ==
  ASSUME NEW S, IsFiniteSet(S)
  PROVE  /\ SetToSeq(S) \in [1..Cardinality(S) -> S] /\ Cardinality(S) \in Nat
         /\ IsInjective(SetToSeq(S))
  <1>1. Cardinality(S) \in Nat /\ ExistsBijection(1..Cardinality(S), S)
    BY FS_CardinalityType
  <1>2. PICK f \in [1..Cardinality(S) -> S] : IsInjective(f)
    BY <1>1 DEF ExistsBijection, Bijection, Injection, IsInjective
  <1> QED BY <1>1, <1>2 DEF SetToSeq

(* The snapshots are concerned with this part of a turn.                   *)
Alike(s, t) ==
  /\ t.run = s.run /\ t.baseline = s.baseline /\ t.ending = s.ending
  /\ t.after = s.after

(* A change that the snapshots ignore keeps what is good.                  *)
LEMMA AlikeGood ==
  ASSUME NEW c, NEW e, NEW commits, Good(c, commits), Typed(e), Tracked(e),
         e.chain = c.chain, e.gitq = c.gitq, Len(e.turn) = Len(c.turn),
         \A t \in 1..Len(c.turn) :
           /\ Alike(c.turn[t], e.turn[t])
           /\ \/ e.turn[t].outcome = c.turn[t].outcome
              \/ e.turn[t].outcome = "dropped" /\ c.turn[t].baseline = 0
  PROVE  Good(e, commits)
  <1>t. /\ Len(c.turn) \in Nat /\ c.run.active \in Nat
        /\ \A t \in 1..Len(c.turn) : c.turn[t] \in Turn
        /\ \A j \in 1..Len(c.gitq) : c.gitq[j] \in Operation
    BY Fields DEF Good, Typed
  <1>a. \A t \in 1..Len(c.turn) :
          /\ e.turn[t].run = c.turn[t].run /\ e.turn[t].baseline = c.turn[t].baseline
          /\ e.turn[t].ending = c.turn[t].ending /\ e.turn[t].after = c.turn[t].after
    BY DEF Alike
  <1>1. \A t \in 1..Len(c.turn) : /\ InChain(e, t) = InChain(c, t)
                                  /\ Done(e, t) = Done(c, t)
    BY <1>a DEF InChain, Done
  <1>3. ChainGood(e)
    <2> SUFFICES ASSUME NEW r \in Runs, NEW p \in 1..Len(c.chain[r])
                 PROVE  Linked(e, r, p)
      BY DEF ChainGood
    <2>1. Linked(c, r, p)
      BY DEF Good, ChainGood
    <2> QED BY <1>a, <2>1 DEF Linked
  <1>4. TurnGood(e)
    <2> SUFFICES ASSUME NEW t \in 1..Len(c.turn)
                 PROVE  Fate(e, t)
      BY DEF TurnGood
    <2>1. c.turn[t].after \in Nat /\ Fate(c, t)
      BY <1>t, TurnFields, Bounds DEF Good, TurnGood
    <2>2. c.turn[t].after # 0 => c.turn[t].after \in 1..Len(c.turn)
      BY <1>t, <2>1 DEF Fate
    <2> QED BY <1>1, <1>a, <2>1, <2>2 DEF Fate
  <1>5. Waits(e)
    <2> SUFFICES ASSUME NEW t \in 1..Len(c.turn), NEW u \in 1..Len(c.turn),
                        u < t, Outstanding(e, t, u)
                 PROVE  Behind(e, t, u)
      BY DEF Waits
    <2>1. Outstanding(c, t, u)
      BY <1>1, <1>a DEF Outstanding
    <2>2. Behind(c, t, u)
      BY <2>1 DEF Good, Waits
    <2> QED BY <1>a, <2>2 DEF Behind
  <1>9. Patient(e)
    <2> SUFFICES ASSUME NEW t \in 1..Len(c.turn), ~Ready(e, t)
                 PROVE  e.turn[t].baseline = 0 /\ Unasked(e, t)
      BY DEF Patient
    <2>1. c.turn[t].after \in Nat /\ Fate(c, t)
      BY <1>t, TurnFields, Bounds DEF Good, TurnGood
    <2>2. c.turn[t].after # 0 => c.turn[t].after \in 1..Len(c.turn)
      BY <1>t, <2>1 DEF Fate
    <2>3. ~Ready(c, t)
      BY <1>1, <1>a, <2>2 DEF Ready
    <2> QED BY <1>a, <2>3 DEF Good, Patient, Unasked
  <1>6. QueueGood(e)
    <2>1. ASSUME NEW k \in 1..Len(c.gitq)
          PROVE  OpGood(e, c.gitq[k])
      <3>1. OpGood(c, c.gitq[k])
        BY DEF Good, QueueGood
      <3> QED BY <1>a, <3>1 DEF OpGood, FirstOfChain
    <2>2. ASSUME NEW k \in 1..Len(c.gitq), NEW j \in 1..Len(c.gitq), j < k
          PROVE  PairGood(e, c.gitq[j], c.gitq[k])
      <3>1. /\ PairGood(c, c.gitq[j], c.gitq[k])
            /\ c.gitq[j].turn \in 1..Len(c.turn) /\ c.gitq[k].turn \in 1..Len(c.turn)
        BY <2>2 DEF Good, QueueGood, OpGood
      <3> QED BY <1>a, <3>1 DEF PairGood
    <2> QED BY <2>1, <2>2 DEF Good, QueueGood
  <1>7. CommitsGood(e, commits)
    <2>1. /\ commits \in Seq(0..MaxTurns)
          /\ \A i \in 1..Len(commits) :
               commits[i] # 0 => commits[i] \in 1..Len(c.turn) /\ Done(c, commits[i])
          /\ \A t \in 1..Len(c.turn) : c.turn[t].baseline <= Len(commits) + 1
      BY DEF Good, CommitsGood
    <2>2. ASSUME NEW t \in 1..Len(c.turn), NEW i \in 1..Len(commits), Later(e, t, i, commits[i])
          PROVE  Done(e, t)
      <3>1. commits[i] \in 1..Len(c.turn)
        BY <2>1, <2>2 DEF Later
      <3>2. Later(c, t, i, commits[i])
        BY <1>a, <2>2, <3>1 DEF Later
      <3> QED BY <1>1, <3>2 DEF Good, CommitsGood
    <2> QED BY <1>1, <1>a, <2>1, <2>2 DEF CommitsGood
  <1>8. HeadGood(e, commits)
    <2> SUFFICES ASSUME NEW j \in 1..Len(c.gitq), c.gitq[j].begun
                 PROVE  HasRead(e, c.gitq[j], commits)
      BY DEF HeadGood
    <2>1. c.gitq[j].turn \in 1..Len(c.turn) /\ HasRead(c, c.gitq[j], commits)
      BY DEF Good, HeadGood, QueueGood, OpGood
    <2>2. e.turn[c.gitq[j].turn].baseline = c.turn[c.gitq[j].turn].baseline
      BY <1>a, <2>1
    <2> QED BY <2>1, <2>2 DEF HasRead
  <1> QED BY <1>3, <1>4, <1>5, <1>6, <1>7, <1>8, <1>9 DEF Good

(* So does one that keeps the outcomes and the active turn.                *)
LEMMA SameGood ==
  ASSUME NEW c, NEW e, NEW commits, Good(c, commits), Typed(e),
         e.run.id = c.run.id, e.run.active = c.run.active,
         e.chain = c.chain, e.gitq = c.gitq, Len(e.turn) = Len(c.turn),
         \A t \in 1..Len(c.turn) :
           Alike(c.turn[t], e.turn[t]) /\ e.turn[t].outcome = c.turn[t].outcome
  PROVE  Good(e, commits)
  <1>t. Len(c.turn) \in Nat /\ c.run.active \in Nat
    BY Fields DEF Good, Typed
  <1>1. \A t \in 1..Len(c.turn) : /\ InChain(e, t) <=> InChain(c, t)
                                  /\ e.turn[t].run = c.turn[t].run
                                  /\ e.turn[t].outcome = c.turn[t].outcome
                                  /\ e.turn[t].ending = c.turn[t].ending
    BY DEF Alike, InChain
  <1>2. Tracked(e)
    BY <1>1, <1>t DEF Good, Tracked
  <1> QED BY <1>2, AlikeGood

-----------------------------------------------------------------------------
(* The queue.                                                              *)
LEMMA NewQueue ==
  ASSUME NEW c, NEW commits, Good(c, commits), NEW Q \in Seq(Operation),
         \A k \in 1..Len(Q) :
           /\ OpGood(c, Q[k])
           /\ Q[k].begun => k = 1 /\ HasRead(c, Q[k], commits)
           /\ \A j \in 1..Len(Q) : j < k => PairGood(c, Q[j], Q[k]),
         \A t \in 1..Len(c.turn) : ~Ready(c, t) =>
           \A k \in 1..Len(Q) : Q[k].turn = t => Q[k].op # "baseline"
  PROVE  Good([c EXCEPT !.gitq = Q], commits)
  <1> DEFINE e == [c EXCEPT !.gitq = Q]
  <1>1. /\ e \in CoordinatorType /\ e.run = c.run /\ e.turn = c.turn
        /\ e.chain = c.chain /\ e.gitq = Q
    BY DEF Good, Typed, CoordinatorType
  <1> HIDE DEF e
  <1>2. \A t \in 1..Len(c.turn) : /\ InChain(e, t) = InChain(c, t)
                                  /\ Done(e, t) = Done(c, t)
    BY <1>1 DEF InChain, Done
  <1>3. Typed(e) /\ Tracked(e) /\ ChainGood(e)
    BY <1>1, <1>2 DEF Good, Typed, Tracked, ChainGood, Linked
  <1>4. TurnGood(e)
    BY <1>1, <1>2 DEF Good, TurnGood, Fate
  <1>5. Waits(e)
    <2> SUFFICES ASSUME NEW t \in 1..Len(c.turn), NEW u \in 1..Len(c.turn),
                        u < t, Outstanding(e, t, u)
                 PROVE  Behind(e, t, u)
      BY <1>1 DEF Waits
    <2>1. Outstanding(c, t, u)
      BY <1>1, <1>2 DEF Outstanding
    <2>2. Behind(c, t, u)
      BY <2>1 DEF Good, Waits
    <2> QED BY <1>1, <2>2 DEF Behind
  <1>10. Patient(e)
    <2> SUFFICES ASSUME NEW t \in 1..Len(c.turn), ~Ready(e, t)
                 PROVE  e.turn[t].baseline = 0 /\ Unasked(e, t)
      BY <1>1 DEF Patient
    <2>1. ~Ready(c, t)
      BY <1>1 DEF Ready, Done, InChain
    <2> QED BY <1>1, <2>1 DEF Good, Patient, Unasked
  <1>6. QueueGood(e)
    BY <1>1 DEF QueueGood, OpGood, FirstOfChain, PairGood
  <1>7. CommitsGood(e, commits)
    BY <1>1, <1>2 DEF Good, CommitsGood, Later
  <1>8. HeadGood(e, commits)
    BY <1>1 DEF HeadGood, HasRead
  <1>9. Good(e, commits)
    BY <1>3, <1>4, <1>5, <1>6, <1>7, <1>8, <1>10 DEF Good
  <1> QED BY <1>9 DEF e

(* The first operation ends.                                               *)
LEMMA Dequeued ==
  ASSUME NEW c, NEW commits, Good(c, commits), c.gitq # <<>>
  PROVE  LET o == Head(c.gitq)
             e == [c EXCEPT !.gitq = Tail(@)]
         IN /\ Good(e, commits) /\ o \in Operation /\ OpGood(e, o)
            /\ o.begun => HasRead(e, o, commits)
            /\ \A k \in 1..Len(e.gitq) : PairGood(e, o, e.gitq[k])
            /\ o.op = "baseline" => Ready(e, o.turn)
  <1> DEFINE o == Head(c.gitq)
             Q == Tail(c.gitq)
             e == [c EXCEPT !.gitq = Q]
  <1>1. /\ c \in CoordinatorType /\ c.gitq \in Seq(Operation) /\ Len(c.gitq) \in Nat
        /\ c.gitq \in [1..Len(c.gitq) -> Operation]
    BY Fields DEF Good, Typed
  <1>2. /\ o = c.gitq[1] /\ Q \in Seq(Operation) /\ Len(Q) = Len(c.gitq) - 1
        /\ \A k \in 1..Len(Q) : Q[k] = c.gitq[k + 1]
        /\ 1 \in 1..Len(c.gitq) /\ Len(c.gitq) > 0
    BY <1>1, HeadTailProperties
  <1>3. \A k \in 1..Len(Q) : /\ k + 1 \in 1..Len(c.gitq) /\ k + 1 # 1 /\ 1 < k + 1
                             /\ Q[k] = c.gitq[k + 1]
                             /\ \A j \in 1..Len(Q) : j < k => j + 1 < k + 1
    BY <1>1, <1>2
  <1>4. e.run = c.run /\ e.turn = c.turn /\ e.chain = c.chain /\ e.gitq = Q
    BY <1>1 DEF CoordinatorType
  <1> HIDE DEF Q, o
  <1>5. Good(e, commits)
    <2> HIDE DEF e
    <2>1. \A k \in 1..Len(Q) : OpGood(c, Q[k]) /\ ~Q[k].begun
      BY <1>1, <1>3 DEF Good, QueueGood, Operation
    <2>2. \A k \in 1..Len(Q) : \A j \in 1..Len(Q) : j < k => PairGood(c, Q[j], Q[k])
      BY <1>3 DEF Good, QueueGood
    <2>3. \A t \in 1..Len(c.turn) : ~Ready(c, t) =>
             \A k \in 1..Len(Q) : Q[k].turn = t => Q[k].op # "baseline"
      BY <1>3 DEF Good, Patient, Unasked
    <2> QED BY <1>2, <2>1, <2>2, <2>3, NewQueue DEF e
  <1> HIDE DEF e
  <1>6. \A t \in 1..Len(c.turn) : Ready(e, t) <=> Ready(c, t)
    BY <1>4 DEF Ready, Done, InChain
  <1>7. o \in Operation /\ OpGood(e, o)
    BY <1>1, <1>2, <1>4 DEF Good, QueueGood, OpGood, FirstOfChain
  <1>8. o.begun => HasRead(e, o, commits)
    BY <1>2, <1>4 DEF Good, HeadGood, HasRead
  <1>9. \A k \in 1..Len(Q) : PairGood(e, o, Q[k])
    BY <1>2, <1>3, <1>4 DEF Good, QueueGood, PairGood
  <1>10. ASSUME o.op = "baseline"
         PROVE  Ready(e, o.turn)
    <2>1. o.turn \in 1..Len(c.turn)
      BY <1>4, <1>7 DEF OpGood
    <2>2. ~Unasked(c, o.turn)
      BY <1>2, <1>10 DEF Unasked
    <2> QED BY <1>6, <2>1, <2>2 DEF Good, Patient
  <1> QED BY <1>4, <1>5, <1>7, <1>8, <1>9, <1>10 DEF e, Q, o

(* HEAD may be asked for turn t.                                           *)
MayAsk(c, t) ==
  /\ t \in 1..Len(c.turn) /\ Ready(c, t)
  /\ c.turn[t].baseline = 0 /\ Unasked(c, t)
  /\ \A k \in 1..Len(c.gitq) : IsSnapshot(c.gitq[k]) => c.gitq[k].turn # t

(* Reads of HEAD are queued.                                               *)
LEMMA ReadsQueued ==
  ASSUME NEW c, NEW commits, Good(c, commits), NEW R \in Seq(Operation),
         \A i \in 1..Len(R) : /\ R[i].op = "baseline" /\ R[i].begun = FALSE
                              /\ MayAsk(c, R[i].turn),
         \A i, j \in 1..Len(R) : R[i].turn = R[j].turn => i = j
  PROVE  Good([c EXCEPT !.gitq = c.gitq \o R], commits)
  <1> DEFINE Q == c.gitq \o R
             n == Len(c.gitq)
  <1>1. /\ c \in CoordinatorType /\ c.gitq \in Seq(Operation) /\ n \in Nat
        /\ c.gitq \in [1..n -> Operation] /\ Len(R) \in Nat
    BY Fields, LenProperties DEF Good, Typed
  <1>2. Q \in Seq(Operation) /\ Len(Q) = n + Len(R)
    BY <1>1, ConcatProperties
  <1>3. \A k \in 1..Len(Q) : \/ k \in 1..n /\ Q[k] = c.gitq[k]
                             \/ k > n /\ k - n \in 1..Len(R) /\ Q[k] = R[k - n]
    BY <1>1, <1>2, ConcatProperties
  <1> HIDE DEF Q, n
  <1>4. \A k \in 1..Len(Q) :
          \/ k \in 1..n /\ Q[k] = c.gitq[k]
          \/ k > n /\ Q[k].op = "baseline" /\ Q[k].begun = FALSE /\ MayAsk(c, Q[k].turn)
    BY <1>3
  <1>5. ASSUME NEW k \in 1..Len(Q)
        PROVE  /\ OpGood(c, Q[k])
               /\ Q[k].begun => k = 1 /\ HasRead(c, Q[k], commits)
               /\ \A j \in 1..Len(Q) : j < k => PairGood(c, Q[j], Q[k])
    <2>1. CASE k \in 1..n /\ Q[k] = c.gitq[k]
      <3>1. \A j \in 1..Len(Q) : j < k => j \in 1..n /\ Q[j] = c.gitq[j]
        BY <1>1, <1>2, <1>4, <2>1
      <3> QED BY <2>1, <3>1 DEF Good, QueueGood, HeadGood, n
    <2>2. CASE k > n /\ Q[k].op = "baseline" /\ Q[k].begun = FALSE /\ MayAsk(c, Q[k].turn)
      <3>1. OpGood(c, Q[k])
        BY <2>2 DEF OpGood, MayAsk, IsSnapshot
      <3>2. ASSUME NEW j \in 1..Len(Q), j < k
            PROVE  PairGood(c, Q[j], Q[k])
        <4>1. CASE j \in 1..n /\ Q[j] = c.gitq[j]
          BY <2>2, <4>1 DEF PairGood, MayAsk, Unasked, IsSnapshot, n
        <4>2. CASE j > n
          <5>1. j - n \in 1..Len(R) /\ Q[j] = R[j - n]
            BY <1>1, <1>3, <4>2
          <5>2. k - n \in 1..Len(R) /\ Q[k] = R[k - n] /\ j - n # k - n
            BY <1>1, <1>2, <1>3, <2>2, <3>2, <4>2
          <5>3. Q[j].turn # Q[k].turn
            BY <5>1, <5>2
          <5> QED BY <2>2, <5>3 DEF PairGood, IsSnapshot
        <4> QED BY <1>3, <4>1, <4>2
      <3> QED BY <2>2, <3>1, <3>2
    <2> QED BY <1>4, <2>1, <2>2
  <1>6. ASSUME NEW t \in 1..Len(c.turn), ~Ready(c, t), NEW k \in 1..Len(Q), Q[k].turn = t
        PROVE  Q[k].op # "baseline"
    <2>1. Unasked(c, t) /\ ~MayAsk(c, t)
      BY <1>6 DEF Good, Patient, MayAsk
    <2> QED BY <1>4, <1>6, <2>1 DEF Unasked, n
  <1>7. \A t \in 1..Len(c.turn) : ~Ready(c, t) =>
          \A k \in 1..Len(Q) : Q[k].turn = t => Q[k].op # "baseline"
    BY <1>6
  <1>8. \A k \in 1..Len(Q) :
          /\ OpGood(c, Q[k])
          /\ Q[k].begun => k = 1 /\ HasRead(c, Q[k], commits)
          /\ \A j \in 1..Len(Q) : j < k => PairGood(c, Q[j], Q[k])
    BY <1>5
  <1>9. Good([c EXCEPT !.gitq = Q], commits)
    BY <1>2, <1>7, <1>8, NewQueue
  <1> QED BY <1>9 DEF Q

(* So may the operation of the snapshot of turn t.                         *)
MaySnapshot(c, t) ==
  /\ t \in 1..Len(c.turn) /\ FirstOfChain(c, t)
  /\ \A k \in 1..Len(c.gitq) :
       IsSnapshot(c.gitq[k]) => c.turn[c.gitq[k].turn].run # c.turn[t].run

(* The operation of a snapshot is queued.                                  *)
LEMMA SnapshotQueued ==
  ASSUME NEW c, NEW commits, Good(c, commits), NEW o \in Operation,
         IsSnapshot(o), o.begun = FALSE, MaySnapshot(c, o.turn),
         o.op = "commit" => /\ o.expected = c.turn[o.turn].baseline
                            /\ \A k \in 1..Len(c.gitq) : c.gitq[k].turn # o.turn
  PROVE  Good([c EXCEPT !.gitq = Append(c.gitq, o)], commits)
  <1> DEFINE Q == Append(c.gitq, o)
             n == Len(c.gitq)
  <1>1. /\ c \in CoordinatorType /\ c.gitq \in Seq(Operation) /\ n \in Nat
        /\ c.gitq \in [1..n -> Operation]
    BY Fields DEF Good, Typed
  <1>2. Q \in Seq(Operation) /\ Len(Q) = n + 1 /\ Q[n + 1] = o
    BY <1>1, AppendProperties
  <1>3. \A k \in 1..Len(Q) : \/ k \in 1..n /\ Q[k] = c.gitq[k]
                             \/ k = n + 1 /\ Q[k] = o
    BY <1>1, <1>2, AppendProperties
  <1> HIDE DEF Q, n
  <1>4. OpGood(c, o)
    BY DEF OpGood, MaySnapshot
  <1>5. ASSUME NEW k \in 1..n PROVE PairGood(c, c.gitq[k], o)
    <2>1. c.gitq[k].turn \in 1..Len(c.turn)
      BY DEF Good, QueueGood, OpGood, n
    <2> QED BY <2>1 DEF PairGood, MaySnapshot, IsSnapshot, Operation, n
  <1>6. ASSUME NEW k \in 1..Len(Q)
        PROVE  /\ OpGood(c, Q[k])
               /\ Q[k].begun => k = 1 /\ HasRead(c, Q[k], commits)
               /\ \A j \in 1..Len(Q) : j < k => PairGood(c, Q[j], Q[k])
    <2>1. CASE k \in 1..n /\ Q[k] = c.gitq[k]
      <3>1. \A j \in 1..Len(Q) : j < k => j \in 1..n /\ Q[j] = c.gitq[j]
        BY <1>1, <1>2, <1>3, <2>1
      <3> QED BY <2>1, <3>1 DEF Good, QueueGood, HeadGood, n
    <2>2. CASE k = n + 1 /\ Q[k] = o
      <3>1. \A j \in 1..Len(Q) : j < k => j \in 1..n /\ Q[j] = c.gitq[j]
        BY <1>1, <1>2, <1>3, <2>2
      <3> QED BY <1>4, <1>5, <2>2, <3>1
    <2> QED BY <1>3, <2>1, <2>2
  <1>7. ASSUME NEW t \in 1..Len(c.turn), ~Ready(c, t), NEW k \in 1..Len(Q), Q[k].turn = t
        PROVE  Q[k].op # "baseline"
    <2>1. Unasked(c, t)
      BY <1>7 DEF Good, Patient
    <2> QED BY <1>3, <1>7, <2>1 DEF Unasked, IsSnapshot, n
  <1> QED BY <1>2, <1>6, <1>7, NewQueue DEF Q

-----------------------------------------------------------------------------
(* A turn starts.  The one before, if any, is ending.                      *)
MayStart(c) ==
  /\ c.run.active = 0 \/ c.turn[c.run.active].ending
  /\ Len(c.turn) + c.run.pending < MaxTurns

LastSnapshot(c) ==
  IF c.chain[c.run.id] = <<>> THEN 0 ELSE Last(c.chain[c.run.id])

Started(c) ==
  [c EXCEPT !.turn = Append(@, NewTurn(c.run.id, LastSnapshot(c))),
            !.run.active = Len(c.turn) + 1, !.run.prompt = FALSE]

(* What a turn that starts changes.                                        *)
LEMMA StartedFields ==
  ASSUME NEW c, NEW commits, Good(c, commits), MayStart(c)
  PROVE  LET t == Len(c.turn) + 1
             e == Started(c)
         IN /\ Typed(e) /\ Len(e.turn) = t /\ Len(c.turn) \in Nat
            /\ \A s \in 1..Len(c.turn) : e.turn[s] = c.turn[s] /\ c.turn[s] \in Turn
            /\ e.turn[t] = NewTurn(c.run.id, LastSnapshot(c))
            /\ e.run.active = t /\ e.run.id = c.run.id /\ c.run.id \in Runs
            /\ e.chain = c.chain /\ e.gitq = c.gitq
            /\ LastSnapshot(c) \in 0..MaxTurns
            /\ LastSnapshot(c) = 0 <=> Len(c.chain[c.run.id]) = 0
            /\ Len(c.chain[c.run.id]) \in Nat
            /\ Len(c.chain[c.run.id]) # 0 =>
                 LastSnapshot(c) = c.chain[c.run.id][Len(c.chain[c.run.id])]
  <1> DEFINE t == Len(c.turn) + 1
             after == LastSnapshot(c)
             pending == c.chain[c.run.id]
             new == NewTurn(c.run.id, after)
             e == Started(c)
  <1>1. /\ c \in CoordinatorType /\ Len(c.turn) \in Nat /\ c.turn \in Seq(Turn)
        /\ c.turn \in [1..Len(c.turn) -> Turn]
        /\ c.run \in TrackedRun /\ c.run.id \in Runs /\ c.run.pending \in 0..MaxInputs
        /\ pending \in Seq(Turns) /\ Len(pending) \in Nat
        /\ pending \in [1..Len(pending) -> Turns]
    BY Fields DEF Good, Typed
  <1>2. /\ after \in 0..MaxTurns /\ (after = 0 <=> Len(pending) = 0)
        /\ Len(pending) # 0 => after = pending[Len(pending)]
    <2>1. CASE pending = <<>>
      BY <1>1, <2>1, Bounds, EmptySeq DEF LastSnapshot
    <2>2. CASE pending # <<>>
      <3>1. Len(pending) # 0
        BY <1>1, <2>2, EmptySeq
      <3>2. after = pending[Len(pending)] /\ Len(pending) \in 1..Len(pending)
        BY <1>1, <2>2, <3>1 DEF LastSnapshot, Last
      <3> QED BY <1>1, <3>1, <3>2, Bounds DEF Turns
    <2> QED BY <2>1, <2>2
  <1> HIDE DEF after, pending
  <1>3. new \in Turn
    BY <1>1, <1>2 DEF NewTurn, Turn
  <1>4. t \in 0..MaxTurns /\ t + c.run.pending <= MaxTurns
    <2>1. Len(c.turn) + c.run.pending < MaxTurns /\ MaxTurns \in Nat /\ MaxInputs \in Nat
      BY Bounds DEF MayStart
    <2>2. Len(c.turn) \in Nat /\ c.run.pending \in Nat
      BY <1>1, <2>1
    <2> QED BY <2>1, <2>2
  <1> HIDE DEF new
  <1>5. /\ Append(c.turn, new) \in Seq(Turn) /\ Len(Append(c.turn, new)) = t
        /\ \A s \in 1..Len(c.turn) : Append(c.turn, new)[s] = c.turn[s]
        /\ Append(c.turn, new)[t] = new
    BY <1>1, <1>3, AppendProperties
  <1>6. /\ e.turn = Append(c.turn, new) /\ e.chain = c.chain /\ e.gitq = c.gitq
        /\ e.run = [c.run EXCEPT !.active = t, !.prompt = FALSE]
        /\ e \in [run: {e.run}, turn: {e.turn}, chain: {e.chain}, gitq: {e.gitq}]
    BY <1>1 DEF CoordinatorType, Started, new, after
  <1> HIDE DEF t
  <1>7. /\ e.run \in TrackedRun /\ e.run.active = t /\ e.run.id = c.run.id
        /\ e.run.pending = c.run.pending
    BY <1>1, <1>4, <1>6 DEF TrackedRun
  <1> HIDE DEF e
  <1>8. Typed(e)
    BY <1>1, <1>4, <1>5, <1>6, <1>7 DEF Typed, CoordinatorType
  <1> QED BY <1>1, <1>2, <1>5, <1>6, <1>7, <1>8 DEF t, e, new, after, pending

(* A turn that starts waits for the snapshots that are outstanding.        *)
LEMMA StartedGood ==
  ASSUME NEW c, NEW commits, Good(c, commits), MayStart(c)
  PROVE  Good(Started(c), commits)
  <1> DEFINE n == Len(c.turn)
             t == Len(c.turn) + 1
             after == LastSnapshot(c)
             e == Started(c)
             r == c.run.id
  <1>f. /\ Typed(e) /\ Len(e.turn) = t /\ n \in Nat /\ t = n + 1
        /\ \A s \in 1..n : e.turn[s] = c.turn[s] /\ c.turn[s] \in Turn
        /\ e.turn[t] = NewTurn(r, after)
        /\ e.run.active = t /\ e.run.id = r /\ r \in Runs
        /\ e.chain = c.chain /\ e.gitq = c.gitq
        /\ after \in 0..MaxTurns /\ (after = 0 <=> Len(c.chain[r]) = 0)
        /\ Len(c.chain[r]) \in Nat
        /\ Len(c.chain[r]) # 0 => after = c.chain[r][Len(c.chain[r])]
    BY StartedFields
  <1>n. /\ e.turn[t].run = r /\ e.turn[t].baseline = 0 /\ e.turn[t].ending = FALSE
        /\ e.turn[t].after = after /\ e.turn[t].outcome = "open"
    BY <1>f DEF NewTurn
  <1>m. MayStart(c) /\ Good(c, commits)
    OBVIOUS
  <1>r. commits \in Seq(0..MaxTurns) /\ Len(commits) \in Nat
    BY LenProperties DEF Good, CommitsGood
  <1>c. /\ \A x \in Runs : \A p \in 1..Len(c.chain[x]) : Linked(c, x, p)
        /\ \A s \in 1..n : Fate(c, s)
        /\ \A k \in 1..Len(c.gitq) : c.gitq[k].turn \in 1..n
    BY DEF Good, ChainGood, TurnGood, QueueGood, OpGood
  <1> HIDE DEF n, t, e, r, after
  <1>s. 1..Len(e.turn) = 1..n \cup {t} /\ t \notin 1..n
    BY <1>f
  <1>1. /\ \A s \in 1..n : /\ InChain(e, s) = InChain(c, s)
                           /\ Done(e, s) = Done(c, s)
        /\ ~Done(e, t)
    BY <1>f, <1>n DEF InChain, Done
  <1>2. Tracked(e)
    <2>1. \A s \in 1..n : /\ c.turn[s].run <= r
                          /\ c.turn[s].outcome = "open" /\ c.turn[s].run = r =>
                               c.turn[s].ending /\ InChain(c, s)
      BY <1>m, <1>f DEF Good, Tracked, MayStart, n, r
    <2>2. e.run.active = Len(e.turn) /\ r <= r
      BY <1>f DEF Runs
    <2> QED BY <1>f, <1>n, <1>s, <1>1, <2>1, <2>2 DEF Tracked
  <1>3. ChainGood(e)
    <2> SUFFICES ASSUME NEW x \in Runs, NEW p \in 1..Len(c.chain[x])
                 PROVE  Linked(e, x, p)
      BY <1>f DEF ChainGood
    <2>1. Linked(c, x, p)
      BY <1>c
    <2> QED BY <1>f, <1>s, <2>1 DEF Linked, n
  <1>4. TurnGood(e)
    <2>1. ASSUME NEW s \in 1..n PROVE Fate(e, s)
      <3>1. Fate(c, s) /\ c.turn[s].after \in Nat
        BY <1>c, <1>f, TurnFields, Bounds
      <3>2. c.turn[s].after # 0 => c.turn[s].after \in 1..n
        BY <1>f, <3>1 DEF Fate
      <3> QED BY <1>f, <1>1, <3>1, <3>2 DEF Fate
    <2>2. Fate(e, t)
      <3>1. ASSUME after # 0
            PROVE  after \in 1..n /\ c.turn[after].run = r
        <4>1. Len(c.chain[r]) \in 1..Len(c.chain[r]) /\ after = c.chain[r][Len(c.chain[r])]
          BY <1>f, <3>1
        <4>2. Linked(c, r, Len(c.chain[r]))
          BY <1>c, <1>f, <4>1
        <4> QED BY <4>1, <4>2 DEF Linked, n
      <3> QED BY <1>f, <1>n, <3>1 DEF Fate
    <2> QED BY <1>s, <2>1, <2>2 DEF TurnGood
  <1>5. Waits(e)
    <2> SUFFICES ASSUME NEW s \in 1..Len(e.turn), NEW u \in 1..Len(e.turn),
                        u < s, Outstanding(e, s, u)
                 PROVE  Behind(e, s, u)
      BY DEF Waits
    <2>u. u \in 1..n
      BY <1>f
    <2>1. CASE s \in 1..n
      <3>1. Outstanding(c, s, u)
        BY <1>f, <1>1, <2>u, <2>1 DEF Outstanding
      <3>2. Behind(c, s, u)
        BY <2>1, <2>u, <3>1 DEF Good, Waits, n
      <3> QED BY <1>f, <2>1, <3>2 DEF Behind
    <2>2. CASE s = t
      <3>1. c.turn[u].run = r /\ c.turn[u].baseline # 0 /\ ~Done(c, u)
        BY <1>f, <1>n, <1>1, <2>u, <2>2 DEF Outstanding
      <3>2. c.turn[u].outcome = "open"
        BY <1>c, <1>f, <2>u, <3>1, TurnFields DEF Fate
      <3>3. InChain(c, u)
        BY <1>m, <2>u, <3>1, <3>2, <1>f DEF Good, Tracked, MayStart, n, r
      <3>4. PICK p \in 1..Len(c.chain[r]) : c.chain[r][p] = u
        BY <3>1, <3>3 DEF InChain
      <3>5. Len(c.chain[r]) \in 1..Len(c.chain[r]) /\ Len(c.chain[r]) # 0
            /\ p \in 1..Len(c.chain[r])
        BY <1>f
      <3> QED BY <1>f, <1>n, <2>2, <3>4, <3>5 DEF Behind
    <2> QED BY <1>s, <2>1, <2>2
  <1>10. Patient(e)
    <2>1. ASSUME NEW s \in 1..n, ~Ready(e, s)
          PROVE  e.turn[s].baseline = 0 /\ Unasked(e, s)
      <3>1. Fate(c, s) /\ c.turn[s].after \in Nat
        BY <1>c, <1>f, TurnFields, Bounds
      <3>2. c.turn[s].after # 0 => c.turn[s].after \in 1..n
        BY <1>f, <3>1 DEF Fate
      <3>3. ~Ready(c, s)
        BY <1>f, <1>1, <2>1, <3>2 DEF Ready
      <3> QED BY <1>f, <3>3 DEF Good, Patient, Unasked, n
    <2>2. e.turn[t].baseline = 0 /\ Unasked(e, t)
      BY <1>c, <1>f, <1>n, <1>s DEF Unasked
    <2> QED BY <1>s, <2>1, <2>2 DEF Patient
  <1>6. QueueGood(e)
    <2>1. ASSUME NEW k \in 1..Len(c.gitq) PROVE OpGood(e, c.gitq[k])
      <3>1. OpGood(c, c.gitq[k])
        BY DEF Good, QueueGood
      <3> QED BY <1>c, <1>f, <1>s, <3>1 DEF OpGood, FirstOfChain
    <2>2. ASSUME NEW k \in 1..Len(c.gitq), NEW j \in 1..Len(c.gitq), j < k
          PROVE  PairGood(e, c.gitq[j], c.gitq[k])
      <3>1. PairGood(c, c.gitq[j], c.gitq[k])
        BY <2>2 DEF Good, QueueGood
      <3> QED BY <1>c, <1>f, <3>1 DEF PairGood
    <2> QED BY <1>f, <2>1, <2>2 DEF Good, QueueGood
  <1>7. CommitsGood(e, commits)
    <2>1. /\ \A i \in 1..Len(commits) :
               commits[i] # 0 => commits[i] \in 1..n /\ Done(c, commits[i])
          /\ \A s \in 1..n :
               /\ c.turn[s].baseline <= Len(commits) + 1
               /\ \A i \in 1..Len(commits) : Later(c, s, i, commits[i]) => Done(c, s)
      BY DEF Good, CommitsGood, n
    <2>2. ASSUME NEW s \in 1..n, NEW i \in 1..Len(commits), Later(e, s, i, commits[i])
          PROVE  Done(e, s)
      <3>1. commits[i] \in 1..n
        BY <2>1, <2>2 DEF Later
      <3>2. Later(c, s, i, commits[i])
        BY <1>f, <2>2, <3>1 DEF Later
      <3> QED BY <1>1, <2>1, <3>2
    <2>3. \A i \in 1..Len(commits) : ~Later(e, t, i, commits[i])
      BY <1>n DEF Later
    <2>4. e.turn[t].baseline <= Len(commits) + 1
      BY <1>n, <1>r
    <2> QED BY <1>f, <1>s, <1>1, <2>1, <2>2, <2>3, <2>4, <1>r DEF CommitsGood
  <1>8. HeadGood(e, commits)
    <2> SUFFICES ASSUME NEW j \in 1..Len(c.gitq), c.gitq[j].begun
                 PROVE  HasRead(e, c.gitq[j], commits)
      BY <1>f DEF HeadGood
    <2>1. c.gitq[j].turn \in 1..n /\ HasRead(c, c.gitq[j], commits)
      BY <1>c DEF Good, HeadGood
    <2>2. e.turn[c.gitq[j].turn] = c.turn[c.gitq[j].turn]
      BY <1>f, <2>1
    <2> QED BY <2>1, <2>2 DEF HasRead
  <1>9. Good(e, commits)
    BY <1>f, <1>2, <1>3, <1>4, <1>5, <1>6, <1>7, <1>8, <1>10 DEF Good
  <1> QED BY <1>9 DEF e

(* startTurn, which asks for HEAD when there are none.                     *)
LEMMA StartTurnGood ==
  ASSUME NEW c, NEW commits, Good(c, commits), MayStart(c)
  PROVE  Good(StartTurn(c), commits)
  <1> DEFINE t == Len(c.turn) + 1
             after == LastSnapshot(c)
             e == Started(c)
  <1>1. /\ Good(e, commits) /\ Len(e.turn) = t /\ Len(c.turn) \in Nat
        /\ e.turn[t].after = after /\ e.turn[t].baseline = 0 /\ e.gitq = c.gitq /\ e.chain = c.chain
        /\ after = 0 <=> Len(c.chain[c.run.id]) = 0
    <2>1. e.turn[t] = NewTurn(c.run.id, after)
      BY StartedFields
    <2> QED BY <2>1, StartedGood, StartedFields DEF NewTurn
  <1>2. StartTurn(c) = IF after = 0 THEN Queued(e, "baseline", t, 0) ELSE e
    BY DEF StartTurn, Started, LastSnapshot
  <1>3. CASE after = 0
    <2> DEFINE o == NewOperation("baseline", t, 0)
    <2> HIDE DEF e, after
    <2>1. t \in Turns
      BY <1>1, Bounds DEF Good, Typed, Turns, CoordinatorType, TrackedRun
    <2>2. o \in Operation /\ o.op = "baseline" /\ o.begun = FALSE /\ o.turn = t
      <3> HIDE DEF t
      <3> QED BY <2>1 DEF NewOperation, Operation
    <2> HIDE DEF o
    <2>3. \A k \in 1..Len(c.gitq) : c.gitq[k].turn # t
      BY <1>1 DEF Good, QueueGood, OpGood
    <2>5. MayAsk(e, t)
      BY <1>1, <1>3, <2>3 DEF MayAsk, Ready, Unasked
    <2>6. Good([e EXCEPT !.gitq = e.gitq \o <<o>>], commits)
      <3>1. /\ <<o>> \in Seq(Operation) /\ Len(<<o>>) = 1 /\ <<o>>[1] = o
        BY <2>2
      <3>2. \A i \in 1..Len(<<o>>) : /\ <<o>>[i].op = "baseline" /\ <<o>>[i].begun = FALSE
                                    /\ MayAsk(e, <<o>>[i].turn)
        BY <2>2, <2>5, <3>1
      <3>3. \A i, j \in 1..Len(<<o>>) : <<o>>[i].turn = <<o>>[j].turn => i = j
        BY <3>1
      <3> HIDE DEF o
      <3> QED BY <1>1, <3>1, <3>2, <3>3, ReadsQueued
    <2>7. e.gitq \o <<o>> = Append(e.gitq, o)
      BY <1>1, <2>2, AppendIsConcat DEF Good, Typed, CoordinatorType
    <2> QED BY <1>2, <1>3, <2>6, <2>7 DEF Queued, o
  <1> QED BY <1>1, <1>2, <1>3

-----------------------------------------------------------------------------
(* A turn ends, and its snapshot is chained to those before.               *)
Ended(c, t) ==
  [c EXCEPT !.turn[t].ending = TRUE, !.turn[t].settling = FALSE,
            !.chain[c.turn[t].run] = Append(@, t)]

(* What a turn that ends changes.                                          *)
LEMMA EndedFields ==
  ASSUME NEW c, Typed(c), NEW t \in 1..Len(c.turn)
  PROVE  LET r == c.turn[t].run
             L == Len(c.chain[c.turn[t].run])
             e == Ended(c, t)
         IN /\ Typed(e) /\ Len(e.turn) = Len(c.turn) /\ Len(c.turn) \in Nat
            /\ \A s \in 1..Len(c.turn) :
                 /\ e.turn[s].run = c.turn[s].run /\ e.turn[s].baseline = c.turn[s].baseline
                 /\ e.turn[s].after = c.turn[s].after
                 /\ e.turn[s].outcome = c.turn[s].outcome
                 /\ (IF s = t THEN e.turn[s].ending ELSE e.turn[s].ending = c.turn[s].ending)
            /\ r \in Runs /\ L \in Nat
            /\ \A x \in Runs : Len(c.chain[x]) \in Nat
            /\ \A x \in Runs \ {r} : e.chain[x] = c.chain[x]
            /\ Len(e.chain[r]) = L + 1 /\ e.chain[r][L + 1] = t
            /\ \A p \in 1..L : e.chain[r][p] = c.chain[r][p]
            /\ e.run = c.run /\ e.gitq = c.gitq
  <1> DEFINE r == c.turn[t].run
             L == Len(c.chain[r])
             new == [[c.turn[t] EXCEPT !.ending = TRUE] EXCEPT !.settling = FALSE]
             e == Ended(c, t)
  <1>1. /\ c \in CoordinatorType /\ Len(c.turn) \in Nat /\ c.turn \in Seq(Turn)
        /\ c.turn \in [1..Len(c.turn) -> Turn] /\ c.run \in TrackedRun
        /\ c.chain \in [Runs -> Seq(Turns)]
        /\ \A x \in Runs : c.chain[x] \in Seq(Turns) /\ Len(c.chain[x]) \in Nat
    BY Fields DEF Typed
  <1>2. c.turn[t] \in Turn
    BY <1>1
  <1>3. /\ new \in Turn /\ new.ending = TRUE /\ new.run = r
        /\ new.baseline = c.turn[t].baseline /\ new.after = c.turn[t].after
        /\ new.outcome = c.turn[t].outcome /\ r \in Runs
    BY <1>2 DEF Turn
  <1>4. t \in Turns
    BY <1>1, Bounds DEF Typed, Turns, TrackedRun
  <1>5. /\ e.turn = [c.turn EXCEPT ![t] = new]
        /\ e.chain = [c.chain EXCEPT ![r] = Append(c.chain[r], t)]
        /\ e.run = c.run /\ e.gitq = c.gitq
        /\ e \in [run: {e.run}, turn: {e.turn}, chain: {e.chain}, gitq: {e.gitq}]
    BY <1>1 DEF CoordinatorType, Ended
  <1> HIDE DEF new, e, r, L
  <1>6. /\ e.turn \in Seq(Turn) /\ Len(e.turn) = Len(c.turn) /\ e.turn[t] = new
        /\ \A s \in 1..Len(c.turn) : s # t => e.turn[s] = c.turn[s]
    BY <1>1, <1>3, <1>5, ExceptSeq
  <1>7. /\ Append(c.chain[r], t) \in Seq(Turns)
        /\ Len(Append(c.chain[r], t)) = L + 1 /\ Append(c.chain[r], t)[L + 1] = t
        /\ \A p \in 1..L : Append(c.chain[r], t)[p] = c.chain[r][p]
    BY <1>1, <1>3, <1>4, AppendProperties DEF L
  <1>8. /\ e.chain \in [Runs -> Seq(Turns)] /\ e.chain[r] = Append(c.chain[r], t)
        /\ \A x \in Runs \ {r} : e.chain[x] = c.chain[x]
    BY <1>1, <1>3, <1>5, <1>7
  <1>9. Typed(e)
    BY <1>1, <1>5, <1>6, <1>8 DEF Typed, CoordinatorType
  <1>10. \A s \in 1..Len(c.turn) :
           /\ e.turn[s].run = c.turn[s].run /\ e.turn[s].baseline = c.turn[s].baseline
           /\ e.turn[s].after = c.turn[s].after
           /\ e.turn[s].outcome = c.turn[s].outcome
           /\ (IF s = t THEN e.turn[s].ending ELSE e.turn[s].ending = c.turn[s].ending)
    <2> SUFFICES ASSUME NEW s \in 1..Len(c.turn)
                 PROVE  /\ e.turn[s].run = c.turn[s].run
                        /\ e.turn[s].baseline = c.turn[s].baseline
                        /\ e.turn[s].after = c.turn[s].after
                        /\ e.turn[s].outcome = c.turn[s].outcome
                        /\ (IF s = t THEN e.turn[s].ending ELSE e.turn[s].ending = c.turn[s].ending)
      OBVIOUS
    <2>2. CASE s = t
      BY <1>3, <1>6, <2>2 DEF r
    <2>3. CASE s # t
      BY <1>6, <2>3
    <2> QED BY <2>2, <2>3
  <1>11. /\ Len(e.chain[r]) = L + 1 /\ e.chain[r][L + 1] = t
         /\ \A p \in 1..L : e.chain[r][p] = c.chain[r][p]
    BY <1>7, <1>8
  <1>12. r \in Runs /\ L \in Nat
    BY <1>1, <1>3 DEF L
  <1> QED BY <1>1, <1>5, <1>6, <1>8, <1>9, <1>10, <1>11, <1>12 DEF e, r, L

(* Its snapshot is behind those of the turns before.                       *)
LEMMA EndedGood ==
  ASSUME NEW c, NEW commits, Good(c, commits), NEW t \in 1..Len(c.turn), ~c.turn[t].ending
  PROVE  Good(Ended(c, t), commits)
  <1> DEFINE n == Len(c.turn)
             r == c.turn[t].run
             L == Len(c.chain[c.turn[t].run])
             e == Ended(c, t)
  <1>f. /\ Typed(e) /\ Len(e.turn) = n /\ n \in Nat
        /\ \A s \in 1..n :
             /\ e.turn[s].run = c.turn[s].run /\ e.turn[s].baseline = c.turn[s].baseline
             /\ e.turn[s].after = c.turn[s].after
             /\ e.turn[s].outcome = c.turn[s].outcome
             /\ (IF s = t THEN e.turn[s].ending ELSE e.turn[s].ending = c.turn[s].ending)
        /\ r \in Runs /\ L \in Nat
        /\ \A x \in Runs : Len(c.chain[x]) \in Nat
        /\ \A x \in Runs \ {r} : e.chain[x] = c.chain[x]
        /\ Len(e.chain[r]) = L + 1 /\ e.chain[r][L + 1] = t
        /\ \A p \in 1..L : e.chain[r][p] = c.chain[r][p]
        /\ e.run = c.run /\ e.gitq = c.gitq
    BY EndedFields DEF Good
  <1>t. /\ t \in 1..n /\ c.turn[t].run = r /\ Len(c.chain[r]) = L /\ ~c.turn[t].ending
        /\ \A s \in 1..n : c.turn[s] \in Turn
    BY Fields DEF Good, Typed
  <1>c. /\ \A x \in Runs : \A p \in 1..Len(c.chain[x]) : Linked(c, x, p)
        /\ \A s \in 1..n : Fate(c, s)
        /\ \A k \in 1..Len(c.gitq) : c.gitq[k].turn \in 1..n
    BY DEF Good, ChainGood, TurnGood, QueueGood, OpGood
  <1> HIDE DEF n, r, L, e
  <1>p. \A x \in Runs : /\ Len(c.chain[x]) <= Len(e.chain[x]) /\ Len(e.chain[x]) \in Nat
                        /\ \A p \in 1..Len(c.chain[x]) : e.chain[x][p] = c.chain[x][p]
                        /\ \A p \in 1..Len(e.chain[x]) :
                             \/ p \in 1..Len(c.chain[x])
                             \/ x = r /\ p = L + 1 /\ e.chain[x][p] = t
    BY <1>f, <1>t
  <1>i. \A x \in Runs : \A p \in 1..Len(c.chain[x]) : c.chain[x][p] # t
    BY <1>c, <1>t DEF Linked
  <1>r. \A s \in 1..n : c.turn[s].run \in Runs /\ c.turn[s].ending \in BOOLEAN
    BY <1>t, TurnFields
  <1>e. /\ e.turn[t].ending = TRUE
        /\ \A s \in 1..n : s # t => e.turn[s].ending = c.turn[s].ending
    BY <1>f, <1>t
  <1>1. \A s \in 1..n : /\ InChain(e, s) <=> (s = t \/ InChain(c, s))
                        /\ (Done(e, s) <=> Done(c, s))
    <2> SUFFICES ASSUME NEW s \in 1..n
                 PROVE  /\ InChain(e, s) <=> (s = t \/ InChain(c, s))
                        /\ (Done(e, s) <=> Done(c, s))
      OBVIOUS
    <2>1. CASE s = t
      <3>1. L + 1 \in 1..Len(e.chain[r])
        BY <1>f
      <3>2. InChain(e, t)
        BY <1>f, <1>t, <3>1 DEF InChain
      <3> QED BY <1>t, <2>1, <3>2 DEF Done, InChain
    <2>2. CASE s # t
      <3>1. InChain(e, s) <=> InChain(c, s)
        <4> DEFINE x == c.turn[s].run
        <4>1. x \in Runs /\ e.turn[s].run = x /\ c.turn[s].run = x
          BY <1>f, <1>r
        <4>2. \A p \in 1..Len(c.chain[x]) : p \in 1..Len(e.chain[x])
          <5>1. /\ Len(c.chain[x]) \in Nat /\ Len(e.chain[x]) \in Nat
                /\ Len(c.chain[x]) <= Len(e.chain[x])
            BY <1>f, <1>p, <4>1
          <5> HIDE DEF x
          <5> QED BY <5>1
        <4> HIDE DEF x
        <4>3. (\E p \in 1..Len(e.chain[x]) : e.chain[x][p] = s) <=>
              (\E p \in 1..Len(c.chain[x]) : c.chain[x][p] = s)
          BY <1>p, <2>2, <4>1, <4>2
        <4> QED BY <4>1, <4>3 DEF InChain
      <3>2. Done(e, s) <=> (c.turn[s].ending /\ ~InChain(e, s))
        BY <1>e, <2>2 DEF Done
      <3>3. Done(c, s) <=> (c.turn[s].ending /\ ~InChain(c, s))
        BY DEF Done
      <3> QED BY <2>2, <3>1, <3>2, <3>3
    <2> QED BY <2>1, <2>2
  <1>2. Tracked(e)
    <2>1. \A s \in 1..n : /\ e.turn[s].run = c.turn[s].run
                          /\ e.turn[s].outcome = c.turn[s].outcome
      BY <1>f
    <2>2. /\ c.run.active \in {0, n}
          /\ \A s \in 1..n : c.turn[s].run <= c.run.id
          /\ c.run.active # 0 => /\ c.turn[c.run.active].run = c.run.id
                                 /\ c.turn[c.run.active].outcome = "open"
      BY DEF Good, Tracked, n
    <2>3. c.run.active # 0 => c.run.active \in 1..n
      BY <1>f, <2>2
    <2>4. ASSUME NEW s \in 1..n, e.turn[s].outcome = "open", e.turn[s].run = c.run.id
          PROVE  IF e.turn[s].ending THEN InChain(e, s) ELSE c.run.active = s
      <3>1. IF c.turn[s].ending THEN InChain(c, s) ELSE c.run.active = s
        BY <2>1, <2>4 DEF Good, Tracked, n
      <3> QED BY <1>e, <1>1, <3>1
    <2>5. e.run.id = c.run.id /\ e.run.active = c.run.active /\ Len(e.turn) = n
      BY <1>f
    <2> QED BY <2>1, <2>2, <2>3, <2>4, <2>5 DEF Tracked
  <1>3. ChainGood(e)
    <2> SUFFICES ASSUME NEW x \in Runs, NEW p \in 1..Len(e.chain[x])
                 PROVE  Linked(e, x, p)
      BY DEF ChainGood
    <2>1. CASE p \in 1..Len(c.chain[x])
      <3>1. Linked(c, x, p)
        BY <1>c, <2>1
      <3>2. e.chain[x][p] = c.chain[x][p] /\ c.chain[x][p] \in 1..n
        BY <1>p, <2>1, <3>1 DEF Linked, n
      <3>3. ASSUME NEW q \in 1..Len(e.chain[x]), e.chain[x][p] = e.chain[x][q]
            PROVE  p = q
        <4>1. q \in 1..Len(c.chain[x])
          BY <1>i, <1>p, <2>1, <3>2, <3>3
        <4> QED BY <1>p, <3>1, <3>2, <3>3, <4>1 DEF Linked
      <3>4. /\ c.turn[c.chain[x][p]].run = x /\ c.turn[c.chain[x][p]].ending
            /\ c.chain[x][p] # t
        BY <1>i, <2>1, <3>1 DEF Linked
      <3>5. e.turn[c.chain[x][p]].run = x /\ e.turn[c.chain[x][p]].ending
        BY <1>e, <1>f, <3>2, <3>4
      <3> QED BY <1>f, <3>2, <3>3, <3>5 DEF Linked
    <2>2. CASE x = r /\ p = L + 1 /\ e.chain[x][p] = t
      <3>1. ASSUME NEW q \in 1..Len(e.chain[x]), e.chain[x][p] = e.chain[x][q]
            PROVE  p = q
        BY <1>i, <1>p, <2>2, <3>1
      <3> QED BY <1>f, <1>t, <2>2, <3>1 DEF Linked
    <2> QED BY <1>p, <2>1, <2>2
  <1>4. TurnGood(e)
    <2> SUFFICES ASSUME NEW s \in 1..n PROVE Fate(e, s)
      BY <1>f DEF TurnGood
    <2>1. Fate(c, s) /\ c.turn[s].after \in Nat
      BY <1>c, <1>t, TurnFields, Bounds
    <2>2. c.turn[s].after # 0 => c.turn[s].after \in 1..n
      BY <1>f, <2>1 DEF Fate
    <2>3. /\ e.turn[s].after = c.turn[s].after /\ e.turn[s].outcome = c.turn[s].outcome
          /\ e.turn[s].baseline = c.turn[s].baseline /\ e.turn[s].run = c.turn[s].run
          /\ c.turn[s].after # 0 => e.turn[c.turn[s].after].run = c.turn[c.turn[s].after].run
          /\ (Done(e, s) <=> Done(c, s))
      BY <1>f, <1>1, <2>2
    <2> QED BY <2>1, <2>3 DEF Fate
  <1>5. Waits(e)
    <2> SUFFICES ASSUME NEW s \in 1..n, NEW u \in 1..n, u < s, Outstanding(e, s, u)
                 PROVE  Behind(e, s, u)
      BY <1>f DEF Waits
    <2>1. Outstanding(c, s, u)
      BY <1>f, <1>1 DEF Outstanding
    <2>2. Behind(c, s, u)
      BY <2>1 DEF Good, Waits, n
    <2> DEFINE x == c.turn[s].run
    <2>3. PICK q \in 1..Len(c.chain[x]) : \E p \in 1..q :
            c.chain[x][q] = c.turn[s].after /\ c.chain[x][p] = u
      BY <2>2 DEF Behind
    <2>p. PICK p \in 1..q :
            c.chain[x][q] = c.turn[s].after /\ c.chain[x][p] = u
      BY <2>3
    <2>4. x \in Runs /\ e.turn[s].run = x /\ e.turn[s].after = c.turn[s].after
      BY <1>f, <1>r
    <2> HIDE DEF x
    <2>6. /\ Len(c.chain[x]) \in Nat /\ Len(e.chain[x]) \in Nat
          /\ Len(c.chain[x]) <= Len(e.chain[x])
      BY <1>f, <1>p, <2>4
    <2>5. q \in 1..Len(e.chain[x]) /\ p \in 1..Len(c.chain[x])
      BY <2>6
    <2> QED BY <1>p, <2>p, <2>4, <2>5 DEF Behind
  <1>10. Patient(e)
    <2> SUFFICES ASSUME NEW s \in 1..n, ~Ready(e, s)
                 PROVE  e.turn[s].baseline = 0 /\ Unasked(e, s)
      BY <1>f DEF Patient
    <2>1. Fate(c, s) /\ c.turn[s].after \in Nat
      BY <1>c, <1>t, TurnFields, Bounds
    <2>2. c.turn[s].after # 0 => c.turn[s].after \in 1..n
      BY <1>f, <2>1 DEF Fate
    <2>3. e.turn[s].after = c.turn[s].after /\ e.turn[s].baseline = c.turn[s].baseline
      BY <1>f
    <2>4. ~Ready(c, s)
      BY <1>1, <2>2, <2>3 DEF Ready
    <2> QED BY <1>f, <2>3, <2>4 DEF Good, Patient, Unasked, n
  <1>6. QueueGood(e)
    <2>1. ASSUME NEW k \in 1..Len(c.gitq) PROVE OpGood(e, c.gitq[k])
      <3> DEFINE o == c.gitq[k]
                 x == c.turn[o.turn].run
      <3>1. OpGood(c, o) /\ o.turn \in 1..n /\ x \in Runs /\ e.turn[o.turn].run = x
        BY <1>c, <1>f, <1>r DEF Good, QueueGood
      <3> HIDE DEF o, x
      <3>2. ASSUME FirstOfChain(c, o.turn) PROVE FirstOfChain(e, o.turn)
        <4>1. c.chain[x] # <<>> /\ c.chain[x][1] = o.turn /\ c.chain[x] \in Seq(Turns)
          BY <3>1, <3>2, Fields DEF FirstOfChain, Good, Typed, x
        <4>2. 1 \in 1..Len(c.chain[x])
          BY <4>1, EmptySeq, LenProperties
        <4>3. e.chain[x][1] = o.turn /\ Len(e.chain[x]) > 0
          BY <1>p, <3>1, <4>1, <4>2
        <4>4. e.chain[x] # <<>>
          BY <4>3
        <4> QED BY <3>1, <4>3, <4>4 DEF FirstOfChain
      <3>3. OpGood(e, o)
        BY <1>f, <3>1, <3>2 DEF OpGood
      <3> QED BY <3>3 DEF o
    <2>2. ASSUME NEW k \in 1..Len(c.gitq), NEW j \in 1..Len(c.gitq), j < k
          PROVE  PairGood(e, c.gitq[j], c.gitq[k])
      <3>1. PairGood(c, c.gitq[j], c.gitq[k])
        BY <2>2 DEF Good, QueueGood
      <3> QED BY <1>c, <1>f, <3>1 DEF PairGood
    <2> QED BY <1>f, <2>1, <2>2 DEF Good, QueueGood
  <1>7. CommitsGood(e, commits)
    <2>1. \A i \in 1..Len(commits) : commits[i] # 0 => commits[i] \in 1..n
      BY DEF Good, CommitsGood, n
    <2>2. ASSUME NEW s \in 1..n, NEW i \in 1..Len(commits), Later(e, s, i, commits[i])
          PROVE  Done(e, s)
      <3>1. commits[i] \in 1..n
        BY <2>1, <2>2 DEF Later
      <3>2. Later(c, s, i, commits[i])
        BY <1>f, <2>2, <3>1 DEF Later
      <3> QED BY <1>1, <3>2 DEF Good, CommitsGood, n
    <2> QED BY <1>f, <1>1, <2>2 DEF Good, CommitsGood, n
  <1>8. HeadGood(e, commits)
    <2>1. \A k \in 1..Len(c.gitq) :
            e.turn[c.gitq[k].turn].baseline = c.turn[c.gitq[k].turn].baseline
      BY <1>c, <1>f
    <2>h. HeadGood(c, commits)
      BY DEF Good
    <2> QED BY <1>f, <2>1, <2>h DEF HeadGood, HasRead
  <1>9. Good(e, commits)
    BY <1>f, <1>2, <1>3, <1>4, <1>5, <1>6, <1>7, <1>8, <1>10 DEF Good
  <1> QED BY <1>9 DEF e

(* finishTurn, which takes the snapshot when the chain was empty.          *)
LEMMA FinishTurnGood ==
  ASSUME NEW c, NEW commits, Good(c, commits), NEW t \in 1..Len(c.turn)
  PROVE  Good(FinishTurn(c, t), commits)
  <1> DEFINE r == c.turn[t].run
             e == Ended(c, t)
             o == NewOperation("status", t, 0)
  <1>1. CASE c.turn[t].ending
    BY <1>1 DEF FinishTurn
  <1>2. CASE ~c.turn[t].ending /\ c.chain[r] # <<>>
    BY <1>2, EndedGood DEF FinishTurn, Ended
  <1>3. CASE ~c.turn[t].ending /\ c.chain[r] = <<>>
    <2>1. FinishTurn(c, t) = [e EXCEPT !.gitq = Append(e.gitq, o)]
      BY <1>3 DEF FinishTurn, Ended, Queued
    <2>2. Good(e, commits)
      BY <1>3, EndedGood
    <2>3. /\ Len(e.turn) = Len(c.turn) /\ e.gitq = c.gitq
          /\ \A s \in 1..Len(c.turn) : e.turn[s].run = c.turn[s].run
          /\ Len(e.chain[r]) = 1 /\ e.chain[r][1] = t
      <3>1. Len(c.chain[r]) = 0
        BY <1>3
      <3>2. Typed(c)
        BY DEF Good
      <3> HIDE DEF e, r
      <3>3. /\ Len(e.turn) = Len(c.turn) /\ e.gitq = c.gitq
            /\ Len(e.chain[r]) = Len(c.chain[r]) + 1
            /\ e.chain[r][Len(c.chain[r]) + 1] = t
        BY <3>2, EndedFields DEF e, r
      <3>4. \A s \in 1..Len(c.turn) : e.turn[s].run = c.turn[s].run
        BY <3>2, EndedFields DEF e
      <3> QED BY <3>1, <3>3, <3>4
    <2>4. ASSUME NEW k \in 1..Len(e.gitq), IsSnapshot(e.gitq[k])
          PROVE  e.turn[e.gitq[k].turn].run # e.turn[t].run
      <3>1. c.gitq[k].turn \in 1..Len(c.turn) /\ FirstOfChain(c, c.gitq[k].turn)
        BY <2>3, <2>4 DEF Good, QueueGood, OpGood
      <3> HIDE DEF e
      <3> QED BY <1>3, <2>3, <3>1 DEF FirstOfChain
    <2>5. MaySnapshot(e, t)
      <3> HIDE DEF e
      <3>1. e.chain[r] # <<>>
        BY <2>3
      <3> QED BY <2>3, <2>4, <3>1 DEF MaySnapshot, FirstOfChain
    <2>6. o \in Operation /\ o.op = "status" /\ o.begun = FALSE /\ o.turn = t
      <3>1. t \in Turns
        BY Fields, Bounds DEF Good, Typed, Turns
      <3> QED BY <3>1 DEF NewOperation, Operation
    <2> HIDE DEF e, o
    <2> QED BY <2>1, <2>2, <2>5, <2>6, SnapshotQueued DEF IsSnapshot
  <1> QED BY <1>1, <1>2, <1>3

-----------------------------------------------------------------------------
(* The snapshot of a turn is done.                                         *)
Snapped(c, t, outcome) ==
  [c EXCEPT !.turn[t].outcome = outcome, !.chain[c.turn[t].run] = Tail(@),
            !.run.active = IF @ = t THEN 0 ELSE @]

Final == {"unready", "refused", "created", "clean"}

(* What a snapshot that is done changes.                                   *)
LEMMA SnappedFields ==
  ASSUME NEW c, Typed(c), NEW t \in 1..Len(c.turn), FirstOfChain(c, t), NEW outcome \in Final
  PROVE  LET r == c.turn[t].run
             L == Len(c.chain[c.turn[t].run])
             e == Snapped(c, t, outcome)
         IN /\ Typed(e) /\ Len(e.turn) = Len(c.turn) /\ Len(c.turn) \in Nat
            /\ \A s \in 1..Len(c.turn) :
                 /\ e.turn[s].run = c.turn[s].run /\ e.turn[s].baseline = c.turn[s].baseline
                 /\ e.turn[s].after = c.turn[s].after
                 /\ e.turn[s].ending = c.turn[s].ending
                 /\ s # t => e.turn[s].outcome = c.turn[s].outcome
            /\ e.turn[t].outcome = outcome
            /\ r \in Runs /\ L \in Nat \ {0}
            /\ \A x \in Runs : Len(c.chain[x]) \in Nat
            /\ \A x \in Runs \ {r} : e.chain[x] = c.chain[x]
            /\ Len(e.chain[r]) = L - 1
            /\ \A p \in 1..(L - 1) : e.chain[r][p] = c.chain[r][p + 1]
            /\ e.run.id = c.run.id /\ e.gitq = c.gitq
            /\ e.run.active = IF c.run.active = t THEN 0 ELSE c.run.active
  <1> DEFINE r == c.turn[t].run
             L == Len(c.chain[r])
             new == [c.turn[t] EXCEPT !.outcome = outcome]
             active == IF c.run.active = t THEN 0 ELSE c.run.active
             e == Snapped(c, t, outcome)
  <1>1. /\ c \in CoordinatorType /\ Len(c.turn) \in Nat /\ c.turn \in Seq(Turn)
        /\ c.turn \in [1..Len(c.turn) -> Turn] /\ c.run \in TrackedRun
        /\ c.run.active \in 0..MaxTurns
        /\ c.chain \in [Runs -> Seq(Turns)]
        /\ \A x \in Runs : c.chain[x] \in Seq(Turns) /\ Len(c.chain[x]) \in Nat
    BY Fields DEF Typed
  <1>2. c.turn[t] \in Turn
    BY <1>1
  <1>3. /\ new \in Turn /\ new.ending = c.turn[t].ending /\ new.run = r
        /\ new.baseline = c.turn[t].baseline /\ new.after = c.turn[t].after
        /\ new.outcome = outcome /\ r \in Runs
    BY <1>2 DEF Turn, Final
  <1>4. active \in 0..MaxTurns
    BY <1>1, Bounds
  <1>5. /\ e.turn = [c.turn EXCEPT ![t] = new]
        /\ e.chain = [c.chain EXCEPT ![r] = Tail(c.chain[r])]
        /\ e.run = [c.run EXCEPT !.active = active] /\ e.gitq = c.gitq
        /\ e \in [run: {e.run}, turn: {e.turn}, chain: {e.chain}, gitq: {e.gitq}]
    BY <1>1 DEF CoordinatorType, Snapped
  <1>e. c.chain[r] # <<>>
    BY DEF FirstOfChain
  <1> HIDE DEF new, e, r, L, active
  <1>6. /\ e.turn \in Seq(Turn) /\ Len(e.turn) = Len(c.turn) /\ e.turn[t] = new
        /\ \A s \in 1..Len(c.turn) : s # t => e.turn[s] = c.turn[s]
    BY <1>1, <1>3, <1>5, ExceptSeq
  <1>7. /\ Tail(c.chain[r]) \in Seq(Turns) /\ L # 0
        /\ Len(Tail(c.chain[r])) = L - 1
        /\ \A p \in 1..(L - 1) : Tail(c.chain[r])[p] = c.chain[r][p + 1]
    <2>1. c.chain[r] \in Seq(Turns)
      BY <1>1, <1>3
    <2> QED BY <1>e, <2>1, HeadTailProperties, EmptySeq DEF L
  <1>8. /\ e.chain \in [Runs -> Seq(Turns)] /\ e.chain[r] = Tail(c.chain[r])
        /\ \A x \in Runs \ {r} : e.chain[x] = c.chain[x]
    BY <1>1, <1>3, <1>5, <1>7
  <1>9. /\ e.run \in TrackedRun /\ e.run.id = c.run.id /\ e.run.active = active
        /\ e.run.pending = c.run.pending
    BY <1>1, <1>4, <1>5 DEF TrackedRun
  <1>10. Typed(e)
    BY <1>1, <1>5, <1>6, <1>8, <1>9 DEF Typed, CoordinatorType
  <1>11. \A s \in 1..Len(c.turn) :
           /\ e.turn[s].run = c.turn[s].run /\ e.turn[s].baseline = c.turn[s].baseline
           /\ e.turn[s].after = c.turn[s].after
           /\ e.turn[s].ending = c.turn[s].ending
           /\ s # t => e.turn[s].outcome = c.turn[s].outcome
    BY <1>3, <1>6 DEF r
  <1>12. r \in Runs /\ L \in Nat \ {0} /\ e.turn[t].outcome = outcome
    BY <1>1, <1>3, <1>6, <1>7 DEF L
  <1>13. /\ Len(e.chain[r]) = L - 1
         /\ \A p \in 1..(L - 1) : e.chain[r][p] = c.chain[r][p + 1]
    BY <1>7, <1>8
  <1> QED BY <1>1, <1>5, <1>6, <1>8, <1>9, <1>10, <1>11, <1>12, <1>13 DEF e, r, L, active

(* While a snapshot is outstanding, HEAD is not read for a later turn.     *)
LEMMA OutstandingWaits ==
  ASSUME NEW c, NEW commits, Good(c, commits), NEW t \in 1..Len(c.turn),
         NEW u \in 1..Len(c.turn), u < t, Outstanding(c, t, u)
  PROVE  ~Ready(c, t) /\ c.turn[t].baseline = 0
  <1> DEFINE x == c.turn[t].run
             a == c.turn[t].after
  <1>1. PICK q \in 1..Len(c.chain[x]) : c.chain[x][q] = a
    BY DEF Good, Waits, Behind
  <1>2. x \in Runs /\ c.turn[t].run = x /\ c.turn[t].after = a
    BY Fields, TurnFields DEF Good, Typed
  <1> HIDE DEF x, a
  <1>3. a \in 1..Len(c.turn) /\ c.turn[a].run = x
    BY <1>1, <1>2 DEF Good, ChainGood, Linked
  <1>4. ~Done(c, a) /\ a # 0
    BY <1>1, <1>3, Fields DEF Done, InChain, Good, Typed
  <1> QED BY <1>2, <1>4 DEF Ready, Good, Patient

(* No snapshot of run r is under way.                                      *)
NoneUnderWay(c, r) ==
  \A k \in 1..Len(c.gitq) : IsSnapshot(c.gitq[k]) => c.turn[c.gitq[k].turn].run # r

(* The turns that waited for it may ask for HEAD.                          *)
LEMMA SnappedGood ==
  ASSUME NEW c, NEW commits, Good(c, commits), NEW t \in 1..Len(c.turn),
         FirstOfChain(c, t), NEW outcome \in Final, NoneUnderWay(c, c.turn[t].run)
  PROVE  LET e == Snapped(c, t, outcome)
         IN /\ Good(e, commits) /\ Done(e, t)
            /\ \A s \in 1..Len(c.turn) :
                 c.turn[s].run = c.turn[t].run /\ c.turn[s].baseline # 0
                 /\ c.turn[t].baseline # 0 => Done(e, s)
            /\ \A s \in 1..Len(c.turn) : c.turn[s].after = t => MayAsk(e, s)
  <1> DEFINE n == Len(c.turn)
             r == c.turn[t].run
             L == Len(c.chain[c.turn[t].run])
             e == Snapped(c, t, outcome)
             active == IF c.run.active = t THEN 0 ELSE c.run.active
  <1>f. /\ Typed(e) /\ Len(e.turn) = n /\ n \in Nat
        /\ \A s \in 1..n :
             /\ e.turn[s].run = c.turn[s].run /\ e.turn[s].baseline = c.turn[s].baseline
             /\ e.turn[s].after = c.turn[s].after
             /\ e.turn[s].ending = c.turn[s].ending
             /\ s # t => e.turn[s].outcome = c.turn[s].outcome
        /\ e.turn[t].outcome = outcome
        /\ r \in Runs /\ L \in Nat \ {0}
        /\ \A x \in Runs : Len(c.chain[x]) \in Nat
        /\ \A x \in Runs \ {r} : e.chain[x] = c.chain[x]
        /\ Len(e.chain[r]) = L - 1
        /\ \A p \in 1..(L - 1) : e.chain[r][p] = c.chain[r][p + 1]
        /\ e.run.id = c.run.id /\ e.gitq = c.gitq
        /\ e.run.active = active
    <2>1. Typed(c)
      BY DEF Good
    <2> QED BY <2>1, SnappedFields
  <1>t. /\ t \in 1..n /\ c.turn[t].run = r /\ Len(c.chain[r]) = L /\ c.chain[r][1] = t
        /\ \A s \in 1..n : c.turn[s] \in Turn
        /\ NoneUnderWay(c, r)
    BY Fields DEF Good, Typed, FirstOfChain
  <1>c. /\ \A x \in Runs : \A p \in 1..Len(c.chain[x]) : Linked(c, x, p)
        /\ \A s \in 1..n : Fate(c, s)
        /\ \A k \in 1..Len(c.gitq) : c.gitq[k].turn \in 1..n
    BY DEF Good, ChainGood, TurnGood, QueueGood, OpGood
  <1>d. active = IF c.run.active = t THEN 0 ELSE c.run.active
    OBVIOUS
  <1> HIDE DEF n, r, L, e, active
  <1>r. \A s \in 1..n : c.turn[s].run \in Runs
    BY <1>t, TurnFields
  <1>h. \A p \in 1..L : c.chain[r][p] = t <=> p = 1
    <2>1. 1 \in 1..L /\ Linked(c, r, 1)
      BY <1>c, <1>f, <1>t
    <2> QED BY <1>t, <2>1 DEF Linked
  <1>p. \A x \in Runs : \A p \in 1..Len(e.chain[x]) :
          \E q \in 1..Len(c.chain[x]) :
            /\ e.chain[x][p] = c.chain[x][q] /\ e.chain[x][p] # t
            /\ q = IF x = r THEN p + 1 ELSE p
    <2> SUFFICES ASSUME NEW x \in Runs, NEW p \in 1..Len(e.chain[x])
                 PROVE  \E q \in 1..Len(c.chain[x]) :
                          /\ e.chain[x][p] = c.chain[x][q] /\ e.chain[x][p] # t
                          /\ q = IF x = r THEN p + 1 ELSE p
      OBVIOUS
    <2>1. CASE x = r
      <3>1. p + 1 \in 1..L /\ p + 1 # 1 /\ e.chain[x][p] = c.chain[x][p + 1]
        BY <1>f, <2>1
      <3> QED BY <1>h, <1>t, <2>1, <3>1
    <2>2. CASE x # r
      <3>1. e.chain[x] = c.chain[x] /\ Linked(c, x, p)
        BY <1>c, <1>f, <2>2
      <3> QED BY <1>t, <2>2, <3>1 DEF Linked
    <2> QED BY <2>1, <2>2
  <1>q. \A x \in Runs : \A q \in 1..Len(c.chain[x]) : c.chain[x][q] # t =>
          \E p \in 1..Len(e.chain[x]) :
            e.chain[x][p] = c.chain[x][q] /\ p = IF x = r THEN q - 1 ELSE q
    <2> SUFFICES ASSUME NEW x \in Runs, NEW q \in 1..Len(c.chain[x]), c.chain[x][q] # t
                 PROVE  \E p \in 1..Len(e.chain[x]) :
                          e.chain[x][p] = c.chain[x][q] /\ p = IF x = r THEN q - 1 ELSE q
      OBVIOUS
    <2>1. CASE x = r
      <3>1. q \in 1..L /\ q # 1
        BY <1>h, <1>t, <2>1
      <3>2. q - 1 \in 1..(L - 1) /\ (q - 1) + 1 = q
        BY <1>f, <3>1
      <3> QED BY <1>f, <2>1, <3>2
    <2>2. CASE x # r
      BY <1>f, <2>2
    <2> QED BY <2>1, <2>2
  <1>1. /\ \A s \in 1..n : s # t => /\ InChain(e, s) <=> InChain(c, s)
                                    /\ Done(e, s) <=> Done(c, s)
        /\ Done(e, t) /\ ~Done(c, t)
    <2>1. ASSUME NEW s \in 1..n, s # t
          PROVE  /\ InChain(e, s) <=> InChain(c, s)
                 /\ Done(e, s) <=> Done(c, s)
      <3> DEFINE x == c.turn[s].run
      <3>1. x \in Runs /\ e.turn[s].run = x /\ c.turn[s].run = x
            /\ e.turn[s].ending = c.turn[s].ending
        BY <1>f, <1>r
      <3> HIDE DEF x
      <3>2. (\E p \in 1..Len(e.chain[x]) : e.chain[x][p] = s) <=>
            (\E p \in 1..Len(c.chain[x]) : c.chain[x][p] = s)
        <4>1. ASSUME NEW p \in 1..Len(e.chain[x]), e.chain[x][p] = s
              PROVE  \E q \in 1..Len(c.chain[x]) : c.chain[x][q] = s
          BY <1>p, <3>1, <4>1
        <4>2. ASSUME NEW q \in 1..Len(c.chain[x]), c.chain[x][q] = s
              PROVE  \E p \in 1..Len(e.chain[x]) : e.chain[x][p] = s
          BY <1>q, <2>1, <3>1, <4>2
        <4> QED BY <4>1, <4>2
      <3> QED BY <3>1, <3>2 DEF InChain, Done
    <2>2. ~InChain(e, t)
      <3>1. e.turn[t].run = r /\ r \in Runs
        BY <1>f, <1>t
      <3>2. \A p \in 1..Len(e.chain[r]) : e.chain[r][p] # t
        BY <1>p, <3>1
      <3> QED BY <3>1, <3>2 DEF InChain
    <2>3. 1 \in 1..L /\ Linked(c, r, 1)
      BY <1>c, <1>f, <1>t
    <2>4. c.turn[t].ending /\ InChain(c, t)
      BY <1>t, <2>3 DEF Linked, InChain
    <2> QED BY <1>f, <1>t, <2>1, <2>2, <2>4 DEF Done
  <1>2. Tracked(e)
    <2>2. /\ c.run.active \in {0, n}
          /\ \A s \in 1..n : c.turn[s].run <= c.run.id
          /\ c.run.active # 0 => /\ c.turn[c.run.active].run = c.run.id
                                 /\ c.turn[c.run.active].outcome = "open"
      BY DEF Good, Tracked, n
    <2>3. active # 0 => active \in 1..n /\ active # t /\ active = c.run.active
      BY <1>d, <1>f, <2>2
    <2>4. ASSUME NEW s \in 1..n, e.turn[s].outcome = "open", e.turn[s].run = c.run.id
          PROVE  IF e.turn[s].ending THEN InChain(e, s) ELSE active = s
      <3>1. s # t
        BY <1>f, <2>4 DEF Final
      <3>2. c.turn[s].outcome = "open" /\ c.turn[s].run = c.run.id
            /\ e.turn[s].ending = c.turn[s].ending
        BY <1>f, <2>4, <3>1
      <3>3. IF c.turn[s].ending THEN InChain(c, s) ELSE c.run.active = s
        BY <3>2 DEF Good, Tracked, n
      <3> QED BY <1>1, <1>d, <3>1, <3>2, <3>3
    <2>5. /\ e.run.id = c.run.id /\ e.run.active = active /\ Len(e.turn) = n
          /\ active \in {0, n}
      BY <1>d, <1>f, <2>2
    <2>6. \A s \in 1..n : /\ e.turn[s].run = c.turn[s].run
                          /\ s # t => e.turn[s].outcome = c.turn[s].outcome
      BY <1>f
    <2> QED BY <2>2, <2>3, <2>4, <2>5, <2>6 DEF Tracked
  <1>3. ChainGood(e)
    <2> SUFFICES ASSUME NEW x \in Runs, NEW p \in 1..Len(e.chain[x])
                 PROVE  Linked(e, x, p)
      BY DEF ChainGood
    <2>1. PICK q \in 1..Len(c.chain[x]) :
            e.chain[x][p] = c.chain[x][q] /\ q = IF x = r THEN p + 1 ELSE p
      BY <1>p
    <2>2. Linked(c, x, q)
      BY <1>c
    <2>3. ASSUME NEW p2 \in 1..Len(e.chain[x]), e.chain[x][p] = e.chain[x][p2]
          PROVE  p = p2
      <3>1. PICK q2 \in 1..Len(c.chain[x]) :
              e.chain[x][p2] = c.chain[x][q2] /\ q2 = IF x = r THEN p2 + 1 ELSE p2
        BY <1>p
      <3>2. q = q2
        BY <2>1, <2>2, <2>3, <3>1 DEF Linked
      <3> QED BY <2>1, <3>1, <3>2
    <2>4. /\ c.chain[x][q] \in 1..n
          /\ c.turn[c.chain[x][q]].run = x /\ c.turn[c.chain[x][q]].ending
      BY <2>2 DEF Linked, n
    <2>5. e.turn[c.chain[x][q]].run = x /\ e.turn[c.chain[x][q]].ending
      BY <1>f, <2>4
    <2> QED BY <1>f, <2>1, <2>3, <2>4, <2>5 DEF Linked
  <1>4. TurnGood(e)
    <2> SUFFICES ASSUME NEW s \in 1..n PROVE Fate(e, s)
      BY <1>f DEF TurnGood
    <2>1. Fate(c, s) /\ c.turn[s].after \in Nat
      BY <1>c, <1>t, TurnFields, Bounds
    <2>2. c.turn[s].after # 0 => c.turn[s].after \in 1..n
      BY <1>f, <2>1 DEF Fate
    <2>3. /\ e.turn[s].after = c.turn[s].after
          /\ e.turn[s].baseline = c.turn[s].baseline /\ e.turn[s].run = c.turn[s].run
          /\ c.turn[s].after # 0 => e.turn[c.turn[s].after].run = c.turn[c.turn[s].after].run
      BY <1>f, <2>2
    <2>4. CASE s = t
      BY <1>1, <1>f, <2>1, <2>3, <2>4 DEF Fate, Final
    <2>5. CASE s # t
      <3>1. e.turn[s].outcome = c.turn[s].outcome /\ (Done(e, s) <=> Done(c, s))
        BY <1>1, <1>f, <2>5
      <3> QED BY <2>1, <2>3, <3>1 DEF Fate
    <2> QED BY <2>4, <2>5
  <1> DEFINE Stays(s, u) ==
               \E q \in 1..Len(c.chain[c.turn[s].run]) : \E p \in 1..q :
                 /\ c.chain[c.turn[s].run][q] = c.turn[s].after
                 /\ c.chain[c.turn[s].run][p] = u /\ p \in 1..Len(c.chain[c.turn[s].run])
                 /\ c.turn[s].run = r => q # 1
  <1> HIDE DEF Stays
  <1>o. ASSUME NEW s \in 1..n, NEW u \in 1..n, u < s, Outstanding(e, s, u)
        PROVE  u # t /\ c.turn[s].run \in Runs /\ Stays(s, u)
    <2>1. u # t
      BY <1>1, <1>o DEF Outstanding
    <2>2. Outstanding(c, s, u)
      BY <1>1, <1>f, <1>o, <2>1 DEF Outstanding
    <2>3. Behind(c, s, u)
      BY <1>o, <2>2 DEF Good, Waits, n
    <2> DEFINE x == c.turn[s].run
    <2>4. x \in Runs /\ Len(c.chain[x]) \in Nat
      BY <1>f, <1>r
    <2>5. PICK q \in 1..Len(c.chain[x]) : \E p \in 1..q :
            c.chain[x][q] = c.turn[s].after /\ c.chain[x][p] = u
      BY <2>3 DEF Behind
    <2>6. PICK p \in 1..q : c.chain[x][q] = c.turn[s].after /\ c.chain[x][p] = u
      BY <2>5
    <2> HIDE DEF x
    <2>7. p \in 1..Len(c.chain[x]) /\ (q = 1 => p = 1)
      BY <2>4
    <2>8. x = r => q # 1
      BY <1>t, <2>1, <2>6, <2>7
    <2> QED BY <2>1, <2>4, <2>6, <2>7, <2>8 DEF x, Stays
  <1>5. Waits(e)
    <2> SUFFICES ASSUME NEW s \in 1..n, NEW u \in 1..n, u < s, Outstanding(e, s, u)
                 PROVE  Behind(e, s, u)
      BY <1>f DEF Waits
    <2> DEFINE x == c.turn[s].run
    <2>s. u # t /\ c.turn[s].run \in Runs /\ Stays(s, u)
      BY <1>o
    <2>1. /\ u # t /\ x \in Runs
          /\ e.turn[s].run = x /\ e.turn[s].after = c.turn[s].after
      BY <1>f, <2>s
    <2>2. PICK q \in 1..Len(c.chain[x]) : \E p \in 1..q :
            /\ c.chain[x][q] = c.turn[s].after
            /\ c.chain[x][p] = u /\ p \in 1..Len(c.chain[x])
            /\ x = r => q # 1
      BY <2>s DEF Stays
    <2>3. PICK p \in 1..q :
            /\ c.chain[x][q] = c.turn[s].after
            /\ c.chain[x][p] = u /\ p \in 1..Len(c.chain[x])
            /\ x = r => q # 1
      BY <2>2
    <2> HIDE DEF x
    <2>4. c.chain[x][q] # t
      <3>1. CASE x = r
        BY <1>h, <1>t, <2>3, <3>1
      <3>2. CASE x # r
        <4>1. Linked(c, x, q)
          BY <1>c, <2>1
        <4> QED BY <1>t, <3>2, <4>1 DEF Linked
      <3> QED BY <3>1, <3>2
    <2>5. PICK q2 \in 1..Len(e.chain[x]) :
            e.chain[x][q2] = c.chain[x][q] /\ q2 = IF x = r THEN q - 1 ELSE q
      BY <1>q, <2>1, <2>4
    <2>6. PICK p2 \in 1..Len(e.chain[x]) :
            e.chain[x][p2] = c.chain[x][p] /\ p2 = IF x = r THEN p - 1 ELSE p
      BY <1>q, <2>1, <2>3
    <2>7. p2 \in 1..q2
      BY <1>f, <2>1, <2>5, <2>6
    <2> QED BY <2>1, <2>3, <2>5, <2>6, <2>7 DEF Behind
  <1>6. QueueGood(e)
    <2>1. ASSUME NEW k \in 1..Len(c.gitq) PROVE OpGood(e, c.gitq[k])
      <3>1. OpGood(c, c.gitq[k]) /\ c.gitq[k].turn \in 1..n
        BY <1>c DEF Good, QueueGood
      <3>2. /\ e.turn[c.gitq[k].turn].run = c.turn[c.gitq[k].turn].run
            /\ e.turn[c.gitq[k].turn].baseline = c.turn[c.gitq[k].turn].baseline
            /\ c.turn[c.gitq[k].turn].run \in Runs
        BY <1>f, <1>r, <3>1
      <3>3. ASSUME IsSnapshot(c.gitq[k]) PROVE FirstOfChain(e, c.gitq[k].turn)
        <4>1. c.turn[c.gitq[k].turn].run # r
          BY <1>t, <3>3 DEF NoneUnderWay
        <4>2. e.chain[c.turn[c.gitq[k].turn].run] = c.chain[c.turn[c.gitq[k].turn].run]
          BY <1>f, <3>2, <4>1
        <4> QED BY <3>1, <3>2, <3>3, <4>2 DEF OpGood, FirstOfChain
      <3> QED BY <1>f, <3>1, <3>2, <3>3 DEF OpGood
    <2>2. ASSUME NEW k \in 1..Len(c.gitq), NEW j \in 1..Len(c.gitq), j < k
          PROVE  PairGood(e, c.gitq[j], c.gitq[k])
      <3>1. PairGood(c, c.gitq[j], c.gitq[k])
        BY <2>2 DEF Good, QueueGood
      <3>2. /\ e.turn[c.gitq[k].turn].run = c.turn[c.gitq[k].turn].run
            /\ e.turn[c.gitq[j].turn].run = c.turn[c.gitq[j].turn].run
        BY <1>c, <1>f
      <3> QED BY <3>1, <3>2 DEF PairGood
    <2> QED BY <1>f, <2>1, <2>2 DEF Good, QueueGood
  <1>m. \A s \in 1..n : Done(c, s) => Done(e, s)
    BY <1>1
  <1>14. Patient(e)
    <2> SUFFICES ASSUME NEW s \in 1..n, ~Ready(e, s)
                 PROVE  e.turn[s].baseline = 0 /\ Unasked(e, s)
      BY <1>f DEF Patient
    <2>1. Fate(c, s) /\ c.turn[s].after \in Nat
      BY <1>c, <1>t, TurnFields, Bounds
    <2>2. c.turn[s].after # 0 => c.turn[s].after \in 1..n
      BY <1>f, <2>1 DEF Fate
    <2>3. e.turn[s].after = c.turn[s].after /\ e.turn[s].baseline = c.turn[s].baseline
      BY <1>f
    <2>4. ~Ready(c, s)
      BY <1>m, <2>2, <2>3 DEF Ready
    <2> QED BY <1>f, <2>3, <2>4 DEF Good, Patient, Unasked, n
  <1>7. CommitsGood(e, commits)
    <2>1. \A i \in 1..Len(commits) :
            commits[i] # 0 => commits[i] \in 1..n /\ Done(c, commits[i])
      BY DEF Good, CommitsGood, n
    <2>2. ASSUME NEW s \in 1..n, NEW i \in 1..Len(commits), Later(e, s, i, commits[i])
          PROVE  Done(e, s)
      <3>1. commits[i] \in 1..n
        BY <2>1, <2>2 DEF Later
      <3>2. Later(c, s, i, commits[i])
        BY <1>f, <2>2, <3>1 DEF Later
      <3> QED BY <1>m, <3>2 DEF Good, CommitsGood, n
    <2>3. /\ commits \in Seq(0..MaxTurns)
          /\ \A s \in 1..n : e.turn[s].baseline <= Len(commits) + 1
      BY <1>f DEF Good, CommitsGood, n
    <2> QED BY <1>f, <1>m, <2>1, <2>2, <2>3 DEF CommitsGood
  <1>8. HeadGood(e, commits)
    <2>1. \A k \in 1..Len(c.gitq) :
            e.turn[c.gitq[k].turn].baseline = c.turn[c.gitq[k].turn].baseline
      BY <1>c, <1>f
    <2>h. HeadGood(c, commits)
      BY DEF Good
    <2> QED BY <1>f, <2>1, <2>h DEF HeadGood, HasRead
  <1>9. Good(e, commits)
    BY <1>f, <1>2, <1>3, <1>4, <1>5, <1>6, <1>7, <1>8, <1>14 DEF Good
  <1>10. ASSUME NEW s \in 1..n, c.turn[s].run = r, c.turn[s].baseline # 0,
                c.turn[t].baseline # 0
         PROVE  Done(e, s)
    <2>1. CASE s = t
      BY <1>1, <2>1
    <2>2. CASE s < t
      <3>1. /\ e.turn[s].run = r /\ e.turn[s].baseline # 0
            /\ e.turn[t].run = r /\ e.turn[t].baseline # 0 /\ Len(e.turn) = n
        BY <1>10, <1>f, <1>t
      <3>2. ~Outstanding(e, t, s)
        BY <1>9, <1>t, <2>2, <3>1, OutstandingWaits
      <3> QED BY <3>1, <3>2 DEF Outstanding
    <2>3. CASE s > t
      BY <1>1, <1>10, <1>t, <2>3, OutstandingWaits DEF Outstanding, n
    <2> QED BY <1>f, <2>1, <2>2, <2>3
  <1>11. ASSUME NEW s \in 1..n, c.turn[s].after = t
         PROVE  MayAsk(e, s)
    <2>1. c.turn[s].run = r
      <3>1. Fate(c, s) /\ t # 0
        BY <1>c, <1>f, <1>t
      <3> QED BY <1>11, <1>t, <3>1 DEF Fate
    <2>2. Ready(e, s) /\ e.turn[s].baseline = 0 /\ Unasked(e, s)
      <3>1. ~Ready(c, s) /\ Ready(e, s)
        BY <1>1, <1>11, <1>f, <1>t DEF Ready
      <3> QED BY <1>f, <3>1 DEF Good, Patient, Unasked, n
    <2>3. ASSUME NEW k \in 1..Len(c.gitq), IsSnapshot(c.gitq[k])
          PROVE  c.gitq[k].turn # s
      BY <1>t, <2>1, <2>3 DEF NoneUnderWay
    <2> QED BY <1>f, <2>2, <2>3 DEF MayAsk
  <1> QED BY <1>1, <1>9, <1>10, <1>11 DEF e, n, r

(* A commit of somebody else, or of a turn whose snapshot is done.         *)
LEMMA CommitAdded ==
  ASSUME NEW c, NEW commits, Good(c, commits), NEW x \in 0..MaxTurns,
         x # 0 => /\ x \in 1..Len(c.turn) /\ Done(c, x)
                  /\ \A k \in 1..Len(c.gitq) : ~c.gitq[k].begun
                  /\ \A s \in 1..Len(c.turn) :
                       c.turn[s].run = c.turn[x].run /\ c.turn[s].baseline # 0
                       /\ c.turn[x].baseline # 0 => Done(c, s)
  PROVE  Good(c, Append(commits, x))
  <1> DEFINE m == Len(commits)
             new == Append(commits, x)
  <1>1. commits \in Seq(0..MaxTurns) /\ m \in Nat
    BY LenProperties DEF Good, CommitsGood
  <1>2. /\ new \in Seq(0..MaxTurns) /\ Len(new) = m + 1
        /\ \A i \in 1..Len(new) : \/ i \in 1..m /\ new[i] = commits[i]
                                  \/ i = m + 1 /\ new[i] = x
    BY <1>1, AppendProperties
  <1> HIDE DEF m, new
  <1>3. \A t \in 1..Len(c.turn) : /\ c.turn[t].baseline \in Nat
                                  /\ c.turn[t].baseline <= m + 1
    <2>1. \A t \in 1..Len(c.turn) : c.turn[t] \in Turn
      BY Fields DEF Good, Typed
    <2> QED BY <2>1, TurnFields DEF Good, CommitsGood, m
  <1>4. CommitsGood(c, new)
    <2>1. \A i \in 1..Len(new) : new[i] # 0 => new[i] \in 1..Len(c.turn) /\ Done(c, new[i])
      BY <1>2 DEF Good, CommitsGood, m
    <2>2. ASSUME NEW t \in 1..Len(c.turn), NEW i \in 1..Len(new), Later(c, t, i, new[i])
          PROVE  Done(c, t)
      <3>1. CASE i \in 1..m /\ new[i] = commits[i]
        BY <2>2, <3>1 DEF Good, CommitsGood, m
      <3>2. CASE i = m + 1 /\ new[i] = x
        BY <2>2, <3>2 DEF Later
      <3> QED BY <1>2, <3>1, <3>2
    <2>3. \A t \in 1..Len(c.turn) : c.turn[t].baseline <= Len(new) + 1
      BY <1>1, <1>2, <1>3
    <2> QED BY <1>2, <2>1, <2>2, <2>3 DEF CommitsGood
  <1>5. HeadGood(c, new)
    <2> SUFFICES ASSUME NEW j \in 1..Len(c.gitq), c.gitq[j].begun
                 PROVE  HasRead(c, c.gitq[j], new)
      BY DEF HeadGood
    <2>1. x = 0 /\ HasRead(c, c.gitq[j], commits)
      BY DEF Good, HeadGood
    <2>2. c.gitq[j].head \in 1..(Len(new) + 1)
      BY <1>1, <1>2, <2>1 DEF HasRead, m
    <2>3. \A i \in 1..Len(new) : c.gitq[j].head <= i => new[i] = 0
      BY <1>2, <2>1 DEF HasRead, m
    <2> QED BY <2>1, <2>2, <2>3 DEF HasRead
  <1>6. Good(c, new)
    BY <1>4, <1>5 DEF Good
  <1> QED BY <1>6 DEF new

(* runSnapshot returns, and the next in the chain begins.                  *)
LEMMA SnapshotDoneGood ==
  ASSUME NEW c, NEW commits, Good(c, commits), NEW t \in 1..Len(c.turn),
         FirstOfChain(c, t), NoneUnderWay(c, c.turn[t].run), NEW outcome \in Final,
         NEW now, \/ now = commits
                  \/ now = Append(commits, t) /\ \A k \in 1..Len(c.gitq) : ~c.gitq[k].begun
  PROVE  Good(SnapshotDone(c, t, outcome), now)
  <1> DEFINE r == c.turn[t].run
             n == Len(c.turn)
             done == Snapped(c, t, outcome)
             S == {u \in DOMAIN c.turn : c.turn[u].after = t}
             waiting == SetToSeq(S)
             reads == [i \in DOMAIN waiting |-> NewOperation("baseline", waiting[i], 0)]
             read == [done EXCEPT !.gitq = done.gitq \o reads]
  <1>f. /\ Typed(done) /\ Len(done.turn) = n /\ n \in Nat
        /\ \A s \in 1..n : /\ done.turn[s].run = c.turn[s].run
                           /\ done.turn[s].baseline = c.turn[s].baseline
        /\ done.gitq = c.gitq /\ r \in Runs
    <2>1. Typed(c)
      BY DEF Good
    <2> QED BY <2>1, SnappedFields
  <1>1. /\ Good(done, commits) /\ Done(done, t)
        /\ \A s \in 1..n :
             c.turn[s].run = r /\ c.turn[s].baseline # 0 /\ c.turn[t].baseline # 0
             => Done(done, s)
        /\ \A s \in 1..n : c.turn[s].after = t => MayAsk(done, s)
    BY SnappedGood
  <1>d. SnapshotDone(c, t, outcome) =
          IF done.chain[r] = <<>> THEN read
          ELSE Queued(read, "status", Head(done.chain[r]), 0)
    BY DEF SnapshotDone, Snapped
  <1>t. t \in 1..n /\ n <= MaxTurns /\ c.turn \in Seq(Turn) /\ c.turn[t].run = r
        /\ NoneUnderWay(c, r)
    BY Fields, Bounds DEF Good, Typed, TrackedRun
  <1> HIDE DEF r, done
  <1>2. Good(done, now)
    <2>1. CASE now = commits
      BY <1>1, <2>1
    <2>2. CASE now = Append(commits, t) /\ \A k \in 1..Len(c.gitq) : ~c.gitq[k].begun
      <3>1. t \in 0..MaxTurns
        BY <1>f, <1>t, Bounds
      <3>2. \A s \in 1..Len(done.turn) :
              done.turn[s].run = done.turn[t].run /\ done.turn[s].baseline # 0
              /\ done.turn[t].baseline # 0 => Done(done, s)
        BY <1>1, <1>f, <1>t
      <3> QED BY <1>1, <1>f, <1>t, <2>2, <3>1, <3>2, CommitAdded
    <2> QED BY <2>1, <2>2
  <1>3. /\ waiting \in [1..Cardinality(S) -> S] /\ Cardinality(S) \in Nat
        /\ S \subseteq 1..n /\ IsInjective(waiting)
    <2>1. DOMAIN c.turn = 1..n
      BY <1>t, LenProperties
    <2>2. IsFiniteSet(1..n)
      <3>1. 1 \in Int /\ n \in Int
        BY <1>f
      <3> QED BY <3>1, FS_Interval
    <2>3. IsFiniteSet(S) /\ S \subseteq 1..n
      BY <2>1, <2>2, FS_Subset
    <2> QED BY <2>3, SetAsSequence
  <1>s. \A s \in S : s \in 1..n /\ s \in Turns /\ c.turn[s].after = t
    BY <1>3, <1>f, <1>t, Bounds DEF Turns
  <1> HIDE DEF S, waiting
  <1>4. /\ reads \in Seq(Operation) /\ Len(reads) = Cardinality(S)
        /\ \A i \in 1..Len(reads) :
             /\ reads[i].op = "baseline" /\ reads[i].begun = FALSE
             /\ reads[i].turn \in S
             /\ \A j \in 1..Len(reads) : reads[i].turn = reads[j].turn => i = j
    <2>1. \A i \in 1..Cardinality(S) :
            /\ waiting[i] \in S /\ NewOperation("baseline", waiting[i], 0) \in Operation
            /\ NewOperation("baseline", waiting[i], 0).op = "baseline"
            /\ NewOperation("baseline", waiting[i], 0).begun = FALSE
            /\ NewOperation("baseline", waiting[i], 0).turn = waiting[i]
      BY <1>3, <1>s DEF NewOperation, Operation
    <2>2. DOMAIN waiting = 1..Cardinality(S)
      BY <1>3
    <2>3. reads \in [1..Cardinality(S) -> Operation]
      BY <2>1, <2>2
    <2>4. reads \in Seq(Operation) /\ Len(reads) = Cardinality(S)
      BY <1>3, <2>3, IsASeq, LenProperties
    <2>5. \A i, j \in 1..Cardinality(S) : waiting[i] = waiting[j] => i = j
      BY <1>3, <2>2 DEF IsInjective
    <2>6. \A i \in 1..Cardinality(S) : reads[i] = NewOperation("baseline", waiting[i], 0)
      BY <2>2
    <2> HIDE DEF reads
    <2> QED BY <2>1, <2>4, <2>5, <2>6
  <1> HIDE DEF reads
  <1>5. Good(read, now)
    <2>1. \A i \in 1..Len(reads) : MayAsk(done, reads[i].turn)
      BY <1>1, <1>4, <1>s
    <2> QED BY <1>2, <1>4, <2>1, ReadsQueued
  <1>6. /\ read.turn = done.turn /\ read.chain = done.chain
        /\ read.gitq = done.gitq \o reads
    BY <1>f DEF Typed, CoordinatorType
  <1> HIDE DEF read
  <1>7. CASE done.chain[r] = <<>>
    BY <1>d, <1>5, <1>7
  <1>8. CASE done.chain[r] # <<>>
    <2> DEFINE h == Head(done.chain[r])
               o == NewOperation("status", h, 0)
    <2>1. /\ done.chain[r] \in Seq(Turns) /\ 1 \in 1..Len(done.chain[r])
          /\ h = done.chain[r][1]
      <3>1. done.chain[r] \in Seq(Turns)
        BY <1>f, Fields DEF Typed
      <3> QED BY <1>8, <3>1, EmptySeq, LenProperties, HeadTailProperties
    <2>2. h \in 1..n /\ done.turn[h].run = r
      BY <1>1, <1>f, <2>1 DEF Good, ChainGood, Linked
    <2>3. o \in Operation /\ o.op = "status" /\ o.begun = FALSE /\ o.turn = h
      <3>1. h \in Turns
        BY <1>f, <1>t, <2>2, Bounds DEF Turns
      <3> HIDE DEF h
      <3> QED BY <3>1 DEF NewOperation, Operation
    <2> HIDE DEF h, o
    <2>4. FirstOfChain(read, h)
      BY <1>6, <1>8, <2>1, <2>2 DEF FirstOfChain
    <2>5. ASSUME NEW k \in 1..Len(read.gitq), IsSnapshot(read.gitq[k])
          PROVE  read.turn[read.gitq[k].turn].run # r
      <3>1. c.gitq \in Seq(Operation) /\ Len(c.gitq) \in Nat /\ Len(reads) \in Nat
        BY <1>4, Fields, LenProperties DEF Good, Typed
      <3>2. \/ k \in 1..Len(c.gitq) /\ read.gitq[k] = c.gitq[k]
            \/ k - Len(c.gitq) \in 1..Len(reads) /\ read.gitq[k] = reads[k - Len(c.gitq)]
        BY <1>4, <1>6, <1>f, <3>1, ConcatProperties
      <3>3. k \in 1..Len(c.gitq) /\ read.gitq[k] = c.gitq[k]
        BY <1>4, <2>5, <3>2 DEF IsSnapshot
      <3>4. c.gitq[k].turn \in 1..n
        BY <3>3 DEF Good, QueueGood, OpGood
      <3> QED BY <1>6, <1>f, <1>t, <2>5, <3>3, <3>4 DEF NoneUnderWay
    <2>6. MaySnapshot(read, h)
      BY <1>6, <1>f, <2>2, <2>4, <2>5 DEF MaySnapshot
    <2>7. Good([read EXCEPT !.gitq = Append(read.gitq, o)], now)
      BY <1>5, <2>3, <2>6, SnapshotQueued DEF IsSnapshot
    <2> QED BY <1>d, <1>8, <2>7 DEF Queued, o, h
  <1> QED BY <1>7, <1>8

-----------------------------------------------------------------------------
(* HEAD arrives, or the turn is given up.                                  *)
LEMMA BaselineSetGood ==
  ASSUME NEW c, NEW commits, Good(c, commits), NEW t \in 1..Len(c.turn),
         t = c.run.active, Ready(c, t), NEW h \in 1..(Len(commits) + 1),
         \A i \in 1..Len(commits) : h <= i => commits[i] = 0,
         \A k \in 1..Len(c.gitq) : c.gitq[k].turn = t => c.gitq[k].op = "status"
  PROVE  Good([c EXCEPT !.turn[t].baseline = h], commits)
  <1> DEFINE n == Len(c.turn)
             new == [c.turn[t] EXCEPT !.baseline = h]
             e == [c EXCEPT !.turn[t].baseline = h]
  <1>1. /\ c \in CoordinatorType /\ n \in Nat /\ c.turn \in Seq(Turn)
        /\ c.turn \in [1..n -> Turn] /\ c.turn[t] \in Turn
    BY Fields DEF Good, Typed
  <1>r. commits \in Seq(0..MaxTurns) /\ Len(commits) \in Nat
    BY LenProperties DEF Good, CommitsGood
  <1>h. h \in Nat
    BY <1>r
  <1>2. /\ new \in Turn /\ new.ending = c.turn[t].ending /\ new.run = c.turn[t].run
        /\ new.baseline = h /\ new.after = c.turn[t].after
        /\ new.outcome = c.turn[t].outcome
    BY <1>1, <1>h DEF Turn
  <1>3. /\ e.turn = [c.turn EXCEPT ![t] = new]
        /\ e.chain = c.chain /\ e.run = c.run /\ e.gitq = c.gitq
        /\ e \in [run: {e.run}, turn: {e.turn}, chain: {e.chain}, gitq: {e.gitq}]
    BY <1>1 DEF CoordinatorType
  <1> HIDE DEF new, e
  <1>4. /\ e.turn \in Seq(Turn) /\ Len(e.turn) = n /\ e.turn[t] = new
        /\ \A s \in 1..n : s # t => e.turn[s] = c.turn[s]
    BY <1>1, <1>2, <1>3, ExceptSeq
  <1>5. Typed(e)
    BY <1>1, <1>3, <1>4 DEF Good, Typed, CoordinatorType
  <1>f. /\ \A s \in 1..n :
             /\ e.turn[s].run = c.turn[s].run /\ e.turn[s].after = c.turn[s].after
             /\ e.turn[s].ending = c.turn[s].ending
             /\ e.turn[s].outcome = c.turn[s].outcome
             /\ s # t => e.turn[s].baseline = c.turn[s].baseline
        /\ e.turn[t].baseline = h /\ Len(e.turn) = n
    BY <1>2, <1>4
  <1>c. /\ \A x \in Runs : \A p \in 1..Len(c.chain[x]) : Linked(c, x, p)
        /\ \A s \in 1..n : Fate(c, s)
        /\ \A k \in 1..Len(c.gitq) : c.gitq[k].turn \in 1..n
    BY DEF Good, ChainGood, TurnGood, QueueGood, OpGood
  <1>a. /\ t = n /\ c.turn[t].outcome = "open" /\ ~Done(c, t)
    <2>1. t = n /\ c.turn[t].outcome = "open" /\ c.turn[t].run = c.run.id
      BY <1>1 DEF Good, Tracked, n
    <2>2. IF c.turn[t].ending THEN InChain(c, t) ELSE c.run.active = t
      BY <2>1 DEF Good, Tracked, n
    <2> QED BY <2>1, <2>2 DEF Done
  <1> HIDE DEF n
  <1>6. \A s \in 1..n : (InChain(e, s) <=> InChain(c, s)) /\ (Done(e, s) <=> Done(c, s))
    <2>1. \A s \in 1..n : e.turn[s].run = c.turn[s].run /\ e.turn[s].ending = c.turn[s].ending
      BY <1>f
    <2>2. e.chain = c.chain
      BY <1>3
    <2> QED BY <2>1, <2>2 DEF InChain, Done
  <1>7. Tracked(e)
    <2>1. /\ c.run.active = n
          /\ \A s \in 1..n :
               /\ c.turn[s].run <= c.run.id
               /\ c.turn[s].outcome = "open" /\ c.turn[s].run = c.run.id =>
                    IF c.turn[s].ending THEN InChain(c, s) ELSE c.run.active = s
          /\ c.turn[n].run = c.run.id /\ c.turn[n].outcome = "open"
      BY <1>1, <1>a DEF Good, Tracked, n
    <2> QED BY <1>3, <1>6, <1>a, <1>f, <2>1 DEF Tracked
  <1>8. ChainGood(e)
    <2> SUFFICES ASSUME NEW x \in Runs, NEW p \in 1..Len(c.chain[x])
                 PROVE  Linked(e, x, p)
      BY <1>3 DEF ChainGood
    <2>1. Linked(c, x, p)
      BY <1>c
    <2>2. /\ c.chain[x][p] \in 1..n
          /\ c.turn[c.chain[x][p]].run = x /\ c.turn[c.chain[x][p]].ending
          /\ \A q \in 1..Len(c.chain[x]) : c.chain[x][p] = c.chain[x][q] => p = q
      BY <2>1 DEF Linked, n
    <2>3. e.turn[c.chain[x][p]].run = x /\ e.turn[c.chain[x][p]].ending
      BY <1>f, <2>2
    <2>4. e.chain = c.chain /\ Len(e.turn) = n
      BY <1>3, <1>f
    <2> QED BY <2>2, <2>3, <2>4 DEF Linked
  <1>p. \A s \in 1..n : /\ c.turn[s].after # 0 => c.turn[s].after \in 1..n
                        /\ Ready(e, s) <=> Ready(c, s)
    <2> SUFFICES ASSUME NEW s \in 1..n
                 PROVE  /\ c.turn[s].after # 0 => c.turn[s].after \in 1..n
                        /\ Ready(e, s) <=> Ready(c, s)
      OBVIOUS
    <2>1. Fate(c, s) /\ c.turn[s].after \in Nat
      BY <1>1, <1>c, TurnFields, Bounds
    <2>2. c.turn[s].after # 0 => c.turn[s].after \in 1..n
      BY <1>1, <2>1 DEF Fate
    <2> QED BY <1>6, <1>f, <2>2 DEF Ready
  <1>9. TurnGood(e)
    <2> SUFFICES ASSUME NEW s \in 1..n PROVE Fate(e, s)
      BY <1>f DEF TurnGood
    <2>1. Fate(c, s)
      BY <1>c
    <2>2. e.turn[s].outcome = "dropped" => s # t
      BY <1>a, <1>f
    <2>3. c.turn[s].after # 0 => e.turn[c.turn[s].after].run = c.turn[c.turn[s].after].run
      BY <1>f, <1>p
    <2> QED BY <1>6, <1>f, <2>1, <2>2, <2>3 DEF Fate
  <1>10. Waits(e)
    <2> SUFFICES ASSUME NEW s \in 1..n, NEW u \in 1..n, u < s, Outstanding(e, s, u)
                 PROVE  Behind(e, s, u)
      BY <1>f DEF Waits
    <2>1. u # t
      BY <1>1, <1>a
    <2>2. Outstanding(c, s, u)
      BY <1>6, <1>f, <2>1 DEF Outstanding
    <2>3. Behind(c, s, u)
      BY <2>2 DEF Good, Waits, n
    <2>4. /\ e.chain = c.chain /\ e.turn[s].run = c.turn[s].run
          /\ e.turn[s].after = c.turn[s].after
      BY <1>3, <1>f
    <2> QED BY <2>3, <2>4 DEF Behind
  <1>11. Patient(e)
    <2> SUFFICES ASSUME NEW s \in 1..n, ~Ready(e, s)
                 PROVE  e.turn[s].baseline = 0 /\ Unasked(e, s)
      BY <1>f DEF Patient
    <2>1. ~Ready(c, s) /\ s # t
      BY <1>p
    <2> QED BY <1>3, <1>f, <2>1 DEF Good, Patient, Unasked, n
  <1>12. QueueGood(e)
    <2>1. ASSUME NEW k \in 1..Len(c.gitq) PROVE OpGood(e, c.gitq[k])
      <3>1. OpGood(c, c.gitq[k]) /\ c.gitq[k].turn \in 1..n
        BY <1>c DEF Good, QueueGood
      <3>2. FirstOfChain(e, c.gitq[k].turn) <=> FirstOfChain(c, c.gitq[k].turn)
        BY <1>3, <1>f, <3>1 DEF FirstOfChain
      <3>3. CASE c.gitq[k].turn = t
        BY <1>f, <3>1, <3>2, <3>3 DEF OpGood, IsSnapshot
      <3>4. CASE c.gitq[k].turn # t
        BY <1>f, <3>1, <3>2, <3>4 DEF OpGood
      <3> QED BY <3>3, <3>4
    <2>2. ASSUME NEW k \in 1..Len(c.gitq), NEW j \in 1..Len(c.gitq), j < k
          PROVE  PairGood(e, c.gitq[j], c.gitq[k])
      <3>1. PairGood(c, c.gitq[j], c.gitq[k])
        BY <2>2 DEF Good, QueueGood
      <3> QED BY <1>c, <1>f, <3>1 DEF PairGood
    <2>3. \A k \in 1..Len(c.gitq) : c.gitq[k].begun => k = 1
      BY DEF Good, QueueGood
    <2> QED BY <1>3, <2>1, <2>2, <2>3 DEF QueueGood
  <1>13. CommitsGood(e, commits)
    <2>1. /\ \A i \in 1..Len(commits) :
               commits[i] # 0 => commits[i] \in 1..n /\ Done(c, commits[i])
          /\ \A s \in 1..n : c.turn[s].baseline <= Len(commits) + 1
      BY DEF Good, CommitsGood, n
    <2>2. ASSUME NEW s \in 1..n, NEW i \in 1..Len(commits), Later(e, s, i, commits[i])
          PROVE  Done(e, s)
      <3>1. commits[i] \in 1..n /\ commits[i] # t /\ commits[i] # 0
        BY <1>a, <2>1, <2>2 DEF Later
      <3>2. s # t
        BY <1>f, <2>2, <3>1 DEF Later
      <3>3. Later(c, s, i, commits[i])
        BY <1>f, <2>2, <3>1, <3>2 DEF Later
      <3> QED BY <1>6, <3>3 DEF Good, CommitsGood, n
    <2>3. \A s \in 1..n : e.turn[s].baseline <= Len(commits) + 1
      BY <1>f, <1>r, <2>1
    <2> QED BY <1>6, <1>f, <1>r, <2>1, <2>2, <2>3 DEF CommitsGood
  <1>14. HeadGood(e, commits)
    <2> SUFFICES ASSUME NEW j \in 1..Len(c.gitq), c.gitq[j].begun
                 PROVE  HasRead(e, c.gitq[j], commits)
      BY <1>3 DEF HeadGood
    <2>1. HasRead(c, c.gitq[j], commits) /\ c.gitq[j].turn \in 1..n
      BY <1>c DEF Good, HeadGood
    <2>2. c.gitq[j].op = "commit" => c.gitq[j].turn # t
      OBVIOUS
    <2> QED BY <1>f, <2>1, <2>2 DEF HasRead
  <1>15. Good(e, commits)
    BY <1>5, <1>7, <1>8, <1>9, <1>10, <1>11, <1>12, <1>13, <1>14 DEF Good
  <1> QED BY <1>15 DEF e

(* An input that was counted is taken.                                     *)
LEMMA PendingTaken ==
  ASSUME NEW c, NEW commits, Good(c, commits), c.run.active = 0, c.run.pending # 0
  PROVE  LET e == [c EXCEPT !.run.pending = @ - 1]
         IN Good(e, commits) /\ MayStart(e) /\ e.turn = c.turn
  <1> DEFINE e == [c EXCEPT !.run.pending = @ - 1]
  <1>1. /\ c \in CoordinatorType /\ c.run \in TrackedRun /\ c.run.pending \in 0..MaxInputs
        /\ Len(c.turn) \in Nat /\ Len(c.turn) + c.run.pending <= MaxTurns
    BY Fields DEF Good, Typed
  <1>2. /\ e.run = [c.run EXCEPT !.pending = @ - 1]
        /\ e.turn = c.turn /\ e.chain = c.chain /\ e.gitq = c.gitq
        /\ e \in [run: {e.run}, turn: {e.turn}, chain: {e.chain}, gitq: {e.gitq}]
    BY <1>1 DEF CoordinatorType
  <1> HIDE DEF e
  <1>3. /\ e.run \in TrackedRun /\ e.run.id = c.run.id /\ e.run.active = c.run.active
        /\ e.run.pending = c.run.pending - 1
    <2>1. c.run.pending - 1 \in 0..MaxInputs
      BY <1>1, Bounds
    <2> QED BY <1>1, <1>2, <2>1 DEF TrackedRun
  <1>4. Len(e.turn) + e.run.pending <= MaxTurns
    BY <1>1, <1>2, <1>3, Bounds
  <1>5. e \in CoordinatorType
    BY <1>1, <1>2, <1>3 DEF CoordinatorType
  <1>6. Typed(e)
    BY <1>4, <1>5 DEF Typed
  <1>7. Good(e, commits)
    BY <1>2, <1>3, <1>6, SameGood DEF Alike
  <1>8. MayStart(e)
    BY <1>1, <1>2, <1>3, Bounds DEF MayStart
  <1> QED BY <1>2, <1>7, <1>8 DEF e

(* drainPendingInput.                                                      *)
LEMMA DrainGood ==
  ASSUME NEW c, NEW commits, Good(c, commits)
  PROVE  Good(DrainPendingInput(c), commits)
  <1>1. CASE c.run.active # 0 \/ c.run.pending = 0
    BY <1>1 DEF DrainPendingInput
  <1>2. CASE c.run.active = 0 /\ c.run.pending # 0
    BY <1>2, PendingTaken, StartTurnGood DEF DrainPendingInput
  <1> QED BY <1>1, <1>2

(* A turn that is given up has not read HEAD.                              *)
LEMMA DroppedGood ==
  ASSUME NEW c, NEW commits, Good(c, commits), NEW t \in 1..Len(c.turn),
         t = c.run.active, c.turn[t].baseline = 0
  PROVE  Good([c EXCEPT !.run.active = 0, !.turn[t].outcome = "dropped"], commits)
  <1> DEFINE n == Len(c.turn)
             new == [c.turn[t] EXCEPT !.outcome = "dropped"]
             e == [c EXCEPT !.run.active = 0, !.turn[t].outcome = "dropped"]
  <1>1. /\ c \in CoordinatorType /\ n \in Nat /\ c.turn \in Seq(Turn) /\ c.run \in TrackedRun
        /\ c.turn \in [1..n -> Turn] /\ c.turn[t] \in Turn
        /\ n + c.run.pending <= MaxTurns
    BY Fields DEF Good, Typed
  <1>2. /\ new \in Turn /\ Alike(c.turn[t], new) /\ new.outcome = "dropped"
        /\ new.ending = c.turn[t].ending /\ new.run = c.turn[t].run
    BY <1>1 DEF Turn, Alike
  <1>3. /\ e.turn = [c.turn EXCEPT ![t] = new]
        /\ e.chain = c.chain /\ e.run = [c.run EXCEPT !.active = 0] /\ e.gitq = c.gitq
        /\ e \in [run: {e.run}, turn: {e.turn}, chain: {e.chain}, gitq: {e.gitq}]
    BY <1>1 DEF CoordinatorType
  <1> HIDE DEF new, e
  <1>4. /\ e.turn \in Seq(Turn) /\ Len(e.turn) = n /\ e.turn[t] = new
        /\ \A s \in 1..n : s # t => e.turn[s] = c.turn[s]
    BY <1>1, <1>2, <1>3, ExceptSeq
  <1>5. /\ e.run \in TrackedRun /\ e.run.id = c.run.id /\ e.run.active = 0
        /\ e.run.pending = c.run.pending
    <2>1. 0 \in 0..MaxTurns
      BY Bounds
    <2> QED BY <1>1, <1>3, <2>1 DEF TrackedRun
  <1>6. Typed(e)
    BY <1>1, <1>3, <1>4, <1>5 DEF Typed, CoordinatorType
  <1>7. Tracked(e)
    <2>1. ASSUME NEW s \in 1..n, e.turn[s].outcome = "open", e.turn[s].run = c.run.id
          PROVE  e.turn[s].ending /\ InChain(e, s)
      <3>1. s # t /\ e.turn[s] = c.turn[s]
        BY <1>2, <1>4, <2>1
      <3>2. IF c.turn[s].ending THEN InChain(c, s) ELSE c.run.active = s
        BY <2>1, <3>1 DEF Good, Tracked, n
      <3> QED BY <1>3, <3>1, <3>2 DEF InChain
    <2>2. \A s \in 1..n : e.turn[s].run <= c.run.id
      BY <1>2, <1>4 DEF Good, Tracked, n
    <2> QED BY <1>4, <1>5, <2>1, <2>2 DEF Tracked
  <1>8. \A s \in 1..n : /\ Alike(c.turn[s], e.turn[s])
                        /\ \/ e.turn[s].outcome = c.turn[s].outcome
                           \/ e.turn[s].outcome = "dropped" /\ c.turn[s].baseline = 0
    BY <1>2, <1>4 DEF Alike
  <1>9. Good(e, commits)
    BY <1>3, <1>4, <1>6, <1>7, <1>8, AlikeGood DEF n
  <1> QED BY <1>9 DEF e

(* The status that a turn asked for arrives.                               *)
LEMMA BaselineReadGood ==
  ASSUME NEW c, NEW commits, Good(c, commits), NEW o \in Operation, OpGood(c, o),
         o.op = "baseline", HasRead(c, o, commits), Ready(c, o.turn),
         \A k \in 1..Len(c.gitq) : PairGood(c, o, c.gitq[k])
  PROVE  Good(BaselineRead(c, o), commits)
  <1> DEFINE t == o.turn
  <1>1. t \in 1..Len(c.turn) /\ c.turn[t].baseline = 0
    BY DEF OpGood, IsSnapshot
  <1>2. CASE c.run.active # t
    BY <1>2 DEF BaselineRead
  <1>3. CASE c.run.active = t /\ o.auto
    <2>1. /\ o.head \in 1..(Len(commits) + 1)
          /\ \A i \in 1..Len(commits) : o.head <= i => commits[i] = 0
      BY DEF HasRead
    <2>2. \A k \in 1..Len(c.gitq) : c.gitq[k].turn = t => c.gitq[k].op = "status"
      BY DEF PairGood
    <2> QED BY <1>1, <1>3, <2>1, <2>2, BaselineSetGood DEF BaselineRead
  <1>4. CASE c.run.active = t /\ ~o.auto
    <2> DEFINE e == [c EXCEPT !.run.active = 0, !.turn[t].outcome = "dropped"]
    <2>1. Good(e, commits)
      BY <1>1, <1>4, DroppedGood
    <2> HIDE DEF e
    <2> QED BY <1>4, <2>1, DrainGood DEF BaselineRead, e
  <1> QED BY <1>2, <1>3, <1>4

-----------------------------------------------------------------------------
(* No turn is refused in the step from c to e.                             *)
NoneRefused(c, e) ==
  /\ Len(c.turn) <= Len(e.turn)
  /\ \A s \in 1..Len(c.turn) :
       e.turn[s].outcome = "refused" => c.turn[s].outcome = "refused"

(* A turn that starts is open, and the others keep their outcomes.         *)
LEMMA StartTurnRefusesNone ==
  ASSUME NEW c, NEW commits, Good(c, commits), MayStart(c)
  PROVE  NoneRefused(c, StartTurn(c))
  <1> DEFINE e == Started(c)
  <1>1. /\ Len(e.turn) = Len(c.turn) + 1 /\ Len(c.turn) \in Nat
        /\ \A s \in 1..Len(c.turn) : e.turn[s] = c.turn[s]
    BY StartedFields
  <1>2. StartTurn(c).turn = e.turn
    <2>1. e.turn = Append(c.turn, NewTurn(c.run.id, LastSnapshot(c)))
      BY DEF Good, Typed, CoordinatorType, Started
    <2>2. StartTurn(c) = IF LastSnapshot(c) = 0
                           THEN Queued(e, "baseline", Len(c.turn) + 1, 0) ELSE e
      BY DEF StartTurn, Started, LastSnapshot
    <2>3. e \in CoordinatorType
      BY StartedFields DEF Typed
    <2> HIDE DEF e
    <2> QED BY <2>2, <2>3 DEF Queued, CoordinatorType
  <1> HIDE DEF e
  <1> QED BY <1>1, <1>2 DEF NoneRefused

(* A turn that ends keeps its outcome, and the run goes on.                *)
LEMMA FinishTurnFields ==
  ASSUME NEW c, NEW commits, Good(c, commits), NEW t \in 1..Len(c.turn)
  PROVE  LET e == FinishTurn(c, t)
         IN e.run = c.run /\ Len(e.turn) = Len(c.turn) /\ e.turn[t].ending
            /\ NoneRefused(c, e)
  <1> DEFINE r == c.turn[t].run
             d == Ended(c, t)
             e == FinishTurn(c, t)
  <1>0. Typed(c) /\ Len(c.turn) \in Nat
    BY Fields DEF Good, Typed
  <1>1. CASE c.turn[t].ending
    BY <1>0, <1>1 DEF FinishTurn, NoneRefused
  <1>2. CASE ~c.turn[t].ending
    <2>1. /\ Len(d.turn) = Len(c.turn) /\ d.turn[t].ending /\ d.run = c.run
          /\ \A s \in 1..Len(c.turn) : d.turn[s].outcome = c.turn[s].outcome
          /\ d \in CoordinatorType
      BY <1>0, EndedFields DEF Typed
    <2>2. e = IF c.chain[r] = <<>> THEN Queued(d, "status", t, 0) ELSE d
      BY <1>2 DEF FinishTurn, Ended
    <2> HIDE DEF d, e
    <2>3. e.turn = d.turn /\ e.run = d.run
      BY <2>1, <2>2 DEF Queued, CoordinatorType
    <2> QED BY <1>0, <2>1, <2>3 DEF NoneRefused, e
  <1> QED BY <1>1, <1>2

(* The snapshot of turn t decides on the outcome of t alone.               *)
LEMMA SnapshotDoneFields ==
  ASSUME NEW c, NEW commits, Good(c, commits), NEW t \in 1..Len(c.turn),
         FirstOfChain(c, t), NEW outcome \in Final
  PROVE  LET e == SnapshotDone(c, t, outcome)
         IN /\ Len(e.turn) = Len(c.turn) /\ e.turn[t].outcome = outcome
            /\ \A s \in 1..Len(c.turn) : s # t => e.turn[s].outcome = c.turn[s].outcome
  <1> DEFINE r == c.turn[t].run
             done == Snapped(c, t, outcome)
             waiting == SetToSeq({u \in DOMAIN c.turn : c.turn[u].after = t})
             reads == [i \in DOMAIN waiting |-> NewOperation("baseline", waiting[i], 0)]
             read == [done EXCEPT !.gitq = done.gitq \o reads]
             e == SnapshotDone(c, t, outcome)
  <1>1. /\ Len(done.turn) = Len(c.turn) /\ done \in CoordinatorType
        /\ done.turn[t].outcome = outcome
        /\ \A s \in 1..Len(c.turn) : s # t => done.turn[s].outcome = c.turn[s].outcome
    <2>1. Typed(c)
      BY DEF Good
    <2> QED BY <2>1, SnappedFields DEF Typed
  <1>2. e = IF done.chain[r] = <<>> THEN read
            ELSE Queued(read, "status", Head(done.chain[r]), 0)
    BY DEF SnapshotDone, Snapped
  <1> HIDE DEF done, reads, e
  <1>3. e.turn = done.turn
    BY <1>1, <1>2 DEF Queued, CoordinatorType
  <1> QED BY <1>1, <1>3 DEF e

(* Nor do the inputs that were counted, when one of them starts a turn.    *)
LEMMA DrainRefusesNone ==
  ASSUME NEW c, NEW commits, Good(c, commits)
  PROVE  NoneRefused(c, DrainPendingInput(c))
  <1> DEFINE e == [c EXCEPT !.run.pending = @ - 1]
  <1>0. Len(c.turn) \in Nat
    BY Fields DEF Good, Typed
  <1>1. CASE c.run.active # 0 \/ c.run.pending = 0
    BY <1>0, <1>1 DEF DrainPendingInput, NoneRefused
  <1>2. CASE c.run.active = 0 /\ c.run.pending # 0
    <2>1. Good(e, commits) /\ MayStart(e) /\ e.turn = c.turn
      BY <1>2, PendingTaken
    <2> HIDE DEF e
    <2>2. NoneRefused(e, StartTurn(e))
      BY <2>1, StartTurnRefusesNone
    <2> QED BY <1>2, <2>1, <2>2 DEF DrainPendingInput, NoneRefused, e
  <1> QED BY <1>1, <1>2

(* It refuses no snapshot.                                                 *)
LEMMA BaselineReadRefusesNone ==
  ASSUME NEW c, NEW commits, Good(c, commits), NEW o \in Operation, OpGood(c, o),
         o.op = "baseline"
  PROVE  NoneRefused(c, BaselineRead(c, o))
  <1> DEFINE t == o.turn
  <1>1. t \in 1..Len(c.turn) /\ c.turn[t].baseline = 0 /\ Len(c.turn) \in Nat
        /\ c \in CoordinatorType /\ c.turn \in [1..Len(c.turn) -> Turn]
    BY Fields DEF OpGood, IsSnapshot, Good, Typed
  <1>2. CASE c.run.active # t
    BY <1>1, <1>2 DEF BaselineRead, NoneRefused
  <1>3. CASE c.run.active = t /\ o.auto
    <2> DEFINE e == [c EXCEPT !.turn[t].baseline = o.head]
               new == [c.turn[t] EXCEPT !.baseline = o.head]
    <2>t. c.turn[t] \in Turn /\ o.head \in Nat /\ c.turn \in Seq(Turn)
      BY <1>1 DEF CoordinatorType, Operation
    <2>1. /\ new.outcome = c.turn[t].outcome /\ new \in Turn
      BY <2>t DEF Turn
    <2>e. e.turn = [c.turn EXCEPT ![t] = new]
      BY <1>1 DEF CoordinatorType
    <2> HIDE DEF e, new
    <2>2. Len(e.turn) = Len(c.turn)
          /\ \A s \in 1..Len(c.turn) : e.turn[s].outcome = c.turn[s].outcome
      BY <1>1, <2>1, <2>e, <2>t, ExceptSeq
    <2> QED BY <1>1, <1>3, <2>2 DEF BaselineRead, NoneRefused, e
  <1>4. CASE c.run.active = t /\ ~o.auto
    <2> DEFINE e == [c EXCEPT !.run.active = 0, !.turn[t].outcome = "dropped"]
               new == [c.turn[t] EXCEPT !.outcome = "dropped"]
    <2>1. Good(e, commits)
      BY <1>1, <1>4, DroppedGood
    <2>t. c.turn[t] \in Turn /\ c.turn \in Seq(Turn)
      BY <1>1 DEF CoordinatorType
    <2>2. new.outcome = "dropped" /\ new \in Turn
      BY <2>t DEF Turn
    <2>e. e.turn = [c.turn EXCEPT ![t] = new]
      BY <1>1 DEF CoordinatorType
    <2> HIDE DEF e, new
    <2>3. Len(e.turn) = Len(c.turn)
          /\ \A s \in 1..Len(c.turn) : e.turn[s].outcome \in {c.turn[s].outcome, "dropped"}
      BY <1>1, <2>2, <2>e, <2>t, ExceptSeq
    <2>4. NoneRefused(e, DrainPendingInput(e))
      BY <2>1, DrainRefusesNone
    <2> QED BY <1>4, <2>3, <2>4 DEF BaselineRead, NoneRefused, e
  <1> QED BY <1>2, <1>3, <1>4

-----------------------------------------------------------------------------
(* Output, and another run.  They change what the snapshots ignore.        *)
LEMMA PromptGood ==
  ASSUME NEW c, NEW commits, Good(c, commits), NEW prompt \in BOOLEAN
  PROVE  LET e == [c EXCEPT !.run.prompt = prompt]
         IN Good(e, commits) /\ e.turn = c.turn /\ e.run.active = c.run.active
            /\ e.run.prompt \in BOOLEAN
  <1> DEFINE e == [c EXCEPT !.run.prompt = prompt]
  <1>1. /\ c \in CoordinatorType /\ c.run \in TrackedRun
        /\ Len(c.turn) + c.run.pending <= MaxTurns
    BY Fields DEF Good, Typed
  <1>2. /\ e.run = [c.run EXCEPT !.prompt = prompt]
        /\ e.turn = c.turn /\ e.chain = c.chain /\ e.gitq = c.gitq
        /\ e \in [run: {e.run}, turn: {e.turn}, chain: {e.chain}, gitq: {e.gitq}]
    BY <1>1 DEF CoordinatorType
  <1> HIDE DEF e
  <1>3. /\ e.run \in TrackedRun /\ e.run.id = c.run.id /\ e.run.active = c.run.active
        /\ e.run.pending = c.run.pending
    BY <1>1, <1>2 DEF TrackedRun
  <1>4. Typed(e)
    BY <1>1, <1>2, <1>3 DEF Typed, CoordinatorType
  <1>5. Good(e, commits)
    BY <1>2, <1>3, <1>4, SameGood DEF Alike
  <1> QED BY <1>2, <1>3, <1>5, Fields DEF e, TrackedRun

(* A turn may change in what the snapshots ignore.                         *)
LEMMA TurnReplacedGood ==
  ASSUME NEW c, NEW commits, Good(c, commits), NEW t \in 1..Len(c.turn),
         NEW new \in Turn, Alike(c.turn[t], new), new.outcome = c.turn[t].outcome
  PROVE  LET e == [c EXCEPT !.turn[t] = new]
         IN Good(e, commits) /\ NoneRefused(c, e) /\ e.run = c.run
  <1> DEFINE e == [c EXCEPT !.turn[t] = new]
  <1>1. /\ c \in CoordinatorType /\ c.turn \in Seq(Turn) /\ Len(c.turn) \in Nat
        /\ Len(c.turn) + c.run.pending <= MaxTurns
    BY Fields DEF Good, Typed
  <1>2. /\ e.turn = [c.turn EXCEPT ![t] = new]
        /\ e.run = c.run /\ e.chain = c.chain /\ e.gitq = c.gitq
        /\ e \in [run: {e.run}, turn: {e.turn}, chain: {e.chain}, gitq: {e.gitq}]
    BY <1>1 DEF CoordinatorType
  <1> HIDE DEF e
  <1>3. /\ e.turn \in Seq(Turn) /\ Len(e.turn) = Len(c.turn) /\ e.turn[t] = new
        /\ \A s \in 1..Len(c.turn) : s # t => e.turn[s] = c.turn[s]
    BY <1>1, <1>2, ExceptSeq
  <1>4. Typed(e)
    BY <1>1, <1>2, <1>3 DEF Typed, CoordinatorType
  <1>5. \A s \in 1..Len(c.turn) :
          Alike(c.turn[s], e.turn[s]) /\ e.turn[s].outcome = c.turn[s].outcome
    BY <1>3 DEF Alike
  <1>6. Good(e, commits)
    BY <1>2, <1>3, <1>4, <1>5, SameGood
  <1> QED BY <1>1, <1>2, <1>3, <1>5, <1>6 DEF e, NoneRefused

(* onOutput.                                                               *)
LEMMA OnOutputGood ==
  ASSUME NEW c, NEW commits, Good(c, commits), NEW prompt \in BOOLEAN
  PROVE  Good(OnOutput(c, prompt), commits) /\ NoneRefused(c, OnOutput(c, prompt))
  <1> DEFINE p == c.run.prompt \/ prompt
             seen == [c EXCEPT !.run.prompt = @ \/ prompt]
             t == c.run.active
  <1>1. p \in BOOLEAN /\ seen = [c EXCEPT !.run.prompt = p]
    OBVIOUS
  <1> HIDE DEF p
  <1>2. Good(seen, commits) /\ seen.turn = c.turn /\ seen.run.prompt \in BOOLEAN
    BY <1>1, PromptGood
  <1>3. Len(c.turn) \in Nat /\ NoneRefused(c, seen)
    <2> HIDE DEF seen
    <2> QED BY <1>2, Fields DEF Good, Typed, NoneRefused
  <1>4. CASE t = 0
    BY <1>2, <1>3, <1>4 DEF OnOutput
  <1>5. CASE t # 0 /\ c.turn[t].ending
    BY <1>2, <1>3, <1>5 DEF OnOutput
  <1>6. CASE t # 0 /\ ~c.turn[t].ending
    <2> DEFINE new == [[c.turn[t] EXCEPT !.saw = TRUE] EXCEPT !.settling = seen.run.prompt]
               e == [seen EXCEPT !.turn[t] = new]
    <2>1. t \in 1..Len(c.turn) /\ c.turn[t] \in Turn
      BY <1>3, <1>6, Fields DEF Good, Typed, Tracked
    <2>2. OnOutput(c, prompt) =
            [seen EXCEPT !.turn[t].saw = TRUE, !.turn[t].settling = seen.run.prompt]
      BY <1>6 DEF OnOutput
    <2> HIDE DEF seen, t
    <2>3. new \in Turn /\ Alike(c.turn[t], new) /\ new.outcome = c.turn[t].outcome
      BY <1>2, <2>1 DEF Turn, Alike
    <2>4. OnOutput(c, prompt) = e
      <3> DEFINE d == OnOutput(c, prompt)
                 T == [c.turn EXCEPT ![t] = new]
      <3>1. /\ seen \in CoordinatorType /\ c.turn \in [1..Len(c.turn) -> Turn]
        BY <1>2, Fields DEF Good, Typed
      <3> DEFINE seenOnce == [c.turn[t] EXCEPT !.saw = TRUE]
                 T1 == [c.turn EXCEPT ![t] = seenOnce]
                 T2 == [T1 EXCEPT ![t] = [T1[t] EXCEPT !.settling = seen.run.prompt]]
      <3>4. T2 = T
        <4>1. T1[t] = seenOnce /\ \A s \in 1..Len(c.turn) : s # t => T1[s] = c.turn[s]
          BY <2>1, <3>1
        <4>2. T1[t] = seenOnce => [T1[t] EXCEPT !.settling = seen.run.prompt] = new
          OBVIOUS
        <4> HIDE DEF seenOnce, new
        <4> QED BY <2>1, <3>1, <4>1, <4>2
      <3>5. /\ d.turn = T2 /\ d.run = seen.run /\ d.chain = seen.chain /\ d.gitq = seen.gitq
            /\ d \in [run: {d.run}, turn: {d.turn}, chain: {d.chain}, gitq: {d.gitq}]
        BY <1>2, <2>2, <3>1 DEF CoordinatorType
      <3> HIDE DEF T2
      <3>2. /\ d.turn = T /\ d.run = seen.run /\ d.chain = seen.chain /\ d.gitq = seen.gitq
            /\ d \in [run: {d.run}, turn: {d.turn}, chain: {d.chain}, gitq: {d.gitq}]
        BY <3>4, <3>5
      <3>3. /\ e.turn = T /\ e.run = seen.run /\ e.chain = seen.chain /\ e.gitq = seen.gitq
            /\ e \in [run: {e.run}, turn: {e.turn}, chain: {e.chain}, gitq: {e.gitq}]
        BY <1>2, <3>1 DEF CoordinatorType
      <3> HIDE DEF d, e, T, T1
      <3>6. d = e
        BY <3>2, <3>3
      <3> QED BY <3>6 DEF d
    <2> HIDE DEF new
    <2>5. Good(e, commits) /\ NoneRefused(seen, e)
      BY <1>2, <2>1, <2>3, TurnReplacedGood
    <2> QED BY <1>2, <2>4, <2>5 DEF NoneRefused
  <1> QED BY <1>4, <1>5, <1>6

(* disposeRun.                                                             *)
LEMMA DisposeRunGood ==
  ASSUME NEW c, NEW commits, Good(c, commits)
  PROVE  LET e == DisposeRun(c)
         IN Good(e, commits) /\ NoneRefused(c, e) /\ e.run = c.run
  <1> DEFINE t == c.run.active
             new == [c.turn[t] EXCEPT !.settling = FALSE]
             e == [c EXCEPT !.turn[t] = new]
  <1>0. Len(c.turn) \in Nat
    BY Fields DEF Good, Typed
  <1>1. CASE t = 0
    BY <1>0, <1>1 DEF DisposeRun, NoneRefused
  <1>2. CASE t # 0
    <2>1. t \in 1..Len(c.turn) /\ c.turn[t] \in Turn
      BY <1>0, <1>2, Fields DEF Good, Typed, Tracked
    <2>2. DisposeRun(c) = e
      BY <1>2 DEF DisposeRun
    <2> HIDE DEF t
    <2>3. new \in Turn /\ Alike(c.turn[t], new) /\ new.outcome = c.turn[t].outcome
      BY <2>1 DEF Turn, Alike
    <2> HIDE DEF new
    <2> QED BY <2>1, <2>2, <2>3, TurnReplacedGood
  <1> QED BY <1>1, <1>2

(* attach.                                                                 *)
LEMMA AttachGood ==
  ASSUME NEW c, NEW commits, Good(c, commits), c.run.id < MaxRuns, NEW prompt \in BOOLEAN
  PROVE  Good(Attach(c, prompt), commits) /\ NoneRefused(c, Attach(c, prompt))
  <1> DEFINE d == DisposeRun(c)
             new == NewRun(c.run.id + 1, prompt)
             e == [d EXCEPT !.run = new]
  <1>1. Good(d, commits) /\ NoneRefused(c, d) /\ d.run = c.run
    BY DisposeRunGood
  <1>2. Attach(c, prompt) = e
    BY DEF Attach
  <1> HIDE DEF d
  <1>3. /\ d \in CoordinatorType /\ Len(d.turn) \in Nat /\ c.run.id \in Runs
        /\ d.run.pending \in 0..MaxInputs /\ Len(d.turn) + d.run.pending <= MaxTurns
        /\ \A t \in 1..Len(d.turn) : d.turn[t] \in Turn /\ d.turn[t].run <= c.run.id
    BY <1>1, Fields DEF Good, Typed, Tracked
  <1>4. /\ new \in TrackedRun /\ new.id = c.run.id + 1 /\ new.active = 0 /\ new.pending = 0
    BY <1>3, Bounds DEF NewRun, TrackedRun, Runs
  <1> HIDE DEF new
  <1>5. /\ e.run = new /\ e.turn = d.turn /\ e.chain = d.chain /\ e.gitq = d.gitq
        /\ e \in [run: {e.run}, turn: {e.turn}, chain: {e.chain}, gitq: {e.gitq}]
    BY <1>3 DEF CoordinatorType
  <1> HIDE DEF e
  <1>6. Typed(e)
    <2>1. Len(e.turn) + e.run.pending <= MaxTurns
      BY <1>3, <1>4, <1>5, Bounds
    <2> QED BY <1>3, <1>4, <1>5, <2>1 DEF Typed, CoordinatorType
  <1>7. Tracked(e)
    <2>2. \A t \in 1..Len(d.turn) : /\ d.turn[t].run <= c.run.id + 1
                                    /\ d.turn[t].run # c.run.id + 1
      <3>1. \A t \in 1..Len(d.turn) : d.turn[t].run \in Nat /\ d.turn[t].run <= c.run.id
        BY <1>3, TurnFields, Bounds DEF Runs
      <3>2. c.run.id \in Nat
        BY <1>3, Bounds DEF Runs
      <3> QED BY <3>1, <3>2
    <2> QED BY <1>4, <1>5, <2>2 DEF Tracked
  <1>8. Good(e, commits)
    BY <1>1, <1>5, <1>6, <1>7, AlikeGood DEF Alike
  <1> QED BY <1>1, <1>2, <1>5, <1>8 DEF NoneRefused

(* An input.                                                               *)
LEMMA PendingCounted ==
  ASSUME NEW c, NEW commits, Good(c, commits), c.run.pending < MaxInputs,
         Len(c.turn) + c.run.pending < MaxTurns
  PROVE  LET e == [c EXCEPT !.run.pending = @ + 1]
         IN Good(e, commits) /\ e.turn = c.turn
  <1> DEFINE e == [c EXCEPT !.run.pending = @ + 1]
  <1>1. /\ c \in CoordinatorType /\ c.run \in TrackedRun /\ c.run.pending \in 0..MaxInputs
        /\ Len(c.turn) \in Nat
    BY Fields DEF Good, Typed
  <1>2. /\ e.run = [c.run EXCEPT !.pending = @ + 1]
        /\ e.turn = c.turn /\ e.chain = c.chain /\ e.gitq = c.gitq
        /\ e \in [run: {e.run}, turn: {e.turn}, chain: {e.chain}, gitq: {e.gitq}]
    BY <1>1 DEF CoordinatorType
  <1> HIDE DEF e
  <1>3. /\ e.run \in TrackedRun /\ e.run.id = c.run.id /\ e.run.active = c.run.active
        /\ e.run.pending = c.run.pending + 1
    <2>1. c.run.pending + 1 \in 0..MaxInputs
      BY <1>1, Bounds
    <2> QED BY <1>1, <1>2, <2>1 DEF TrackedRun
  <1>4. Len(e.turn) + e.run.pending <= MaxTurns
    BY <1>1, <1>2, <1>3, Bounds
  <1>5. e \in CoordinatorType
    BY <1>1, <1>2, <1>3 DEF CoordinatorType
  <1>6. Typed(e)
    BY <1>4, <1>5 DEF Typed
  <1>7. Good(e, commits)
    BY <1>2, <1>3, <1>6, SameGood DEF Alike
  <1> QED BY <1>2, <1>7 DEF e

(* recordInput.                                                            *)
LEMMA RecordInputGood ==
  ASSUME NEW c, NEW commits, Good(c, commits), c.run.pending < MaxInputs,
         Len(c.turn) + c.run.pending < MaxTurns
  PROVE  Good(RecordInput(c), commits) /\ NoneRefused(c, RecordInput(c))
  <1> DEFINE t == c.run.active
  <1>0. Len(c.turn) \in Nat /\ (t # 0 => t \in 1..Len(c.turn))
    BY Fields DEF Good, Typed, Tracked
  <1>1. CASE t = 0 \/ c.turn[t].ending
    <2>1. MayStart(c) /\ RecordInput(c) = StartTurn(c)
      BY <1>1 DEF MayStart, RecordInput, ActiveTurn
    <2> QED BY <2>1, StartTurnGood, StartTurnRefusesNone
  <1>2. CASE t # 0 /\ ~c.turn[t].ending /\ c.turn[t].settling /\ c.turn[t].saw
    <2> DEFINE e == FinishTurn(c, t)
    <2>1. Good(e, commits) /\ e.run = c.run /\ Len(e.turn) = Len(c.turn)
          /\ e.turn[t].ending /\ NoneRefused(c, e)
      BY <1>0, <1>2, FinishTurnGood, FinishTurnFields
    <2>2. RecordInput(c) = StartTurn(e)
      BY <1>2 DEF RecordInput, ActiveTurn
    <2> HIDE DEF e
    <2>3. MayStart(e)
      BY <1>2, <2>1 DEF MayStart
    <2>4. Good(StartTurn(e), commits) /\ NoneRefused(e, StartTurn(e))
      BY <2>1, <2>3, StartTurnGood, StartTurnRefusesNone
    <2> QED BY <1>0, <2>1, <2>2, <2>4 DEF NoneRefused
  <1>3. CASE t # 0 /\ ~c.turn[t].ending /\ ~(c.turn[t].settling /\ c.turn[t].saw)
    <2> DEFINE e == [c EXCEPT !.run.pending = @ + 1]
    <2>1. Good(e, commits) /\ e.turn = c.turn
      BY PendingCounted
    <2>2. RecordInput(c) = e
      BY <1>3 DEF RecordInput, ActiveTurn
    <2> HIDE DEF e
    <2> QED BY <1>0, <2>1, <2>2 DEF NoneRefused
  <1> QED BY <1>1, <1>2, <1>3

-----------------------------------------------------------------------------
(* Git reads HEAD, which no turn's baseline is beyond.                     *)
LEMMA BegunGood ==
  ASSUME NEW c, NEW commits, Good(c, commits), c.gitq # <<>>, NEW auto \in BOOLEAN
  PROVE  Good([c EXCEPT !.gitq = [c.gitq EXCEPT ![1] = [c.gitq[1] EXCEPT
                !.begun = TRUE, !.head = Len(commits) + 1, !.auto = auto]]], commits)
  <1> DEFINE o == c.gitq[1]
             new == [o EXCEPT !.begun = TRUE, !.head = Len(commits) + 1, !.auto = auto]
             Q == [c.gitq EXCEPT ![1] = new]
             n == Len(c.gitq)
  <1>1. /\ c.gitq \in Seq(Operation) /\ n \in Nat /\ 1 \in 1..n /\ o \in Operation
        /\ commits \in Seq(0..MaxTurns) /\ Len(commits) \in Nat
    <2>1. c.gitq \in Seq(Operation) /\ commits \in Seq(0..MaxTurns)
      BY Fields DEF Good, Typed, CommitsGood
    <2> QED BY <2>1, LenProperties, EmptySeq
  <1>h. Len(commits) + 1 \in Nat
    BY <1>1
  <1>2. /\ new \in Operation /\ new.op = o.op /\ new.turn = o.turn
        /\ new.expected = o.expected /\ new.head = Len(commits) + 1
    <2> DEFINE h == Len(commits) + 1
    <2> HIDE DEF h, o
    <2>1. [[[o EXCEPT !.begun = TRUE] EXCEPT !.head = h] EXCEPT !.auto = auto] = new
      BY DEF h
    <2>2. /\ o \in Operation /\ h \in Nat
      BY <1>1, <1>h DEF h
    <2> HIDE DEF new
    <2> QED BY <2>1, <2>2 DEF Operation, h
  <1> HIDE DEF new, o
  <1>3. /\ Q \in Seq(Operation) /\ Len(Q) = n /\ Q[1] = new
        /\ \A k \in 1..n : k # 1 => Q[k] = c.gitq[k]
    BY <1>1, <1>2, ExceptSeq
  <1> HIDE DEF Q, n
  <1>4. \A k \in 1..n : /\ Q[k].op = c.gitq[k].op /\ Q[k].turn = c.gitq[k].turn
                        /\ Q[k].expected = c.gitq[k].expected
                        /\ k # 1 => Q[k].begun = c.gitq[k].begun
    BY <1>2, <1>3 DEF o
  <1>5. ASSUME NEW k \in 1..n
        PROVE  /\ OpGood(c, Q[k])
               /\ Q[k].begun => k = 1 /\ HasRead(c, Q[k], commits)
               /\ \A j \in 1..n : j < k => PairGood(c, Q[j], Q[k])
    <2>1. OpGood(c, c.gitq[k])
      BY DEF Good, QueueGood, n
    <2>2. OpGood(c, Q[k])
      BY <1>4, <2>1 DEF OpGood, IsSnapshot
    <2>3. ASSUME NEW j \in 1..n, j < k PROVE PairGood(c, Q[j], Q[k])
      <3>1. PairGood(c, c.gitq[j], c.gitq[k])
        BY <2>3 DEF Good, QueueGood, n
      <3> QED BY <1>4, <3>1 DEF PairGood, IsSnapshot
    <2>4. Q[k].begun => k = 1
      BY <1>4 DEF Good, QueueGood, n
    <2>5. HasRead(c, Q[1], commits)
      <3>1. o.turn \in 1..Len(c.turn)
        BY <1>1 DEF Good, QueueGood, OpGood, o, n
      <3>2. c.turn[o.turn].baseline <= Len(commits) + 1
        BY <3>1 DEF Good, CommitsGood
      <3>3. /\ Q[1].head = Len(commits) + 1 /\ Q[1].turn = o.turn
            /\ Len(commits) + 1 \in 1..(Len(commits) + 1)
            /\ \A i \in 1..Len(commits) : ~(Len(commits) + 1 <= i)
        BY <1>1, <1>2, <1>3
      <3> QED BY <3>2, <3>3 DEF HasRead
    <2> QED BY <2>2, <2>3, <2>4, <2>5
  <1>6. ASSUME NEW t \in 1..Len(c.turn), ~Ready(c, t), NEW k \in 1..n, Q[k].turn = t
        PROVE  Q[k].op # "baseline"
    BY <1>4, <1>6 DEF Good, Patient, Unasked, n
  <1>7. Good([c EXCEPT !.gitq = Q], commits)
    BY <1>3, <1>5, <1>6, NewQueue
  <1> QED BY <1>7 DEF Q, new, o

(* The operations behind the first one have not begun.                     *)
LEMMA RestNotBegun ==
  ASSUME NEW c, NEW commits, Good(c, commits), c.gitq # <<>>
  PROVE  LET e == [c EXCEPT !.gitq = Tail(@)]
         IN /\ \A k \in 1..Len(e.gitq) : ~e.gitq[k].begun
            /\ e.turn = c.turn /\ e.chain = c.chain /\ e.run = c.run
  <1>1. c \in CoordinatorType /\ c.gitq \in Seq(Operation) /\ Len(c.gitq) \in Nat
    BY Fields DEF Good, Typed
  <1>2. /\ Len(Tail(c.gitq)) = Len(c.gitq) - 1
        /\ \A k \in 1..Len(Tail(c.gitq)) : Tail(c.gitq)[k] = c.gitq[k + 1]
    BY <1>1, HeadTailProperties
  <1>3. \A k \in 1..Len(Tail(c.gitq)) : ~Tail(c.gitq)[k].begun
    <2> SUFFICES ASSUME NEW k \in 1..Len(Tail(c.gitq))
                 PROVE  ~Tail(c.gitq)[k].begun
      OBVIOUS
    <2>1. k + 1 \in 1..Len(c.gitq) /\ k + 1 # 1
      BY <1>1, <1>2
    <2> QED BY <1>2, <2>1 DEF Good, QueueGood
  <1> QED BY <1>1, <1>3 DEF CoordinatorType

(* The operation of a snapshot that ends is the only one of its run.       *)
LEMMA SnapshotEnds ==
  ASSUME NEW c, NEW commits, Good(c, commits), c.gitq # <<>>, Head(c.gitq).op # "baseline"
  PROVE  LET o == Head(c.gitq)
             e == [c EXCEPT !.gitq = Tail(@)]
         IN /\ o.turn \in 1..Len(e.turn) /\ FirstOfChain(e, o.turn)
            /\ NoneUnderWay(e, e.turn[o.turn].run)
            /\ \A k \in 1..Len(e.gitq) : e.gitq[k].turn # o.turn
            /\ o.op = "commit" => o.expected = e.turn[o.turn].baseline
  <1> DEFINE o == Head(c.gitq)
             e == [c EXCEPT !.gitq = Tail(@)]
  <1>1. OpGood(e, o) /\ \A k \in 1..Len(e.gitq) : PairGood(e, o, e.gitq[k])
    BY Dequeued
  <1>2. IsSnapshot(o)
    BY DEF IsSnapshot
  <1> HIDE DEF o, e
  <1> QED BY <1>1, <1>2 DEF OpGood, PairGood, NoneUnderWay, IsSnapshot, o, e

-----------------------------------------------------------------------------
(* The steps.  What the coordinator becomes is what c becomes above.       *)
LEMMA BecomesTyped ==
  ASSUME NEW e, e \in CoordinatorType, Becomes(e)
  PROVE  Coordinator' = e
  BY DEF Becomes, Coordinator, CoordinatorType

(* The invariant holds at the start.                                       *)
LEMMA Inits ==
  Init => IInv
  <1> SUFFICES ASSUME Init PROVE IInv
    OBVIOUS
  <1> DEFINE c == Coordinator
  <1>1. /\ c.run = run /\ c.turn = turn /\ c.chain = chain /\ c.gitq = gitq
        /\ c \in [run: {run}, turn: {turn}, chain: {chain}, gitq: {gitq}]
    BY DEF Coordinator
  <1>2. /\ run \in TrackedRun /\ run.active = 0 /\ run.pending = 0 /\ run.id = 1
    BY Bounds DEF Init, NewRun, TrackedRun, Runs
  <1>3. /\ turn = <<>> /\ Len(turn) = 0 /\ turn \in Seq(Turn)
        /\ gitq = <<>> /\ Len(gitq) = 0 /\ gitq \in Seq(Operation)
    BY DEF Init
  <1>4. chain \in [Runs -> Seq(Turns)] /\ \A r \in Runs : Len(chain[r]) = 0
    BY DEF Init
  <1>5. repo \in Repo /\ repo.commits = <<>>
    <2>1. /\ <<>> \in Seq(0..MaxTurns) /\ FALSE \in BOOLEAN /\ 0 \in 0..MaxToggles
      BY Bounds
    <2>2. PICK a \in BOOLEAN :
            repo = [commits |-> <<>>, dirty |-> FALSE, auto |-> a, toggles |-> 0]
      BY DEF Init
    <2> QED BY <2>1, <2>2 DEF Repo
  <1> HIDE DEF c
  <1>6. Typed(c)
    <2>1. c \in CoordinatorType
      BY <1>1, <1>2, <1>3, <1>4 DEF CoordinatorType
    <2>2. Len(c.turn) + c.run.pending <= MaxTurns
      BY <1>1, <1>2, <1>3, Bounds
    <2> QED BY <2>1, <2>2 DEF Typed
  <1>7. /\ Tracked(c) /\ ChainGood(c) /\ TurnGood(c) /\ Waits(c) /\ Patient(c)
        /\ QueueGood(c) /\ CommitsGood(c, <<>>) /\ HeadGood(c, <<>>)
    BY <1>1, <1>2, <1>3, <1>4
       DEF Tracked, ChainGood, TurnGood, Waits, Patient, QueueGood, CommitsGood, HeadGood
  <1> QED BY <1>5, <1>6, <1>7 DEF IInv, Good, c

(* What the coordinator does between two steps of git.                     *)
LEMMA CoordinatorStep ==
  ASSUME IInv, NEW e, Good(e, repo.commits), NoneRefused(Coordinator, e),
         Becomes(e), UNCHANGED repo
  PROVE  IInv' /\ NoneRefused(Coordinator, Coordinator')
  <1>1. Coordinator' = e
    BY BecomesTyped DEF Good, Typed
  <1> QED BY <1>1 DEF IInv

(* An input keeps the invariant and refuses no snapshot.                   *)
LEMMA InputStep ==
  ASSUME IInv, Input
  PROVE  IInv' /\ NoneRefused(Coordinator, Coordinator')
  <1> DEFINE c == Coordinator
             e == RecordInput(Coordinator)
  <1>1. c.run = run /\ c.turn = turn
    BY DEF Coordinator
  <1>2. /\ c.run.pending < MaxInputs /\ Len(c.turn) + c.run.pending < MaxTurns
        /\ Good(c, repo.commits) /\ Becomes(e) /\ UNCHANGED repo
    BY <1>1 DEF Input, IInv
  <1>3. Good(e, repo.commits) /\ NoneRefused(c, e)
    BY <1>2, RecordInputGood
  <1> HIDE DEF e
  <1> QED BY <1>2, <1>3, CoordinatorStep

(* So does output.                                                         *)
LEMMA OutputStep ==
  ASSUME IInv, Output
  PROVE  IInv' /\ NoneRefused(Coordinator, Coordinator')
  <1>1. PICK prompt \in BOOLEAN : Becomes(OnOutput(Coordinator, prompt))
    BY DEF Output
  <1> DEFINE e == OnOutput(Coordinator, prompt)
  <1>2. Good(e, repo.commits) /\ NoneRefused(Coordinator, e)
    BY OnOutputGood DEF IInv
  <1> HIDE DEF e
  <1> QED BY <1>1, <1>2, CoordinatorStep DEF Output, e

(* So does output that pushes the prompt out.                              *)
LEMMA TailOverflowsStep ==
  ASSUME IInv, TailOverflows
  PROVE  IInv' /\ NoneRefused(Coordinator, Coordinator')
  <1> DEFINE d == [Coordinator EXCEPT !.run.prompt = FALSE]
             e == OnOutput(d, FALSE)
  <1>1. Good(d, repo.commits) /\ d.turn = Coordinator.turn
    BY PromptGood DEF IInv
  <1> HIDE DEF d
  <1>2. Good(e, repo.commits) /\ NoneRefused(d, e)
    BY <1>1, OnOutputGood
  <1>3. NoneRefused(Coordinator, e)
    BY <1>1, <1>2 DEF NoneRefused
  <1>4. Becomes(e) /\ UNCHANGED repo
    BY DEF TailOverflows, d
  <1> HIDE DEF e
  <1> QED BY <1>2, <1>3, <1>4, CoordinatorStep

(* So does a timer.                                                        *)
LEMMA SettleTimerStep ==
  ASSUME IInv, NEW t \in Turns, SettleTimer(t)
  PROVE  IInv' /\ NoneRefused(Coordinator, Coordinator')
  <1> DEFINE e == FinishTurn(Coordinator, t)
  <1>1. t \in 1..Len(Coordinator.turn) /\ Good(Coordinator, repo.commits)
    <2>1. Coordinator.turn = turn
      BY DEF Coordinator
    <2>2. turn \in Seq(Turn)
      BY <2>1, Fields DEF IInv, Good, Typed
    <2> QED BY <2>1, <2>2 DEF SettleTimer, IInv
  <1>2. Good(e, repo.commits) /\ NoneRefused(Coordinator, e)
    BY <1>1, FinishTurnGood, FinishTurnFields
  <1>3. Becomes(e) /\ UNCHANGED repo
    BY DEF SettleTimer
  <1> HIDE DEF e
  <1> QED BY <1>2, <1>3, CoordinatorStep

(* So does an attachment.                                                  *)
LEMMA AttachAgainStep ==
  ASSUME IInv, AttachAgain
  PROVE  IInv' /\ NoneRefused(Coordinator, Coordinator')
  <1>1. PICK prompt \in BOOLEAN : Becomes(Attach(Coordinator, prompt))
    BY DEF AttachAgain
  <1> DEFINE e == Attach(Coordinator, prompt)
  <1>2. Coordinator.run.id < MaxRuns /\ Good(Coordinator, repo.commits)
    BY DEF AttachAgain, Coordinator, IInv
  <1>3. Good(e, repo.commits) /\ NoneRefused(Coordinator, e)
    BY <1>2, AttachGood
  <1> HIDE DEF e
  <1> QED BY <1>1, <1>3, CoordinatorStep DEF AttachAgain, e

(* So does the begin of an operation.                                      *)
LEMMA GitBeginsStep ==
  ASSUME IInv, GitBegins
  PROVE  IInv' /\ NoneRefused(Coordinator, Coordinator')
  <1> DEFINE c == Coordinator
             Q == [gitq EXCEPT ![1] = [gitq[1] EXCEPT
                     !.begun = TRUE, !.head = Len(repo.commits) + 1, !.auto = repo.auto]]
             e == [c EXCEPT !.gitq = Q]
  <1>1. /\ c.run = run /\ c.turn = turn /\ c.chain = chain /\ c.gitq = gitq
    BY DEF Coordinator
  <1>2. repo.auto \in BOOLEAN /\ Good(c, repo.commits) /\ gitq # <<>>
    BY DEF IInv, Repo, GitBegins
  <1>3. Good(e, repo.commits)
    BY <1>1, <1>2, BegunGood
  <1>4. gitq' = Q /\ UNCHANGED <<run, turn, chain, repo>>
    BY DEF GitBegins, HeadSha
  <1> HIDE DEF Q
  <1>5. Coordinator' = e
    BY <1>4 DEF Coordinator
  <1>6. Len(c.turn) \in Nat
    BY <1>2, Fields DEF Good, Typed
  <1>7. NoneRefused(Coordinator, Coordinator')
    BY <1>4, <1>6 DEF NoneRefused, Coordinator
  <1> QED BY <1>3, <1>4, <1>5, <1>7 DEF IInv

(* The repository alone.                                                   *)
LEMMA RepoStep ==
  ASSUME IInv, Edit \/ OutsideCommit \/ SetAutoSnapshot
  PROVE  IInv' /\ NoneRefused(Coordinator, Coordinator')
  <1>1. Coordinator' = Coordinator
    BY DEF Coordinator, Edit, OutsideCommit, SetAutoSnapshot
  <1>2. Good(Coordinator, repo.commits) /\ repo \in Repo /\ Len(Coordinator.turn) \in Nat
    BY Fields DEF IInv, Good, Typed
  <1>3. Good(Coordinator, repo'.commits)
    <2>1. CASE Edit \/ SetAutoSnapshot
      <3>1. repo'.commits = repo.commits
        BY <1>2, <2>1 DEF Edit, SetAutoSnapshot, Repo
      <3> QED BY <1>2, <3>1
    <2>2. CASE OutsideCommit
      <3>1. repo'.commits = Append(repo.commits, 0)
        BY <1>2, <2>2 DEF OutsideCommit, Repo
      <3>2. 0 \in 0..MaxTurns
        BY Bounds
      <3> QED BY <1>2, <3>1, <3>2, CommitAdded
    <2> QED BY <2>1, <2>2
  <1>4. repo' \in Repo
    <2>1. repo'.commits \in Seq(0..MaxTurns)
      BY <1>3 DEF Good, CommitsGood
    <2>2. CASE Edit
      BY <1>2, <2>1, <2>2 DEF Edit, Repo
    <2>3. CASE OutsideCommit
      BY <1>2, <2>1, <2>3 DEF OutsideCommit, Repo
    <2>4. CASE SetAutoSnapshot
      <3>1. /\ repo' = [repo EXCEPT !.auto = ~repo.auto, !.toggles = repo.toggles + 1]
            /\ repo.toggles < MaxToggles /\ repo.toggles \in 0..MaxToggles
        BY <1>2, <2>4 DEF SetAutoSnapshot, Repo
      <3>2. repo.toggles + 1 \in 0..MaxToggles
        BY <3>1, Bounds
      <3>3. (~repo.auto) \in BOOLEAN
        OBVIOUS
      <3> QED BY <1>2, <3>1, <3>2, <3>3 DEF Repo
    <2> QED BY <2>2, <2>3, <2>4
  <1>5. NoneRefused(Coordinator, Coordinator)
    BY <1>2 DEF NoneRefused
  <1> QED BY <1>1, <1>3, <1>4, <1>5 DEF IInv

(* An operation ends.  Only that of a commit, when HEAD has moved, refuses *)
(* a snapshot, and then the baseline of its turn is before HEAD.           *)
Overtaken(t) ==
  /\ t \in 1..Len(turn) /\ turn[t].baseline # 0 /\ ~Done(Coordinator, t)
  /\ Head(gitq).head \in 1..(Len(repo.commits) + 1) /\ turn[t].baseline < Head(gitq).head

NoneRefusedBut(c, e, S) ==
  /\ Len(c.turn) <= Len(e.turn)
  /\ \A s \in 1..Len(c.turn) \ S :
       e.turn[s].outcome = "refused" => c.turn[s].outcome = "refused"

(* The end of an operation refuses only a snapshot that was overtaken.     *)
LEMMA GitEndsStep ==
  ASSUME IInv, GitEnds
  PROVE  IInv' /\ NoneRefusedBut(Coordinator, Coordinator', {t \in 1..Len(turn) : Overtaken(t)})
  <1> DEFINE o == Head(gitq)
             t == o.turn
             d == [Coordinator EXCEPT !.gitq = Tail(@)]
             moved == o.expected # 0 /\ o.head # o.expected
             S == {s \in 1..Len(turn) : Overtaken(s)}
  <1>1. /\ Coordinator.gitq = gitq /\ Coordinator.turn = turn /\ Coordinator.chain = chain
        /\ Good(Coordinator, repo.commits) /\ gitq # <<>> /\ o.begun /\ repo \in Repo
    BY DEF IInv, GitEnds, Coordinator
  <1>2. /\ Good(d, repo.commits) /\ o \in Operation /\ OpGood(d, o)
        /\ HasRead(d, o, repo.commits)
        /\ \A k \in 1..Len(d.gitq) : PairGood(d, o, d.gitq[k])
        /\ o.op = "baseline" => Ready(d, t)
    BY <1>1, Dequeued
  <1>3. /\ \A k \in 1..Len(d.gitq) : ~d.gitq[k].begun
        /\ d.turn = turn /\ d.chain = chain
    BY <1>1, RestNotBegun
  <1>4. Len(d.turn) \in Nat /\ d.gitq \in Seq(Operation)
    BY <1>2, Fields DEF Good, Typed
  <1>5. t \in 1..Len(turn) /\ turn[t].baseline \in Nat
    <2>1. t \in 1..Len(d.turn)
      BY <1>2 DEF OpGood
    <2>2. d.turn[t] \in Turn
      BY <1>2, <2>1, Fields DEF Good, Typed
    <2> QED BY <1>3, <2>1, <2>2, TurnFields
  <1>s. ASSUME o.op # "baseline"
        PROVE  /\ FirstOfChain(d, t) /\ NoneUnderWay(d, d.turn[t].run)
               /\ \A k \in 1..Len(d.gitq) : d.gitq[k].turn # t
               /\ o.op = "commit" => o.expected = d.turn[t].baseline
    BY <1>1, <1>s, SnapshotEnds
  <1>e. ASSUME NEW e, NEW now, Good(e, now), NoneRefusedBut(d, e, S), Becomes(e),
               repo'.commits = now, repo' \in Repo
        PROVE  IInv' /\ NoneRefusedBut(Coordinator, Coordinator', S)
    <2>1. Coordinator' = e
      BY <1>e, BecomesTyped DEF Good, Typed
    <2> HIDE DEF S, d
    <2> QED BY <1>1, <1>3, <1>e, <2>1 DEF IInv, NoneRefusedBut
  <1>d. \A outcome \in Final : \A now :
          /\ o.op # "baseline"
          /\ outcome = "refused" => t \in S
          /\ now = repo.commits \/ now = Append(repo.commits, t)
          => LET e == SnapshotDone(d, t, outcome)
             IN Good(e, now) /\ NoneRefusedBut(d, e, S)
    <2> SUFFICES ASSUME NEW outcome \in Final, NEW now, o.op # "baseline",
                        outcome = "refused" => t \in S,
                        now = repo.commits \/ now = Append(repo.commits, t)
                 PROVE  LET e == SnapshotDone(d, t, outcome)
                        IN Good(e, now) /\ NoneRefusedBut(d, e, S)
      OBVIOUS
    <2> DEFINE e == SnapshotDone(d, t, outcome)
    <2> HIDE DEF d, S, o, t
    <2>1. FirstOfChain(d, t) /\ NoneUnderWay(d, d.turn[t].run) /\ t \in 1..Len(d.turn)
      BY <1>3, <1>5, <1>s
    <2>2. Good(e, now)
      BY <1>2, <1>3, <2>1, SnapshotDoneGood
    <2>3. /\ Len(e.turn) = Len(d.turn) /\ e.turn[t].outcome = outcome
          /\ \A s \in 1..Len(d.turn) : s # t => e.turn[s].outcome = d.turn[s].outcome
      BY <1>2, <2>1, SnapshotDoneFields
    <2>4. NoneRefusedBut(d, e, S)
      <3> HIDE DEF e
      <3> QED BY <1>4, <2>3 DEF NoneRefusedBut
    <2> QED BY <2>2, <2>4
  <1> SUFFICES IInv' /\ NoneRefusedBut(Coordinator, Coordinator', S)
    OBVIOUS
  <1> HIDE DEF d, o, t, S
  <1>6. CASE o.op = "baseline" /\ Becomes(BaselineRead(d, o)) /\ UNCHANGED repo
    <2> DEFINE e == BaselineRead(d, o)
    <2>1. Good(e, repo.commits)
      BY <1>2, <1>6, BaselineReadGood DEF t
    <2>2. NoneRefused(d, e)
      BY <1>2, <1>6, BaselineReadRefusesNone
    <2> HIDE DEF e
    <2>3. NoneRefusedBut(d, e, S)
      BY <2>2 DEF NoneRefused, NoneRefusedBut
    <2> QED BY <1>1, <1>6, <1>e, <2>1, <2>3 DEF e
  <1>7. CASE o.op = "status" /\ o.auto /\ UNCHANGED repo
             /\ Becomes(Queued(d, "commit", t, turn[t].baseline))
    <2> DEFINE e == Queued(d, "commit", t, turn[t].baseline)
               p == NewOperation("commit", t, turn[t].baseline)
    <2>1. /\ p \in Operation /\ p.op = "commit" /\ p.begun = FALSE /\ p.turn = t
          /\ p.expected = d.turn[t].baseline
      <3>1. t \in Turns
        BY <1>2 DEF Operation, t
      <3> QED BY <1>3, <1>5, <3>1 DEF NewOperation, Operation
    <2>2. MaySnapshot(d, t)
      BY <1>3, <1>5, <1>7, <1>s DEF MaySnapshot, NoneUnderWay
    <2>3. e = [d EXCEPT !.gitq = Append(d.gitq, p)]
      BY DEF Queued
    <2> HIDE DEF p, e
    <2>4. Good(e, repo.commits)
      BY <1>2, <1>7, <1>s, <2>1, <2>2, <2>3, SnapshotQueued DEF IsSnapshot
    <2>5. e.turn = d.turn
      BY <1>2, <2>3 DEF Good, Typed, CoordinatorType
    <2>6. NoneRefusedBut(d, e, S)
      BY <1>4, <2>5 DEF NoneRefusedBut
    <2> QED BY <1>1, <1>7, <1>e, <2>4, <2>6 DEF e
  <1>8. CASE o.op = "status" /\ UNCHANGED repo /\ Becomes(SnapshotDone(d, t, "unready"))
    <2> DEFINE e == SnapshotDone(d, t, "unready")
    <2>1. Good(e, repo.commits) /\ NoneRefusedBut(d, e, S)
      BY <1>8, <1>d DEF Final
    <2> HIDE DEF e
    <2> QED BY <1>1, <1>8, <1>e, <2>1 DEF e
  <1>9. CASE o.op = "commit" /\ moved /\ UNCHANGED repo
             /\ Becomes(SnapshotDone(d, t, "refused"))
    <2> DEFINE e == SnapshotDone(d, t, "refused")
    <2>1. t \in S
      <3>1. /\ o.expected = turn[t].baseline /\ turn[t].baseline # 0
            /\ turn[t].baseline <= o.head /\ o.head # turn[t].baseline
            /\ o.head \in 1..(Len(repo.commits) + 1)
        BY <1>2, <1>3, <1>9, <1>s DEF HasRead, t
      <3>2. Len(repo.commits) \in Nat
        BY <1>1, LenProperties DEF Repo
      <3>3. turn[t].baseline < o.head /\ o.head <= Len(repo.commits) + 1
        BY <1>5, <3>1, <3>2
      <3>4. ~Done(Coordinator, t)
        <4>1. chain[turn[t].run] # <<>> /\ chain[turn[t].run][1] = t
          BY <1>3, <1>9, <1>s DEF FirstOfChain
        <4>2. turn[t] \in Turn /\ \A r \in Runs : chain[r] \in Seq(Turns)
          BY <1>1, <1>5, Fields DEF Good, Typed
        <4>3. turn[t].run \in Runs
          BY <4>2, TurnFields
        <4>4. 1 \in 1..Len(chain[turn[t].run])
          BY <4>1, <4>2, <4>3, EmptySeq, LenProperties
        <4>5. InChain(Coordinator, t)
          BY <1>1, <4>1, <4>4 DEF InChain
        <4> QED BY <4>5 DEF Done
      <3> QED BY <1>5, <3>1, <3>3, <3>4 DEF S, Overtaken, o
    <2>2. Good(e, repo.commits) /\ NoneRefusedBut(d, e, S)
      BY <1>9, <1>d, <2>1 DEF Final
    <2> HIDE DEF e
    <2> QED BY <1>1, <1>9, <1>e, <2>2 DEF e
  <1>10. CASE o.op = "commit" /\ UNCHANGED repo /\ Becomes(SnapshotDone(d, t, "clean"))
    <2> DEFINE e == SnapshotDone(d, t, "clean")
    <2>1. Good(e, repo.commits) /\ NoneRefusedBut(d, e, S)
      BY <1>10, <1>d DEF Final
    <2> HIDE DEF e
    <2> QED BY <1>1, <1>10, <1>e, <2>1 DEF e
  <1>11. CASE o.op = "commit" /\ Becomes(SnapshotDone(d, t, "created"))
              /\ repo' = [repo EXCEPT !.commits = Append(@, t), !.dirty = FALSE]
    <2> DEFINE e == SnapshotDone(d, t, "created")
               now == Append(repo.commits, t)
    <2>1. Good(e, now) /\ NoneRefusedBut(d, e, S)
      BY <1>11, <1>d DEF Final
    <2> HIDE DEF e
    <2>2. now \in Seq(0..MaxTurns)
      BY <2>1 DEF Good, CommitsGood
    <2> HIDE DEF now
    <2>3. repo' = [repo EXCEPT !.commits = now, !.dirty = FALSE]
      BY <1>11 DEF now
    <2>4. repo'.commits = now /\ repo' \in Repo
      BY <1>1, <2>2, <2>3 DEF Repo
    <2> QED BY <1>11, <1>e, <2>1, <2>4 DEF e
  <1>12. \/ o.op = "baseline" /\ Becomes(BaselineRead(d, o)) /\ UNCHANGED repo
         \/ o.op = "status" /\ o.auto /\ UNCHANGED repo
              /\ Becomes(Queued(d, "commit", t, turn[t].baseline))
         \/ o.op = "status" /\ UNCHANGED repo /\ Becomes(SnapshotDone(d, t, "unready"))
         \/ o.op = "commit" /\ moved /\ UNCHANGED repo
              /\ Becomes(SnapshotDone(d, t, "refused"))
         \/ o.op = "commit" /\ UNCHANGED repo /\ Becomes(SnapshotDone(d, t, "clean"))
         \/ o.op = "commit" /\ Becomes(SnapshotDone(d, t, "created"))
              /\ repo' = [repo EXCEPT !.commits = Append(@, t), !.dirty = FALSE]
    BY DEF GitEnds, d, o, t
  <1> QED BY <1>6, <1>7, <1>8, <1>9, <1>10, <1>11, <1>12

(* Every step.                                                             *)
LEMMA Steps ==
  ASSUME IInv, [Next]_vars
  PROVE  IInv' /\ NoneRefusedBut(Coordinator, Coordinator', {t \in 1..Len(turn) : Overtaken(t)})
  <1>1. NoneRefused(Coordinator, Coordinator') =>
          NoneRefusedBut(Coordinator, Coordinator', {t \in 1..Len(turn) : Overtaken(t)})
    BY DEF NoneRefused, NoneRefusedBut
  <1>2. CASE UNCHANGED vars
    <2>1. Coordinator' = Coordinator /\ repo' = repo
      BY <1>2 DEF vars, Coordinator
    <2>2. Len(Coordinator.turn) \in Nat
      BY Fields DEF IInv, Good, Typed
    <2> QED BY <1>1, <2>1, <2>2 DEF IInv, NoneRefused
  <1>3. CASE GitEnds
    BY <1>3, GitEndsStep
  <1>4. CASE Input
    BY <1>1, <1>4, InputStep
  <1>5. CASE Output
    BY <1>1, <1>5, OutputStep
  <1>6. CASE TailOverflows
    BY <1>1, <1>6, TailOverflowsStep
  <1>7. ASSUME NEW t \in Turns, SettleTimer(t)
        PROVE  IInv' /\ NoneRefused(Coordinator, Coordinator')
    BY <1>7, SettleTimerStep
  <1>8. CASE GitBegins
    BY <1>1, <1>8, GitBeginsStep
  <1>9. CASE AttachAgain
    BY <1>1, <1>9, AttachAgainStep
  <1>10. CASE Edit \/ OutsideCommit \/ SetAutoSnapshot
    BY <1>1, <1>10, RepoStep
  <1> QED BY <1>1, <1>2, <1>3, <1>4, <1>5, <1>6, <1>7, <1>8, <1>9, <1>10 DEF Next

-----------------------------------------------------------------------------
(* The invariant of the coordinator, its queue and the commits: while the  *)
(* snapshot of a turn is outstanding, the later turns of its run wait      *)
(* behind it, and what git has read is not overtaken by a turn's commit.   *)
(* (snapshotChain, git-turn-coordinator.ts:103-140)                        *)
THEOREM AlwaysGood == Spec => []IInv
  <1>1. Init => IInv
    BY Inits
  <1>2. IInv /\ [Next]_vars => IInv'
    BY Steps
  <1> QED BY <1>1, <1>2, PTL DEF Spec

(* No turn of the tracked run is forgotten: until it has an outcome it is  *)
(* the active one, or its snapshot waits in the chain of its run.          *)
(* (the status of a turn, git-turn-coordinator.ts:133-145)                 *)
THEOREM EveryTurnIsKept == Spec => []NoTurnIsForgotten
  <1>1. ASSUME IInv
        PROVE  NoTurnIsForgotten
    <2>1. /\ Coordinator.run = run /\ Coordinator.turn = turn /\ Coordinator.chain = chain
          /\ turn \in Seq(Turn) /\ run.id \in Runs
          /\ \A r \in Runs : chain[r] \in Seq(Turns)
      <3>1. /\ Coordinator.run = run /\ Coordinator.turn = turn
            /\ Coordinator.chain = chain /\ Typed(Coordinator)
        BY <1>1 DEF IInv, Good, Coordinator
      <3> QED BY <3>1, Fields DEF Typed
    <2>2. /\ DOMAIN turn = 1..Len(turn)
          /\ DOMAIN chain[run.id] = 1..Len(chain[run.id])
      BY <2>1, LenProperties
    <2>3. Tracked(Coordinator)
      BY <1>1 DEF IInv, Good
    <2>4. \A t \in 1..Len(turn) :
            turn[t].outcome = "open" /\ turn[t].run = run.id =>
              IF turn[t].ending THEN InChain(Coordinator, t) ELSE run.active = t
      BY <2>1, <2>3 DEF Tracked
    <2> QED BY <2>1, <2>2, <2>4 DEF NoTurnIsForgotten, InChain
  <1> QED BY <1>1, AlwaysGood, PTL

(* A snapshot is refused only because of a commit that is no turn's of the *)
(* same attachment: a commit of such a turn, made after HEAD was read for  *)
(* this one, would be Later, and this turn's own snapshot done before it.  *)
(* (startTurn, git-turn-coordinator.ts:129-140, finishTurn, 103-107)       *)
THEOREM RefusalsAreForOthers == Spec => RefusedForOthersOnly
  <1> DEFINE A == \A t \in DOMAIN turn :
                    turn[t].outcome # "refused" /\ turn'[t].outcome = "refused" =>
                      \E i \in turn[t].baseline..(Head(gitq).head - 1) :
                        \/ repo.commits[i] = 0
                        \/ turn[repo.commits[i]].run # turn[t].run
                        \/ turn[repo.commits[i]].baseline = 0
  <1>1. ASSUME IInv, [Next]_vars
        PROVE  A
    <2> SUFFICES ASSUME NEW t \in DOMAIN turn,
                        turn[t].outcome # "refused", turn'[t].outcome = "refused"
                 PROVE  \E i \in turn[t].baseline..(Head(gitq).head - 1) :
                          \/ repo.commits[i] = 0
                          \/ turn[repo.commits[i]].run # turn[t].run
                          \/ turn[repo.commits[i]].baseline = 0
      OBVIOUS
    <2>1. /\ Coordinator.turn = turn /\ Coordinator'.turn = turn'
          /\ Good(Coordinator, repo.commits)
      BY <1>1 DEF IInv, Coordinator
    <2>2. /\ turn \in Seq(Turn) /\ t \in 1..Len(turn)
      BY <2>1, Fields, LenProperties DEF Good, Typed
    <2>3. Overtaken(t)
      BY <1>1, <2>1, <2>2, Steps DEF NoneRefusedBut
    <2> DEFINE i == turn[t].baseline
               u == repo.commits[i]
    <2>4. i \in Nat /\ turn[t] \in Turn
      BY <2>2, TurnFields
    <2>5. repo.commits \in Seq(0..MaxTurns) /\ Len(repo.commits) \in Nat
      BY <2>1, LenProperties DEF Good, CommitsGood
    <2>7. i \in 1..Len(repo.commits) /\ i \in i..(Head(gitq).head - 1)
      BY <2>3, <2>4, <2>5 DEF Overtaken
    <2>8. ~Later(Coordinator, t, i, u)
      BY <2>1, <2>2, <2>3, <2>7 DEF Good, CommitsGood, Overtaken
    <2>9. u = 0 \/ turn[u].run # turn[t].run \/ turn[u].baseline = 0
      BY <2>1, <2>3, <2>4, <2>8 DEF Later, Overtaken
    <2> QED BY <2>7, <2>9
  <1>2. Spec => [][A]_vars
    BY <1>1, AlwaysGood, PTL DEF Spec
  <1> QED BY <1>2 DEF RefusedForOthersOnly
=============================================================================
