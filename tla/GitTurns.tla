------------------------------- MODULE GitTurns -------------------------------
(***************************************************************************)
(* The snapshots that are taken of a workspace when a turn of its          *)
(* orchestrator ends (git-turn-coordinator.ts), on top of the queue of git *)
(* operations of the workspace (git-workspace-service.ts).                 *)
(*                                                                         *)
(* A turn is its number.  A commit is the turn that made it, 0 for one     *)
(* that somebody else made, and HEAD is the number of commits plus one.    *)
(* The repository exists; that it may be missing, or that git may fail,    *)
(* has the effect of the setting being off when the status is read.        *)
(***************************************************************************)
EXTENDS Naturals, Sequences, SequencesExt, FiniteSets

CONSTANTS
  MaxTurns,     \* bound: turns
  MaxInputs,    \* bound: inputs that were counted during a turn
  MaxRuns,      \* bound: times the orchestrator is attached
  MaxCommits,   \* bound: commits of others
  MaxToggles    \* bound: changes of the setting

ASSUME GitTurnsAssumption ==
  /\ {MaxTurns, MaxInputs, MaxCommits, MaxToggles} \subseteq Nat
  /\ MaxRuns \in Nat \ {0}

VARIABLES
  run,     \* the TrackedRun in tracked
  turn,    \* the turns so far, also those that only a promise still refers to
  chain,   \* per run, the turns whose snapshots snapshotChain waits for
  gitq,    \* the operations of runExclusive; the first one is under way
  repo     \* commits, uncommitted changes, auto_snapshot and its changes

vars == <<run, turn, chain, gitq, repo>>

-----------------------------------------------------------------------------
Turns == 1..MaxTurns
Runs == 1..MaxRuns

(* ActiveTurn.  after: the turn whose snapshot the baseline waits for.     *)
Turn == [run: Runs, baseline: Nat, ending: BOOLEAN, settling: BOOLEAN,
         saw: BOOLEAN, after: 0..MaxTurns,
         outcome: {"open", "dropped", "unready", "refused", "created", "clean"}]

NewTurn(r, after) ==
  [run |-> r, baseline |-> 0, ending |-> FALSE, settling |-> FALSE,
   saw |-> FALSE, after |-> after, outcome |-> "open"]

(* prompt: some line of outputTail begins with a prompt.                   *)
TrackedRun == [id: Runs, active: 0..MaxTurns, pending: 0..MaxInputs, prompt: BOOLEAN]

NewRun(r, prompt) == [id |-> r, active |-> 0, pending |-> 0, prompt |-> prompt]

Operation == [op: {"baseline", "status", "commit"}, turn: Turns, expected: Nat,
              begun: BOOLEAN, head: Nat, auto: BOOLEAN]

NewOperation(op, t, expected) ==
  [op |-> op, turn |-> t, expected |-> expected,
   begun |-> FALSE, head |-> 0, auto |-> FALSE]

Repo == [commits: Seq(0..MaxTurns), dirty: BOOLEAN, auto: BOOLEAN,
         toggles: 0..MaxToggles]

HeadSha == Len(repo.commits) + 1

-----------------------------------------------------------------------------
(* The coordinator, as functions of its state c, which has run, turn,      *)
(* chain and gitq: what runs until the next turn of the event loop,        *)
(* promise reactions included.                                             *)
Coordinator == [run |-> run, turn |-> turn, chain |-> chain, gitq |-> gitq]

Becomes(c) ==
  run' = c.run /\ turn' = c.turn /\ chain' = c.chain /\ gitq' = c.gitq

Queued(c, op, t, expected) ==
  [c EXCEPT !.gitq = Append(@, NewOperation(op, t, expected))]

ActiveTurn(c) == c.turn[c.run.active]

(* Mutant: the baseline is read at once.                                   *)
StartTurnAtOnce(c) ==
  LET t == Len(c.turn) + 1
      started == [c EXCEPT !.turn = Append(@, NewTurn(c.run.id, 0)),
                           !.run.active = t, !.run.prompt = FALSE]
  IN Queued(started, "baseline", t, 0)

(* startTurn: the baseline is read when the snapshots before it are done.  *)
StartTurn(c) ==
  LET t == Len(c.turn) + 1
      before == c.chain[c.run.id]
      after == IF before = <<>> THEN 0 ELSE Last(before)
      started == [c EXCEPT !.turn = Append(@, NewTurn(c.run.id, after)),
                           !.run.active = t, !.run.prompt = FALSE]
  IN IF after = 0 THEN Queued(started, "baseline", t, 0) ELSE started

(* finishTurn *)
FinishTurn(c, t) ==
  LET r == c.turn[t].run
      ended == [c EXCEPT !.turn[t].ending = TRUE, !.turn[t].settling = FALSE,
                         !.chain[r] = Append(@, t)]
  IN IF c.turn[t].ending THEN c
     ELSE IF c.chain[r] = <<>> THEN Queued(ended, "status", t, 0) ELSE ended

(* runSnapshot returns: the turn is over, a baseline that waited for it is *)
(* read, and the next snapshot begins.                                     *)
SnapshotDone(c, t, outcome) ==
  LET r == c.turn[t].run
      done == [c EXCEPT !.turn[t].outcome = outcome, !.chain[r] = Tail(@),
                        !.run.active = IF @ = t THEN 0 ELSE @]
      waiting == SetToSeq({u \in DOMAIN c.turn : c.turn[u].after = t})
      reads == [i \in DOMAIN waiting |-> NewOperation("baseline", waiting[i], 0)]
      read == [done EXCEPT !.gitq = @ \o reads]
  IN IF done.chain[r] = <<>> THEN read
     ELSE Queued(read, "status", Head(done.chain[r]), 0)

DrainPendingInput(c) ==
  IF c.run.active # 0 \/ c.run.pending = 0 THEN c
  ELSE StartTurn([c EXCEPT !.run.pending = @ - 1])

(* Mutant: the status is not compared with the active turn.                *)
BaselineReadAlways(c, o) ==
  IF o.auto THEN [c EXCEPT !.turn[o.turn].baseline = o.head]
  ELSE DrainPendingInput([c EXCEPT !.run.active = 0,
                                   !.turn[o.turn].outcome = "dropped"])

(* The status arrives at the turn that asked for it.  A turn that is given *)
(* up keeps its timer.                                                     *)
BaselineRead(c, o) ==
  IF c.run.active # o.turn THEN c
  ELSE IF o.auto THEN [c EXCEPT !.turn[o.turn].baseline = o.head]
  ELSE DrainPendingInput([c EXCEPT !.run.active = 0,
                                   !.turn[o.turn].outcome = "dropped"])

(* disposeRun *)
DisposeRun(c) ==
  IF c.run.active = 0 THEN c
  ELSE [c EXCEPT !.turn[c.run.active].settling = FALSE]

(* attach, which replaces the run that was tracked; the output so far may  *)
(* have a prompt in it.                                                    *)
Attach(c, prompt) == [DisposeRun(c) EXCEPT !.run = NewRun(c.run.id + 1, prompt)]

(* onOutput, of a chunk with or without a prompt in it.                    *)
OnOutput(c, prompt) ==
  LET seen == [c EXCEPT !.run.prompt = @ \/ prompt]
      t == c.run.active
  IN IF t = 0 THEN seen
     ELSE IF c.turn[t].ending THEN seen
     ELSE [seen EXCEPT !.turn[t].saw = TRUE, !.turn[t].settling = seen.run.prompt]

(* recordInput.  Turns that exceed the bound are not started.              *)
RecordInput(c) ==
  IF c.run.active = 0 THEN StartTurn(c)
  ELSE IF ActiveTurn(c).ending THEN StartTurn(c)
  ELSE IF ActiveTurn(c).settling /\ ActiveTurn(c).saw
    THEN StartTurn(FinishTurn(c, c.run.active))
  ELSE [c EXCEPT !.run.pending = @ + 1]

-----------------------------------------------------------------------------
Init ==
  /\ run \in {NewRun(1, prompt) : prompt \in BOOLEAN}
  /\ turn = <<>>
  /\ chain = [r \in Runs |-> <<>>]
  /\ gitq = <<>>
  /\ repo \in {[commits |-> <<>>, dirty |-> FALSE, auto |-> a, toggles |-> 0] :
                a \in BOOLEAN}

(* A person writes to the orchestrator: recordUserInput.                   *)
Input ==
  /\ Len(turn) + run.pending < MaxTurns /\ run.pending < MaxInputs
  /\ Becomes(RecordInput(Coordinator))
  /\ UNCHANGED repo

(* The orchestrator prints: its prompt, the echo of an input behind one,   *)
(* or anything else.                                                       *)
Output ==
  /\ \E prompt \in BOOLEAN : Becomes(OnOutput(Coordinator, prompt))
  /\ UNCHANGED repo

(* Somebody changes a file of the workspace.                               *)
Edit ==
  /\ repo' = [repo EXCEPT !.dirty = TRUE]
  /\ UNCHANGED <<run, turn, chain, gitq>>

(* 64 KB of output without a prompt push the last one out of outputTail.   *)
TailOverflows ==
  /\ run.prompt
  /\ Becomes(OnOutput([Coordinator EXCEPT !.run.prompt = FALSE], FALSE))
  /\ UNCHANGED repo

(* The settle timer of a turn, also of one that was given up.              *)
SettleTimer(t) ==
  /\ t \in DOMAIN turn /\ turn[t].settling
  /\ Becomes(FinishTurn(Coordinator, t))
  /\ UNCHANGED repo

(* The first operation of the queue reads HEAD and the setting.            *)
GitBegins ==
  /\ gitq # <<>> /\ ~Head(gitq).begun
  /\ gitq' = [gitq EXCEPT ![1] = [@ EXCEPT !.begun = TRUE, !.head = HeadSha,
                                           !.auto = repo.auto]]
  /\ UNCHANGED <<run, turn, chain, repo>>

(* It ends, and whoever awaits it goes on.                                 *)
GitEnds ==
  /\ gitq # <<>> /\ Head(gitq).begun
  /\ LET o == Head(gitq)
         c == [Coordinator EXCEPT !.gitq = Tail(@)]
         moved == o.expected # 0 /\ o.head # o.expected
     IN \/ /\ o.op = "baseline"
           /\ Becomes(BaselineRead(c, o))
           /\ UNCHANGED repo
        \/ /\ o.op = "status"
           /\ Becomes(IF o.auto THEN Queued(c, "commit", o.turn, turn[o.turn].baseline)
                      ELSE SnapshotDone(c, o.turn, "unready"))
           /\ UNCHANGED repo
        \/ /\ o.op = "commit" /\ moved
           /\ Becomes(SnapshotDone(c, o.turn, "refused"))
           /\ UNCHANGED repo
        \/ /\ o.op = "commit" /\ ~moved /\ ~repo.dirty
           /\ Becomes(SnapshotDone(c, o.turn, "clean"))
           /\ UNCHANGED repo
        \/ /\ o.op = "commit" /\ ~moved /\ repo.dirty
           /\ Becomes(SnapshotDone(c, o.turn, "created"))
           /\ repo' = [repo EXCEPT !.commits = Append(@, o.turn), !.dirty = FALSE]

(* The orchestrator, a worker or a person commits; a snapshot that is      *)
(* asked for by hand is one of these.                                      *)
OutsideCommit ==
  /\ Len(SelectSeq(repo.commits, LAMBDA t : t = 0)) < MaxCommits
  /\ repo' = [repo EXCEPT !.commits = Append(@, 0), !.dirty = FALSE]
  /\ UNCHANGED <<run, turn, chain, gitq>>

SetAutoSnapshot ==
  /\ repo.toggles < MaxToggles
  /\ repo' = [repo EXCEPT !.auto = ~@, !.toggles = @ + 1]
  /\ UNCHANGED <<run, turn, chain, gitq>>

(* The orchestrator is attached again: it ended and was started anew, or a *)
(* start joined its live run.                                              *)
AttachAgain ==
  /\ run.id < MaxRuns
  /\ \E prompt \in BOOLEAN : Becomes(Attach(Coordinator, prompt))
  /\ UNCHANGED repo

Next ==
  \/ Input \/ Output \/ TailOverflows \/ Edit
  \/ \E t \in Turns : SettleTimer(t)
  \/ GitBegins \/ GitEnds
  \/ OutsideCommit \/ SetAutoSnapshot
  \/ AttachAgain

Spec == Init /\ [][Next]_vars

-----------------------------------------------------------------------------
(* A turn's snapshot is refused only because of a commit that is not a     *)
(* turn's of the same attachment: the snapshots of earlier turns, which    *)
(* may be committed long after a later turn began, never count as a        *)
(* change of HEAD.  A turn whose own baseline was never read is the        *)
(* exception: one that was given up keeps its timer, and its snapshot may  *)
(* come during the next turn.                                              *)
(* (startTurn, git-turn-coordinator.ts:129-140, finishTurn, 103-107)       *)
RefusedForOthersOnly ==
  [][\A t \in DOMAIN turn :
      turn[t].outcome # "refused" /\ turn'[t].outcome = "refused" =>
        \E i \in turn[t].baseline..(Head(gitq).head - 1) :
          \/ repo.commits[i] = 0
          \/ turn[repo.commits[i]].run # turn[t].run
          \/ turn[repo.commits[i]].baseline = 0]_vars

(* No turn of the tracked run is forgotten: until it has an outcome it is  *)
(* the active one, whose prompt is watched for, or its snapshot is on the  *)
(* way.  A status that arrives late would clear the wrong turn.            *)
(* (the status of a turn, git-turn-coordinator.ts:133-145)                 *)
NoTurnIsForgotten ==
  \A t \in DOMAIN turn :
    turn[t].outcome = "open" /\ turn[t].run = run.id =>
      IF turn[t].ending
        THEN \E i \in DOMAIN chain[run.id] : chain[run.id][i] = t
        ELSE run.active = t

=============================================================================
