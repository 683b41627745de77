---------------------------- MODULE TerminalStream ----------------------------
(***************************************************************************)
(* The output of one PTY on its way to the terminals that show it: the     *)
(* mirror that snapshots are taken from (terminal-state-mirror.ts), the    *)
(* hub and the flow control of each viewer (terminal-stream-hub.ts,        *)
(* terminal-flow-control.ts), and the browser's end of the two sockets     *)
(* (terminal-client.ts, useTerminalRun.ts).                                *)
(*                                                                         *)
(* A chunk of output is its number and counts as one unit of bytes, so a   *)
(* screen is the number of the last chunk it shows.  A viewer is one       *)
(* terminal client: its clientId is fresh, so each socket attaches once.   *)
(*                                                                         *)
(* Left out: input, resize, permissions, session recovery and interviews,  *)
(* viewers without snapshot=1, and the exit and error messages, which      *)
(* change no part of the stream.                                           *)
(***************************************************************************)
EXTENDS Naturals, Sequences, SequencesExt, FiniteSets, FiniteSetsExt

CONSTANTS
  Viewers,
  BufferedHigh, BufferedLow,  \* WS_BUFFERED_HIGH_WATER, WS_BUFFERED_LOW_WATER
  UnackedHigh, UnackedLow,    \* UNACKED_HIGH_WATER, UNACKED_LOW_WATER
  ViewerMax,                  \* VIEWER_MAX_BYTES
  MaxOutput,                  \* bound: chunks that the agent prints
  MaxCloses                   \* bound: sockets that browsers close

ASSUME TerminalAssumption ==
  /\ {BufferedLow, UnackedLow, MaxOutput} \subseteq Nat \ {0}
  /\ MaxCloses \in Nat
  /\ BufferedHigh \in Nat /\ BufferedLow <= BufferedHigh
  /\ UnackedHigh \in Nat /\ UnackedLow <= UnackedHigh
  /\ ViewerMax \in Nat /\ UnackedHigh <= ViewerMax

VARIABLES
  run,    \* the agent's run: how much it printed, and whether it lives;
          \* closes counts what browsers closed
  hub,    \* the RunState of the run, with its viewers and their sockets
  client  \* what each browser has received

vars == <<run, hub, client>>

-----------------------------------------------------------------------------
(* createTerminalOutputFlow: pendingChunks, flushTimer, paused,            *)
(* unackedBytes, ackTimer, resumeCheckTimer; live unless closed.           *)
NoFlow == [live |-> FALSE, pending |-> <<>>, flushing |-> FALSE, paused |-> FALSE,
           unacked |-> 0, deadline |-> FALSE, checking |-> FALSE]
NewFlow == [NoFlow EXCEPT !.live = TRUE]

(* ViewerState, with what is under way on its sockets: frames to the       *)
(* browser, its acknowledgements, and the snapshot.  A socket is closing   *)
(* from the peer's close until the server's close event.                   *)
NewViewer == [control |-> "none", io |-> "none", started |-> FALSE,
              bootstrap |-> <<>>, handshake |-> FALSE, flow |-> NoFlow,
              frames |-> <<>>, restore |-> <<>>, acks |-> <<>>]

NewMirror == [queue |-> <<>>, pending |-> 0, screen |-> 0]

NewHub == [open |-> FALSE, exited |-> FALSE, members |-> {}, pressured |-> {},
           ptyPaused |-> FALSE, mirror |-> NewMirror,
           view |-> [v \in Viewers |-> NewViewer]]

NewClient == [restored |-> "no", base |-> 0, pending |-> <<>>, shown |-> <<>>]

Init ==
  /\ run = [printed |-> 0, alive |-> TRUE, closes |-> 0]
  /\ hub = NewHub
  /\ client = [v \in Viewers |-> NewClient]

(* viewer.controlSocket and viewer.ioSocket are set.                       *)
HasControl(h, v) == v \in h.members /\ h.view[v].control \in {"open", "closing"}
HasIo(h, v) == v \in h.members /\ h.view[v].io \in {"open", "closing"}

-----------------------------------------------------------------------------
(* terminal-state-mirror.ts: writes that follow each other are one entry   *)
(* of the queue until it starts (pending is the place of the entry that    *)
(* still takes chunks, 0 for none); a snapshot seals it.                   *)
Write(m, chunk) ==
  IF m.pending # 0
  THEN [m EXCEPT !.queue[m.pending].upTo = chunk]
  ELSE [m EXCEPT !.queue = Append(@, [op |-> "write", upTo |-> chunk]),
                 !.pending = Len(m.queue) + 1]

SnapshotUnsealed(m, v) ==
  [m EXCEPT !.queue = Append(@, [op |-> "snapshot", viewer |-> v])]

Snapshot(m, v) ==
  [m EXCEPT !.queue = Append(@, [op |-> "snapshot", viewer |-> v]), !.pending = 0]

-----------------------------------------------------------------------------
(* The hub and the flows.  The operators take the hub h before a call and  *)
(* return it after the call, callbacks included.                           *)
Active(h) == {v \in h.members : h.view[v].flow.live /\ h.view[v].io = "open"}

UpdateRunPressure(h) ==
  [h EXCEPT !.ptyPaused = Active(h) # {} /\ Active(h) \subseteq h.pressured]

MaybeResumeRun(h, v) == UpdateRunPressure([h EXCEPT !.pressured = @ \ {v}])

CloseFlowQuietly(h, v) == [h EXCEPT !.view[v].flow = NoFlow]

(* flow.close, and flowState = null: a flow that held the PTY lets it go.  *)
CloseFlow(h, v) ==
  LET closed == [h EXCEPT !.view[v].flow = NoFlow]
  IN IF h.view[v].flow.paused THEN MaybeResumeRun(closed, v) ELSE closed

CleanupRun(h) ==
  IF h.exited /\ h.members = {}
  THEN [h EXCEPT !.open = FALSE, !.exited = FALSE, !.pressured = {},
                 !.ptyPaused = FALSE, !.mirror = NewMirror]
  ELSE h

CleanupViewer(h, v) ==
  IF HasControl(h, v) \/ HasIo(h, v) THEN h
  ELSE CleanupRun(MaybeResumeRun([h EXCEPT !.members = @ \ {v},
                                           !.view[v].bootstrap = <<>>,
                                           !.view[v].handshake = FALSE], v))

(* What is under way on a socket that ends is lost: what arrived did so    *)
(* before.                                                                 *)
IoEnds(w) == [w EXCEPT !.io = "closed", !.frames = <<>>]
ControlEnds(w) == [w EXCEPT !.control = "closed", !.restore = <<>>, !.acks = <<>>]

(* The later close events find another viewer, or none, and do nothing.    *)
DisconnectViewer(h, v) ==
  LET closed == CloseFlow(h, v)
      w == [closed.view[v] EXCEPT !.bootstrap = <<>>, !.handshake = FALSE]
      gone == IF HasIo(h, v) THEN IoEnds(w) ELSE w
  IN MaybeResumeRun(
       [closed EXCEPT !.members = @ \ {v},
          !.view[v] = IF HasControl(h, v) THEN ControlEnds(gone) ELSE gone], v)

(* ws.bufferedAmount: what the browser has not taken from the socket.      *)
Buffered(w) == Len(FlattenSeq(w.frames))

ShouldPause(w) == Buffered(w) >= BufferedHigh \/ w.flow.unacked >= UnackedHigh
CanResume(w) == Buffered(w) < BufferedLow /\ w.flow.unacked < UnackedLow

(* sendChunk, afterSend.                                                   *)
Send(h, v, frame) ==
  LET sent == [h EXCEPT !.view[v].frames = Append(@, frame),
                        !.view[v].flow.unacked = @ + Len(frame),
                        !.view[v].flow.deadline = TRUE]
  IN CASE h.view[v].io # "open" -> h
       [] h.view[v].io = "open" /\ ShouldPause(sent.view[v]) ->
            UpdateRunPressure([sent EXCEPT !.pressured = @ \cup {v},
                                           !.view[v].flow.paused = TRUE,
                                           !.view[v].flow.checking = TRUE])
       [] OTHER -> sent

Flush(h, v) ==
  LET flow == h.view[v].flow
      idle == [h EXCEPT !.view[v].flow.flushing = FALSE]
  IN IF flow.paused \/ flow.pending = <<>> THEN idle
     ELSE Send([idle EXCEPT !.view[v].flow.pending = <<>>], v, flow.pending)

(* Chunks that wait for the flush.  The last of them exceeds the limit if  *)
(* one does, and then the viewer goes, so a few are added like one.        *)
Exceeds(w, chunks) ==
  Len(chunks) + Len(w.flow.pending) + w.flow.unacked + Buffered(w) > ViewerMax

Hold(h, v, chunks) ==
  LET flow == h.view[v].flow
  IN CASE ~flow.live \/ chunks = <<>> -> h
       [] flow.live /\ chunks # <<>> /\ Exceeds(h.view[v], chunks) -> DisconnectViewer(h, v)
       [] OTHER -> [h EXCEPT !.view[v].flow.pending = @ \o chunks,
                             !.view[v].flow.flushing = @ \/ ~flow.paused]

(* quick: the chunk is short and the flow was idle for a while.            *)
Enqueue(h, v, chunk, quick) ==
  LET flow == h.view[v].flow
      direct == quick /\ ~flow.paused /\ flow.pending = <<>> /\ ~flow.flushing
  IN IF flow.live /\ direct /\ ~Exceeds(h.view[v], <<chunk>>)
     THEN Send(h, v, <<chunk>>) ELSE Hold(h, v, <<chunk>>)

CheckResumeUnflushed(h, v) ==
  IF h.view[v].flow.paused /\ CanResume(h.view[v])
  THEN MaybeResumeRun([h EXCEPT !.view[v].flow.paused = FALSE,
                                !.view[v].flow.checking = FALSE], v)
  ELSE [h EXCEPT !.view[v].flow.checking = h.view[v].flow.paused]

CheckResume(h, v) ==
  IF h.view[v].flow.paused /\ CanResume(h.view[v])
  THEN Flush(MaybeResumeRun([h EXCEPT !.view[v].flow.paused = FALSE,
                                      !.view[v].flow.checking = FALSE], v), v)
  ELSE [h EXCEPT !.view[v].flow.checking = h.view[v].flow.paused]

AckStopsDeadline(h, v, n) ==
  IF h.view[v].flow.live /\ n <= h.view[v].flow.unacked
  THEN CheckResume([h EXCEPT !.view[v].flow.unacked = @ - n,
                             !.view[v].flow.deadline = FALSE], v)
  ELSE h

(* flow.ack: every acknowledgement starts the deadline of the rest anew.   *)
Ack(h, v, n) ==
  IF h.view[v].flow.live /\ n <= h.view[v].flow.unacked
  THEN CheckResume([h EXCEPT !.view[v].flow.unacked = @ - n,
                             !.view[v].flow.deadline = h.view[v].flow.unacked # n], v)
  ELSE h

(* The listener of the output bus, for one viewer.                         *)
Deliver(h, v, chunk, quick) ==
  LET w == h.view[v]
  IN CASE ~w.started -> h
       [] w.started /\ HasIo(h, v) -> Enqueue(h, v, chunk, quick)
       [] w.started /\ ~HasIo(h, v) /\ HasControl(h, v) ->
            IF Len(w.bootstrap) + 1 > ViewerMax THEN DisconnectViewer(h, v)
            ELSE [h EXCEPT !.view[v].bootstrap = Append(@, chunk)]
       [] OTHER -> h

(* For all viewers: each has a part of its own, and the pressure of the    *)
(* run is computed anew when one of them pauses or is disconnected.        *)
DeliverAll(h, chunk, quick) ==
  LET to(v) == Deliver(h, v, chunk, v \in quick)
      told == [h EXCEPT !.members = {v \in @ : v \in to(v).members},
                        !.pressured = {v \in Viewers : v \in to(v).pressured},
                        !.view = [v \in Viewers |-> to(v).view[v]]]
  IN IF told.members = h.members /\ told.pressured = h.pressured THEN told
     ELSE UpdateRunPressure(told)

(* getOrCreateState: a mirror starts with the output so far.               *)
GetOrCreateState(h) ==
  IF h.open THEN h
  ELSE [h EXCEPT !.open = TRUE, !.exited = ~run.alive,
          !.mirror = IF run.printed > 0 THEN Write(NewMirror, run.printed) ELSE NewMirror]

(* getOrCreateViewer and checkBootstrap: the viewer waits for its other    *)
(* socket.                                                                 *)
AddViewer(h, v, socket) ==
  LET w == [IF v \in h.members THEN h.view[v]
            ELSE [h.view[v] EXCEPT !.started = FALSE] EXCEPT ![socket] = "open"]
      added == [h EXCEPT !.members = @ \cup {v}, !.view[v] = w]
  IN [added EXCEPT !.view[v].handshake = ~(HasControl(added, v) /\ HasIo(added, v))]

-----------------------------------------------------------------------------
(* The PTY prints a chunk.                                                 *)
Output ==
  /\ run.alive /\ ~hub.ptyPaused /\ run.printed < MaxOutput
  /\ run' = [run EXCEPT !.printed = @ + 1]
  /\ \E quick \in SUBSET hub.members :
       hub' = IF ~hub.open THEN hub
              ELSE DeliverAll([hub EXCEPT !.mirror = Write(@, run.printed + 1)],
                              run.printed + 1, quick)
  /\ UNCHANGED client

(* handleRunExit.                                                          *)
Exit ==
  /\ run.alive
  /\ run' = [run EXCEPT !.alive = FALSE]
  /\ hub' = IF hub.open THEN CleanupRun([hub EXCEPT !.exited = TRUE]) ELSE hub
  /\ UNCHANGED client

(* The screen is serialised in its turn of the queue; a viewer that lost   *)
(* its control socket meanwhile is not sent it.                            *)
MirrorTurn ==
  LET m == hub.mirror
      head == Head(m.queue)
      rest == [m EXCEPT !.queue = Tail(@), !.pending = IF @ = 0 THEN 0 ELSE @ - 1]
  IN /\ m.queue # <<>>
     /\ hub' =
          CASE head.op = "write" ->
                 [hub EXCEPT !.mirror = [rest EXCEPT !.screen = head.upTo]]
            [] head.op = "snapshot" ->
                 IF HasControl(hub, head.viewer) /\ hub.view[head.viewer].control = "open"
                 THEN [hub EXCEPT !.mirror = rest,
                                  !.view[head.viewer].restore = <<m.screen>>]
                 ELSE [hub EXCEPT !.mirror = rest]
     /\ UNCHANGED <<run, client>>

AttachControl(v) ==
  /\ hub.view[v].control = "none"
  /\ LET h == AddViewer(GetOrCreateState(hub), v, "control")
     IN hub' = [h EXCEPT !.mirror = Snapshot(@, v), !.view[v].started = TRUE]
  /\ UNCHANGED <<run, client>>

(* The chunks that waited for this socket go first; after the first one    *)
(* the flow is not idle.                                                   *)
AttachIo(v) ==
  /\ hub.view[v].io = "none"
  /\ LET h == AddViewer(GetOrCreateState(hub), v, "io")
         chunks == h.view[v].bootstrap
         fresh == UpdateRunPressure([h EXCEPT !.view[v].flow = NewFlow,
                                              !.view[v].bootstrap = <<>>])
     IN \E quick \in BOOLEAN :
          hub' = IF chunks = <<>> THEN fresh
                 ELSE Hold(Enqueue(fresh, v, Head(chunks), quick), v, Tail(chunks))
  /\ UNCHANGED <<run, client>>

(* The browser, or the network, ends a socket.                             *)
PeerCloses(v) ==
  /\ run.closes < MaxCloses
  /\ run' = [run EXCEPT !.closes = @ + 1]
  /\ \E socket \in {"io", "control"} :
       /\ hub.view[v][socket] = "open"
       /\ hub' = [hub EXCEPT !.view[v][socket] = "closing"]
  /\ UNCHANGED client

IoClosed(v) ==
  /\ hub.view[v].io = "closing"
  /\ hub' = LET h == CloseFlow([hub EXCEPT !.view[v] = IoEnds(@)], v)
            IN CleanupViewer(h, v)
  /\ UNCHANGED <<run, client>>

ControlClosed(v) ==
  /\ hub.view[v].control = "closing"
  /\ hub' = CleanupViewer([hub EXCEPT !.view[v] = ControlEnds(@)], v)
  /\ UNCHANGED <<run, client>>

(* The timers: 4 ms, 16 ms, and twice 5 s.                                 *)
FlushTimer(v) ==
  /\ hub.view[v].flow.flushing
  /\ hub' = Flush(hub, v)
  /\ UNCHANGED <<run, client>>

ResumeTimer(v) ==
  /\ hub.view[v].flow.checking
  /\ hub' = CheckResume(hub, v)
  /\ UNCHANGED <<run, client>>

AckDeadline(v) ==
  /\ hub.view[v].flow.deadline
  /\ hub' = DisconnectViewer(hub, v)
  /\ UNCHANGED <<run, client>>

HandshakeTimeout(v) ==
  /\ hub.view[v].handshake
  /\ hub' = DisconnectViewer(hub, v)
  /\ UNCHANGED <<run, client>>

AckArrives(v) ==
  /\ hub.view[v].acks # <<>>
  /\ hub.view[v].control = "open"
  /\ hub' = Ack([hub EXCEPT !.view[v].acks = Tail(@)], v, Head(hub.view[v].acks))
  /\ UNCHANGED <<run, client>>

-----------------------------------------------------------------------------
(* The browser.  It acknowledges a frame when xterm has written it, while  *)
(* its control socket is open.                                             *)
Acknowledge(h, v, sizes) ==
  IF h.view[v].control = "open"
  THEN [h EXCEPT !.view[v].acks = @ \o sizes] ELSE h

Sizes(frames) == [i \in DOMAIN frames |-> Len(frames[i])]

FrameArrives(v) ==
  /\ hub.view[v].frames # <<>>
  /\ LET frame == Head(hub.view[v].frames)
         taken == [hub EXCEPT !.view[v].frames = Tail(@)]
     IN IF client[v].restored = "yes"
        THEN /\ client' = [client EXCEPT ![v].shown = @ \o frame]
             /\ hub' = Acknowledge(taken, v, <<Len(frame)>>)
        ELSE /\ client' = [client EXCEPT ![v].pending = Append(@, frame)]
             /\ hub' = taken
  /\ UNCHANGED run

RestoreArrives(v) ==
  /\ hub.view[v].restore # <<>>
  /\ client' = [client EXCEPT ![v].restored = "writing", ![v].base = Head(hub.view[v].restore)]
  /\ hub' = [hub EXCEPT !.view[v].restore = <<>>]
  /\ UNCHANGED run

(* completeRestore: what arrived meanwhile is written behind the snapshot. *)
RestoreCompletes(v) ==
  /\ client[v].restored = "writing"
  /\ client' = [client EXCEPT ![v].restored = "yes", ![v].pending = <<>>,
                              ![v].shown = FlattenSeq(client[v].pending)]
  /\ hub' = Acknowledge(hub, v, Sizes(client[v].pending))
  /\ UNCHANGED run

-----------------------------------------------------------------------------
Timers(v) == FlushTimer(v) \/ ResumeTimer(v) \/ AckDeadline(v) \/ HandshakeTimeout(v)

Browser(v) == FrameArrives(v) \/ RestoreArrives(v) \/ RestoreCompletes(v)

Next ==
  \/ Output
  \/ Exit
  \/ MirrorTurn
  \/ \E v \in Viewers :
       \/ AttachControl(v)
       \/ AttachIo(v)
       \/ PeerCloses(v)
       \/ IoClosed(v)
       \/ ControlClosed(v)
       \/ Timers(v)
       \/ AckArrives(v)
       \/ Browser(v)

Spec == Init /\ [][Next]_vars

(* Only what the server can rely on: its own timers fire.  Browsers may    *)
(* stop reading and acknowledging at any time, and close events may be     *)
(* lost.                                                                   *)
TimerDue(v) ==
  LET w == hub.view[v]
  IN \/ w.flow.flushing \/ w.flow.deadline \/ w.handshake
     \/ w.flow.checking /\ CanResume(w)

FairSpec ==
  /\ Spec
  /\ \A v \in Viewers : []<>~TimerDue(v) \/ []<><<Timers(v)>>_vars

-----------------------------------------------------------------------------
(* A terminal shows the snapshot and then every later chunk once and in    *)
(* order, whichever of its two sockets is first, whatever was under way in *)
(* the mirror, the bootstrap buffer, the flow or the browser's restore     *)
(* buffer; and that last buffer never exceeds the viewer's limit, so the   *)
(* browser's own limit (terminal-client.ts:162) is never what ends it.     *)
SnapshotThenStream ==
  \A v \in Viewers :
    /\ client[v].restored = "yes" =>
         \A i \in DOMAIN client[v].shown : client[v].shown[i] = client[v].base + i
    /\ Len(FlattenSeq(client[v].pending)) <= ViewerMax

(* A PTY that was paused for slow viewers is resumed, though they never    *)
(* acknowledge again: the deadline disconnects them (terminal-flow-        *)
(* control.ts:79).                                                         *)
PausedRunResumes == []<>~hub.ptyPaused

(* Output that the server holds back for a viewer is sent or given up with *)
(* the viewer: the last of it does not wait for more output to follow it.  *)
Holds(v) == /\ hub.view[v].bootstrap # <<>> \/ hub.view[v].flow.pending # <<>>
            /\ hub.view[v].io # "closed"

HeldOutputIsSent == []<>(\A v \in Viewers : ~Holds(v))

=============================================================================
