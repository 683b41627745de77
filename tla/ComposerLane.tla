---------------------------- MODULE ComposerLane ----------------------------
(***************************************************************************)
(* What delivery promises to a recipient's terminal.                       *)
(*                                                                         *)
(* Each recipient has a lane of messages.  One message at a time holds the *)
(* composer of the recipient, taken in order; only its holder is shown in  *)
(* the terminal, once.  A message that was not shown may go back to wait;  *)
(* one that was shown stays until it is settled, or until a person asks    *)
(* for one more copy.                                                      *)
(***************************************************************************)
EXTENDS Naturals

CONSTANTS
  Messages,     \* a set of natural numbers; lower ones were sent earlier
  Recipients,
  Nobody        \* the recipient of a message that was not sent yet

VARIABLES
  to,           \* the recipient of each message
  place,        \* where each message is
  shown         \* the messages shown in the terminal since the last resend

vars == <<to, place, shown>>

Places == {"unsent", "waiting", "holding", "settled"}

LaneTypeOK ==
  /\ to \in [Messages -> Recipients \cup {Nobody}]
  /\ place \in [Messages -> Places]
  /\ shown \subseteq Messages

SameLane(m, n) == m # n /\ to[m] = to[n]

Init ==
  /\ to = [m \in Messages |-> Nobody]
  /\ place = [m \in Messages |-> "unsent"]
  /\ shown = {}

(* A message that was sent may be settled at any time. *)
SettledOrKept(m) ==
  \/ place'[m] = place[m]
  \/ place[m] \in {"waiting", "holding"} /\ place'[m] = "settled"

(* Work is sent, and by the same step other messages may be settled: a     *)
(* report settles its dispatch, a cancellation what it makes pointless.    *)
Send(m, r) ==
  /\ place[m] = "unsent"
  /\ \A n \in Messages : n < m => place[n] # "unsent"
  /\ to' = [to EXCEPT ![m] = r]
  /\ place' \in [Messages -> Places]
  /\ place'[m] = "waiting"
  /\ \A n \in Messages \ {m} : SettledOrKept(n)
  /\ UNCHANGED shown

Settle ==
  /\ place' \in [Messages -> Places]
  /\ \A m \in Messages : SettledOrKept(m)
  /\ UNCHANGED <<to, shown>>

(* The head of a lane takes the composer that nobody holds. *)
Take(m) ==
  /\ place[m] = "waiting"
  /\ \A n \in Messages : SameLane(m, n) =>
       /\ place[n] # "holding"
       /\ n < m => place[n] = "settled"
  /\ place' = [place EXCEPT ![m] = "holding"]
  /\ UNCHANGED <<to, shown>>

Show(m) ==
  /\ place[m] = "holding" /\ m \notin shown
  /\ shown' = shown \cup {m}
  /\ UNCHANGED <<to, place>>

(* Holders that were not shown go back to wait; a crash gives back many.   *)
GiveBack ==
  /\ place' \in [Messages -> Places]
  /\ \A m \in Messages :
       \/ place'[m] = place[m]
       \/ place[m] = "holding" /\ m \notin shown /\ place'[m] = "waiting"
  /\ UNCHANGED <<to, shown>>

(* A person asks for another copy. *)
Resend(m) ==
  /\ place[m] \in {"waiting", "holding"}
  /\ place' = [place EXCEPT ![m] = "waiting"]
  /\ shown' = shown \ {m}
  /\ UNCHANGED to

Next ==
  \/ \E m \in Messages :
       (\E r \in Recipients : Send(m, r)) \/ Take(m) \/ Show(m) \/ Resend(m)
  \/ Settle \/ GiveBack

Spec == Init /\ [][Next]_vars

(* Only one message at a time holds a composer, and never ahead of an      *)
(* earlier one.                                                            *)
OneHolder ==
  \A m, n \in Messages :
    SameLane(m, n) /\ place[m] = "holding" =>
      place[n] # "holding" /\ (n < m => place[n] = "settled")

=============================================================================
