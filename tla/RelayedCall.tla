----------------------------- MODULE RelayedCall -----------------------------
(***************************************************************************)
(* What the web client promises the panel that makes one call              *)
(* (web/src/relay.ts), whatever the keyboard, its split link and its       *)
(* halves do meanwhile: a call that waits for an answer gets exactly one   *)
(* or fails, a broadcast collects answers until its window ends, and       *)
(* nothing is given to a call that is over.  The answers are its own, of   *)
(* the half they are said to be of; they may be another call's only when   *)
(* that one was made later and overtook it in the keyboard's buffers, or   *)
(* after the central has restarted and numbers its requests from 1 again.  *)
(***************************************************************************)
CONSTANTS
  Own,       \* the answers to this call
  Other      \* the answers to the other calls

VARIABLES
  phase,     \* how far the call is
  answers,   \* what it was given
  exposed    \* a later call was made, or the central has restarted

vars == <<phase, answers, exposed>>

Phase == {"idle", "waiting", "collecting", "done", "failed"}

TypeOK ==
  /\ phase \in Phase
  /\ answers \subseteq Own \cup Other
  /\ exposed \in BOOLEAN

Init ==
  /\ phase = "idle"
  /\ answers = {}
  /\ exposed = FALSE

Eligible == Own \cup (IF exposed THEN Other ELSE {})

(* callPmw3610Request, of one half or of all of them. *)
Make ==
  /\ phase = "idle"
  /\ phase' \in {"waiting", "collecting"}
  /\ UNCHANGED <<answers, exposed>>

(* The promise of the call is resolved. *)
Resolve(a) ==
  /\ phase = "waiting"
  /\ phase' = "done"
  /\ answers' = {a}
  /\ UNCHANGED exposed

(* It is rejected: the timer, or clear(). *)
Reject ==
  /\ phase = "waiting"
  /\ phase' = "failed"
  /\ UNCHANGED <<answers, exposed>>

(* A broadcast gets one more answer. *)
Collect(a) ==
  /\ phase = "collecting"
  /\ answers' = answers \cup {a}
  /\ UNCHANGED <<phase, exposed>>

(* Its window ends. *)
EndCollect ==
  /\ phase = "collecting"
  /\ phase' = "done"
  /\ UNCHANGED <<answers, exposed>>

(* A later call is relayed. *)
Overtake ==
  /\ exposed' = TRUE
  /\ UNCHANGED <<phase, answers>>

(* The central restarts, which closes the connection: a call that waits is *)
(* rejected; a broadcast is if nothing was collected, or goes on.          *)
Reset ==
  /\ exposed' = TRUE
  /\ \/ /\ phase = "waiting" \/ (phase = "collecting" /\ answers = {})
        /\ phase' = "failed"
     \/ /\ phase # "waiting"
        /\ UNCHANGED phase
  /\ UNCHANGED answers

Next ==
  \/ Make \/ Reject \/ EndCollect \/ Overtake \/ Reset
  \/ \E a \in Eligible : Resolve(a) \/ Collect(a)

Spec == Init /\ [][Next]_vars
=============================================================================
