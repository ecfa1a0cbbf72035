--------------------------- MODULE CaptureSession ---------------------------
(***************************************************************************)
(* What one PMW3610 instance promises the code that captures frames with   *)
(* it (include/cormoran/pmw3610/pmw3610_api.h).  The sensor is in one of   *)
(* three phases; navigation is only ever left through a session, and a     *)
(* session is only ever left through a restart of the whole initialisation *)
(* sequence, because the datasheet requires a reset after a frame grab.    *)
(***************************************************************************)
CONSTANT Client          \* the threads that call the capture functions

VARIABLES
  phase,                 \* what the sensor is doing
  users                  \* the callers between begin() and end()

vars == <<phase, users>>

Phase == {"starting", "navigating", "session"}

TypeOK ==
  /\ phase \in Phase
  /\ users \subseteq Client

Init ==
  /\ phase = "starting"
  /\ users = {}

(* The asynchronous initialisation reaches its end: pmw3610_is_ready().    *)
Up ==
  /\ phase = "starting"
  /\ phase' = "navigating"
  /\ UNCHANGED users

(* Power management takes a navigating sensor down.                        *)
Down ==
  /\ phase = "navigating"
  /\ phase' = "starting"
  /\ UNCHANGED users

(* pmw3610_frame_capture_begin() is accepted.                              *)
Open(c) ==
  /\ phase = "navigating"
  /\ users = {}
  /\ phase' = "session"
  /\ users' = {c}

(* pmw3610_frame_capture_end(), or a begin() that failed half way.         *)
Close(c) ==
  /\ phase = "session"
  /\ users = {c}
  /\ phase' = "starting"
  /\ users' = {}

Next ==
  \/ Up
  \/ Down
  \/ \E c \in Client : Open(c) \/ Close(c)

Spec == Init /\ [][Next]_vars
=============================================================================
