--------------------------- MODULE ScheduledPromise ---------------------------
(***************************************************************************)
(* What a scheduled message promises its author, whatever the editors and   *)
(* the workers do at the same time: it can be edited while it is pending,   *)
(* and is then settled once, by sending the last saved text, by a           *)
(* cancellation or by a failure, in which case nothing is sent.             *)
(***************************************************************************)
EXTENDS Naturals

VARIABLES
  status,    \* of the scheduled message
  content,   \* its text: the number of the last save that landed
  message    \* the text of the message in the stream, NotSent if there is none

NotSent == 0

promiseVars == <<status, content, message>>

PromiseInit ==
  /\ status = "none" /\ content = 0 /\ message = NotSent

PromiseSchedule ==
  /\ status = "none" /\ status' = "pending"
  /\ content' = 1
  /\ UNCHANGED message

PromiseSave ==
  /\ status = "pending"
  /\ content' = content + 1
  /\ UNCHANGED <<status, message>>

\* A save whose time has passed sends what it saves.
PromiseSend ==
  /\ status = "pending" /\ status' = "sent"
  /\ content' \in {content, content + 1}
  /\ message' = content'

PromiseGiveUp ==
  /\ status = "pending" /\ status' \in {"cancelled", "failed"}
  /\ UNCHANGED <<content, message>>

PromiseNext == PromiseSchedule \/ PromiseSave \/ PromiseSend \/ PromiseGiveUp

PromiseSpec == PromiseInit /\ [][PromiseNext]_promiseVars
=============================================================================
