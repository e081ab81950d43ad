--------------------------- MODULE GatewayClient ---------------------------
(***************************************************************************)
(* One call of executeHttp of the client package: the request to the       *)
(* gateway under a composed abort signal, the classification of its        *)
(* answer, the stream handed to the caller, and the watch that asks the    *)
(* control service whether the execution ended with an incomplete          *)
(* response.  The timeout, the caller's signal, the caller's cancel, the   *)
(* reader and the answers of the control service come in any order.        *)
(***************************************************************************)
EXTENDS Naturals

CONSTANT MaxAttempts   \* 60 in the code

VARIABLES
  phase,      \* preparing, fetching, classifying, streaming, done, thrown
  aborted,    \* why the composed signal was aborted, or "no"
  armed,      \* the timer and the listener on the caller's signal are set
  kind,       \* what the gateway's answer proves to be
  reading,    \* a read of the gateway's body is under way
  outcome,    \* how the stream handed to the caller ended
  watch,      \* off, waiting (for its timer), asking or stopped
  attempts,   \* requests sent to the control service
  polled,     \* a request to the control service is under way
  recorded    \* what the gateway recorded about this execution

clientVars ==
  <<phase, aborted, armed, kind, reading, outcome, watch, attempts, polled,
    recorded>>

Reasons == {"parent", "timeout", "report", "consumer"}

(* source of the classification, and whether the answer has a body and a  *)
(* report handle; only a verified target answer has the latter.            *)
Kinds ==
  {k \in [source : {"target", "other"}, body : BOOLEAN, report : BOOLEAN] :
     k.report => k.source = "target"}

(* A report as parsed: does it carry this execution's report id, request   *)
(* id and status, and what does it say.  Reports of other executions come  *)
(* from a control service that is not the gateway's.                       *)
Reports ==
  {[own |-> FALSE, says |-> s] : s \in {"complete", "incomplete"}}
    \cup {[own |-> TRUE, says |-> recorded] : x \in {recorded} \ {"running"}}

Init ==
  /\ phase = "preparing" /\ aborted = "no" /\ armed = FALSE
  /\ kind = [source |-> "other", body |-> FALSE, report |-> FALSE]
  /\ reading = FALSE /\ outcome = "none"
  /\ watch = "off" /\ attempts = 0 /\ polled = FALSE
  /\ recorded = "running"

-----------------------------------------------------------------------------
(* A stream that was cancelled, failed or closed ignores what comes later. *)
Ended == phase # "streaming"

(* stopReportWatch: the timer is cleared and the request aborted.          *)
StopWatch == watch' = IF watch = "off" THEN "off" ELSE "stopped"

(* finish: the stream ends once, with the watch and the timer.             *)
Finish(how) ==
  /\ phase' = "done"
  /\ outcome' = how
  /\ armed' = FALSE
  /\ StopWatch

(* cancel of composeAbortSignal: the first reason counts; the signal's     *)
(* listeners clear the timer and end a stream that is open.                *)
Cancel(reason) ==
  IF aborted # "no"
  THEN UNCHANGED <<phase, aborted, armed, outcome, watch>>
  ELSE /\ aborted' = reason
       /\ IF Ended
          THEN armed' = FALSE /\ UNCHANGED <<phase, outcome, watch>>
          ELSE Finish(reason)

ParentAborts ==
  /\ armed /\ Cancel("parent")
  /\ UNCHANGED <<kind, reading, attempts, polled, recorded>>

TimesOut ==
  /\ armed /\ Cancel("timeout")
  /\ UNCHANGED <<kind, reading, attempts, polled, recorded>>

-----------------------------------------------------------------------------
(* The checks before the signal exists throw; nothing was sent.            *)
Refuses ==
  /\ phase = "preparing"
  /\ phase' = "thrown"
  /\ UNCHANGED <<aborted, armed, kind, reading, outcome, watch, attempts,
                 polled, recorded>>

(* The caller's signal may be aborted already.                             *)
Begins ==
  /\ phase = "preparing"
  /\ phase' = "fetching"
  /\ \/ armed' = TRUE /\ UNCHANGED aborted
     \/ armed' = FALSE /\ aborted' = "parent"
  /\ UNCHANGED <<kind, reading, outcome, watch, attempts, polled, recorded>>

(* The fetch settles; once the signal is aborted it can only fail.         *)
GatewayAnswers ==
  /\ phase = "fetching" /\ aborted = "no"
  /\ phase' = "classifying"
  /\ kind' \in Kinds
  /\ UNCHANGED <<aborted, armed, reading, outcome, watch, attempts, polled,
                 recorded>>

(* The catch block: what was armed is cleaned up before the error is       *)
(* thrown on.                                                              *)
CleansUp == armed' = FALSE

Throws ==
  /\ phase \in {"fetching", "classifying"}
  /\ phase' = "thrown"
  /\ CleansUp
  /\ UNCHANGED <<aborted, kind, reading, outcome, watch, attempts, polled,
                 recorded>>

(* The timer runs until the body has ended, not until its headers came.    *)
StaysArmed_ForHeaders == FALSE
StaysArmed == armed

(* trackResponseBody: without a body there is nothing to follow; a signal  *)
(* aborted meanwhile ends the stream at once; else the watch begins, if    *)
(* the answer names a report.                                              *)
Classifies ==
  /\ phase = "classifying"
  /\ IF ~kind.body
     THEN phase' = "done" /\ outcome' = "complete" /\ armed' = FALSE
          /\ UNCHANGED watch
     ELSE IF aborted # "no"
     THEN phase' = "done" /\ outcome' = aborted /\ armed' = FALSE
          /\ UNCHANGED watch
     ELSE /\ phase' = "streaming"
          /\ armed' = StaysArmed
          /\ watch' = IF kind.report THEN "waiting" ELSE "off"
          /\ UNCHANGED outcome
  /\ UNCHANGED <<aborted, kind, reading, attempts, polled, recorded>>

-----------------------------------------------------------------------------
(* pull: the read may settle after the stream has ended another way, which *)
(* is checked again after the await.                                       *)
ReadIsLate_Unchecked == FALSE
ReadIsLate == Ended

Reads ==
  /\ phase = "streaming" /\ ~reading
  /\ reading' = TRUE
  /\ UNCHANGED <<phase, aborted, armed, kind, outcome, watch, attempts,
                 polled, recorded>>

ReadSettles ==
  /\ reading /\ reading' = FALSE
  /\ IF ReadIsLate
     THEN UNCHANGED <<phase, armed, outcome, watch>>
     ELSE \/ UNCHANGED <<phase, armed, outcome, watch>>      \* a chunk
          \/ Finish("complete")
          \/ Finish("broken")
  /\ UNCHANGED <<aborted, kind, attempts, polled, recorded>>

(* cancel: the stream ends first, then the signal is aborted.              *)
ConsumerCancels ==
  /\ phase = "streaming"
  /\ Finish("consumer")
  /\ aborted' = IF aborted = "no" THEN "consumer" ELSE aborted
  /\ UNCHANGED <<kind, reading, attempts, polled, recorded>>

-----------------------------------------------------------------------------
(* poll: the cap, then a request with a deadline of its own.               *)
CapReached == attempts = MaxAttempts

Polls ==
  /\ watch = "waiting"
  /\ IF CapReached
     THEN watch' = "stopped" /\ UNCHANGED <<attempts, polled>>
     ELSE watch' = "asking" /\ attempts' = attempts + 1 /\ polled' = TRUE
  /\ UNCHANGED <<phase, aborted, armed, kind, reading, outcome, recorded>>

(* Not there yet, no answer before the deadline, or worth a retry: ask     *)
(* again later.                                                            *)
PollAgain ==
  /\ polled /\ polled' = FALSE
  /\ watch' = IF watch = "asking" THEN "waiting" ELSE watch
  /\ UNCHANGED <<phase, aborted, armed, kind, reading, outcome, attempts,
                 recorded>>

(* Refused, redirected, too long or malformed: the watch ends.             *)
PollUnavailable ==
  /\ polled /\ polled' = FALSE
  /\ watch' = IF watch = "asking" THEN "stopped" ELSE watch
  /\ UNCHANGED <<phase, aborted, armed, kind, reading, outcome, attempts,
                 recorded>>

(* Report id, request id and status must be this execution's.              *)
Agrees(report) == report.own

(* A report: the watch is over, and if it says that this execution ended   *)
(* without a complete body, the signal is aborted with that error.         *)
ReportComes ==
  /\ polled /\ polled' = FALSE
  /\ \E report \in Reports :
       IF watch # "asking"
       THEN UNCHANGED <<phase, aborted, armed, outcome, watch>>
       ELSE IF Agrees(report) /\ report.says = "incomplete"
       THEN /\ Cancel("report")
            /\ watch' = "stopped"
       ELSE watch' = "stopped" /\ UNCHANGED <<phase, aborted, armed, outcome>>
  /\ UNCHANGED <<kind, reading, attempts, recorded>>

(* The gateway records how the execution ended, at any time after it       *)
(* answered: before the last byte reaches the client or after.             *)
GatewayRecords ==
  /\ phase \notin {"preparing", "fetching"} /\ recorded = "running"
  /\ recorded' \in {"complete", "incomplete"}
  /\ UNCHANGED <<phase, aborted, armed, kind, reading, outcome, watch,
                 attempts, polled>>

Next ==
  \/ Refuses \/ Begins \/ GatewayAnswers \/ Throws \/ Classifies
  \/ ParentAborts \/ TimesOut
  \/ Reads \/ ReadSettles \/ ConsumerCancels
  \/ Polls \/ PollAgain \/ PollUnavailable \/ ReportComes
  \/ GatewayRecords

(* The timers fire; an aborted fetch rejects and classifying an answer is  *)
(* computation; the deadline of a poll ends it.  Neither the gateway's     *)
(* answer, its body, nor the control service is relied on.                 *)
ClientStep == Classifies \/ (aborted # "no" /\ Throws)
PollStep == Polls \/ PollAgain

Spec ==
  /\ Init /\ [][Next]_clientVars
  /\ WF_clientVars(TimesOut)
  /\ WF_clientVars(ClientStep)
  /\ WF_clientVars(PollStep)

-----------------------------------------------------------------------------
(* The caller's stream ends once: a body delivered as complete is never    *)
(* turned into an error, and an error is never followed by a completion.   *)
StreamEndsOnce == [][outcome # "none" => outcome' = outcome]_clientVars

(* The caller is told that the execution ended incomplete only if the      *)
(* gateway recorded just that about this execution.                        *)
IncompleteIsOwn == outcome = "report" => recorded = "incomplete"

(* A call that is over leaves no timer, no listener and no watch behind,   *)
(* and so never shows its execution token to the control service again.    *)
SettledIsQuiet ==
  phase \in {"done", "thrown"} => ~armed /\ watch \notin {"waiting", "asking"}

(* Every call ends, although gateway, target and control service may       *)
(* never answer.                                                           *)
CallEnds == phase = "fetching" ~> phase \in {"done", "thrown"}
=============================================================================
