--------------------------- MODULE ChildSupervisor ---------------------------
(***************************************************************************)
(* The task that supervises the program under inspection: child_supervisor *)
(* in src/app.rs, with terminate_child of src/process/launcher.rs and      *)
(* wait_for_quiet_after_exit of src/process/tracking.rs.                   *)
(*                                                                         *)
(* The task waits for the child's exit or for one control message of the   *)
(* user interface.  Once the child has been reaped it polls the process    *)
(* table until the processes of the application have been gone for Settle  *)
(* units of time, and only then clears the flag `running' that the user    *)
(* interface reads to leave by itself.                                     *)
(***************************************************************************)
EXTENDS Naturals

CONSTANTS
  Procs,   \* the other processes that the tracker recognises as the application
  Settle   \* exit_settle, in units of the shortest time between two polls

ASSUME SettleAssumption == Settle \in Nat \ {0}   \* 30s over 1s in the code

VARIABLES
  child,    \* the child process, as the operating system sees it
  signal,   \* the strongest signal sent to the child
  tracked,  \* the processes of Procs that are alive
  pc,       \* where child_supervisor stands
  control,  \* what the oneshot channel carries
  rxDone,   \* the receiver has already completed
  running,  \* the AtomicBool shared with the user interface
  result,   \* what the task's JoinHandle yields
  seen,     \* the active processes of the last snapshot
  quiet,    \* 0: quiet_since is None; n > 0: it was set n - 1 units ago
  summary,  \* wait_for_quiet_after_exit returned Ok
  calm      \* history: time since a snapshot last met a tracked process, <= Settle

supVars == <<child, signal, tracked, pc, control, rxDone, running, result,
             seen, quiet, summary, calm>>

AtMost(cap, n) == IF n > cap THEN cap ELSE n

Watching == {"snapshot", "judge", "sleep"}
ControlMessages == {"terminate", "detach", "closed"}

ControlTypeOK ==
  /\ child \in {"none", "running", "exited", "reaped"}
  /\ signal \in {"none", "term", "kill"}
  /\ tracked \in SUBSET Procs
  /\ pc \in {"idle", "wait", "grace", "killed", "returned"} \cup Watching
  /\ control \in {"none"} \cup ControlMessages
  /\ rxDone \in BOOLEAN
  /\ running \in BOOLEAN
  /\ result \in {"pending", "exit", "none", "error", "panic"}
  /\ summary \in BOOLEAN

QuietTypeOK ==
  /\ seen \in SUBSET Procs
  /\ quiet \in 0 .. Settle + 1
  /\ calm \in 0 .. Settle

SupTypeOK == ControlTypeOK /\ QuietTypeOK

-----------------------------------------------------------------------------
(* The world: the child and the other processes of the application.        *)

ChildExits ==
  /\ child = "running"
  /\ child' = "exited"
  /\ UNCHANGED <<signal, tracked, pc, control, rxDone, running, result,
                 seen, quiet, summary, calm>>

\* A process of the application starts (a restart, a helper) or stops.
ProcChanges(p) ==
  /\ tracked' = IF p \in tracked THEN tracked \ {p} ELSE tracked \cup {p}
  /\ UNCHANGED <<child, signal, pc, control, rxDone, running, result,
                 seen, quiet, summary, calm>>

World == ChildExits \/ \E p \in Procs : ProcChanges(p)

\* oneshot::Sender::send, or the sender dropped ("closed").
Send(c) ==
  /\ control = "none"
  /\ control' = c
  /\ UNCHANGED <<child, signal, tracked, pc, rxDone, running, result,
                 seen, quiet, summary, calm>>

-----------------------------------------------------------------------------
(* The first select!: the child's exit or a control message.               *)

\* Mutant: the status is reported without waiting for the child.
ReapWithoutWait ==
  /\ result' = "exit" /\ pc' = "snapshot"
  /\ UNCHANGED child

\* A status of the child was obtained: wait() reaped it, the watch begins.
Reap ==
  /\ child = "exited"
  /\ child' = "reaped"
  /\ result' = "exit"
  /\ pc' = "snapshot"

\* A `?' leaves the task early: the flag is not cleared.
Fail ==
  /\ result' = "error"
  /\ pc' = "returned"
  /\ UNCHANGED child

\* The last two lines of the task.
Return ==
  /\ running' = FALSE
  /\ pc' = "returned"

WaitReturns ==
  /\ pc = "wait"
  /\ Reap \/ (child = "exited" /\ Fail)
  /\ UNCHANGED <<signal, tracked, control, rxDone, running, seen, quiet,
                 summary, calm>>

\* Mutant: terminate_child kills at once.
ControlTerminateKills ==
  /\ pc = "wait" /\ control = "terminate"
  /\ rxDone' = TRUE
  /\ signal' = "kill" /\ pc' = "killed"
  /\ UNCHANGED <<child, result, tracked, control, running, seen, quiet, summary, calm>>

\* terminate_child: try_wait first, then SIGTERM, which may fail.
ControlTerminate ==
  /\ pc = "wait" /\ control = "terminate"
  /\ rxDone' = TRUE
  /\ \/ Reap /\ UNCHANGED signal
     \/ child = "running" /\ Fail /\ UNCHANGED signal
     \/ /\ child = "running"
        /\ signal' = "term" /\ pc' = "grace"
        /\ UNCHANGED <<child, result>>
  /\ UNCHANGED <<tracked, control, running, seen, quiet, summary, calm>>

ControlDetach ==
  /\ pc = "wait" /\ control \in {"detach", "closed"}
  /\ rxDone' = TRUE
  /\ result' = "none"
  /\ Return
  /\ UNCHANGED <<child, signal, tracked, control, seen, quiet, summary, calm>>

-----------------------------------------------------------------------------
(* terminate_child's select!: the grace period or the child's exit.        *)

GraceExit ==
  /\ pc = "grace"
  /\ Reap \/ (child = "exited" /\ Fail)
  /\ UNCHANGED <<signal, tracked, control, rxDone, running, seen, quiet,
                 summary, calm>>

\* start_kill, then wait.
GraceExpires ==
  /\ pc = "grace"
  /\ \/ signal' = "kill" /\ pc' = "killed" /\ UNCHANGED <<child, result>>
     \/ Fail /\ UNCHANGED signal
  /\ UNCHANGED <<tracked, control, rxDone, running, seen, quiet, summary, calm>>

KillReturns ==
  /\ pc = "killed"
  /\ Reap \/ (child = "exited" /\ Fail)
  /\ UNCHANGED <<signal, tracked, control, rxDone, running, seen, quiet,
                 summary, calm>>

-----------------------------------------------------------------------------
(* The second select!: the tracker or, again, the control channel.         *)

\* The receiver completed in the first select!: polling it again panics.
\* The tracker's branch is pending at that first poll (Settle > 0) unless
\* its snapshot fails at once, which is SnapshotFails.
Repoll ==
  /\ pc = "snapshot" /\ rxDone
  /\ result' = "panic"
  /\ pc' = "returned"
  /\ UNCHANGED <<child, signal, tracked, control, rxDone, running, seen,
                 quiet, summary, calm>>

WatchControl ==
  /\ pc \in Watching /\ ~rxDone /\ control # "none"
  /\ rxDone' = TRUE
  /\ Return
  /\ UNCHANGED <<child, signal, tracked, control, result, seen, quiet,
                 summary, calm>>

\* active_processes: the snapshot is read by a blocking task.
Snapshot ==
  /\ pc = "snapshot" /\ ~rxDone
  /\ seen' = tracked
  /\ calm' = IF tracked = {} THEN calm ELSE 0
  /\ pc' = "judge"
  /\ UNCHANGED <<child, signal, tracked, control, rxDone, running, result,
                 quiet, summary>>

SnapshotFails ==
  /\ pc = "snapshot"
  /\ Return
  /\ UNCHANGED <<child, signal, tracked, control, rxDone, result, seen,
                 quiet, summary, calm>>

\* Mutant: quiet_since survives a poll that meets a process.
JudgeForgetsReset ==
  /\ pc = "judge"
  /\ IF seen = {} /\ quiet > Settle
     THEN summary' = TRUE /\ Return /\ UNCHANGED quiet
     ELSE /\ quiet' = IF seen = {} /\ quiet = 0 THEN 1 ELSE quiet
          /\ pc' = "sleep"
          /\ UNCHANGED <<running, summary>>
  /\ UNCHANGED <<child, signal, tracked, control, rxDone, result, seen, calm>>

\* Mutant: every quiet poll sets quiet_since anew.
JudgeRestartsQuiet ==
  /\ pc = "judge"
  /\ quiet' = IF seen = {} THEN 1 ELSE 0
  /\ pc' = "sleep"
  /\ UNCHANGED <<child, signal, tracked, control, rxDone, running, result,
                 seen, summary, calm>>

\* The body of wait_for_quiet_after_exit's loop, up to the sleep.
Judge ==
  /\ pc = "judge"
  /\ \/ /\ seen # {}
        /\ quiet' = 0 /\ pc' = "sleep"
        /\ UNCHANGED <<running, summary>>
     \/ /\ seen = {} /\ quiet <= Settle
        /\ quiet' = IF quiet = 0 THEN 1 ELSE quiet
        /\ pc' = "sleep"
        /\ UNCHANGED <<running, summary>>
     \/ /\ seen = {} /\ quiet > Settle
        /\ summary' = TRUE /\ Return
        /\ UNCHANGED quiet
  /\ UNCHANGED <<child, signal, tracked, control, rxDone, result, seen, calm>>

\* sleep(poll_interval): d units pass, more than one when the poll was slow.
Sleep(d) ==
  /\ pc = "sleep"
  /\ quiet' = IF quiet = 0 THEN 0 ELSE AtMost(Settle + 1, quiet + d)
  /\ calm' = AtMost(Settle, calm + d)
  /\ pc' = "snapshot"
  /\ UNCHANGED <<child, signal, tracked, control, rxDone, running, result,
                 seen, summary>>

-----------------------------------------------------------------------------
TakesControl == ControlTerminate \/ ControlDetach \/ WatchControl

Supervise ==
  \/ WaitReturns \/ TakesControl
  \/ GraceExit \/ GraceExpires \/ KillReturns
  \/ Repoll \/ Snapshot \/ SnapshotFails \/ Judge
  \/ \E d \in 1 .. Settle : Sleep(d)

SupNext == World \/ Supervise \/ \E c \in ControlMessages : Send(c)

-----------------------------------------------------------------------------
(* Properties.                                                             *)

\* A result that claims an exit status has one: the child was reaped.  The flag
\* the user interface trusts is cleared only for a child that is gone or that
\* the user let go, and is cleared by every task that ends in good order.
FlagIsHonest ==
  /\ result = "exit" => child = "reaped"
  /\ ~running => child = "reaped" \/ control \in {"detach", "closed"}
  /\ pc = "returned" /\ result \in {"exit", "none"} => ~running

\* No signal is sent unless the user chose to terminate, SIGKILL comes after
\* SIGTERM only, and none is sent once the child was reaped and its pid is free
\* for another process (terminate_child, soft_terminate).
SignalsOnlyTheLiveChild ==
  [][signal' # signal =>
       /\ control = "terminate" /\ child # "reaped"
       /\ signal' = "kill" => signal = "term"]_supVars

\* When the tracker reports the lifecycle quiet, no poll has met a process of
\* the application for Settle units: a restart always starts the wait again.
QuietIsObserved == summary => calm = Settle
=============================================================================
