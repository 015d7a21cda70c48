--------------------------- MODULE Session_proofs ---------------------------
(***************************************************************************)
(* The safety of a session for any number of processes and exchanges and   *)
(* every settle time: the type invariant, the quit dialog's promise, what  *)
(* a successful end means and what it has saved.  The supervisor's part    *)
(* comes first; a step of the session preserves it because it is a step of *)
(* the supervisor, a send, or leaves supVars alone.                        *)
(***************************************************************************)
EXTENDS Session, TLAPS

-----------------------------------------------------------------------------
(* The supervisor.                                                         *)

\* What each program point of child_supervisor knows of the child, of the
\* signals sent so far and of the control channel.
PcInv ==
  /\ pc = "idle" => child = "none" /\ signal = "none" /\ ~rxDone
  /\ pc = "wait" => child \in {"running", "exited"} /\ signal = "none" /\ ~rxDone
  /\ pc = "grace" => child \in {"running", "exited"} /\ signal = "term"
  /\ pc = "killed" => child \in {"running", "exited"} /\ signal = "kill"
  /\ pc \in Watching => child = "reaped" /\ result = "exit"
  /\ pc \in {"idle", "wait", "grace", "killed"} => result = "pending"
  /\ pc = "returned" => result # "pending"

\* Where a result or a signal can come from.
CauseInv ==
  /\ signal # "none" \/ pc = "grace" => control = "terminate"
  /\ result = "none" => control \in {"detach", "closed"}
  /\ result = "panic" => child = "reaped"

\* The time for which the tracker believes in quiet is covered by the time in
\* which no snapshot met a process, except between a snapshot that did meet
\* one and the reset it causes.
QuietInv ==
  /\ pc \in {"idle", "wait", "grace", "killed"} => quiet = 0
  /\ summary => pc = "returned" /\ calm = Settle
  /\ pc \in Watching /\ quiet > 0 /\ ~(pc = "judge" /\ seen # {})
       => quiet - 1 <= calm

CtlInv == ControlTypeOK /\ FlagIsHonest /\ PcInv /\ CauseInv
TimeInv == QuietTypeOK /\ QuietInv
SupInv == CtlInv /\ TimeInv

\* The invariant falls into the control of the task and its arithmetic, which
\* are proved apart.
LEMMA WorldCtl == CtlInv /\ World => CtlInv'
<1> SUFFICES ASSUME CtlInv, World PROVE CtlInv'
  OBVIOUS
<1> USE DEF CtlInv, ControlTypeOK, FlagIsHonest, PcInv, CauseInv, Watching
<1>1. CASE ChildExits
  BY <1>1 DEF ChildExits
<1>2. ASSUME NEW p \in Procs, ProcChanges(p) PROVE CtlInv'
  BY <1>2 DEF ProcChanges
<1> QED
  BY <1>1, <1>2 DEF World

LEMMA SendCtl ==
  ASSUME NEW c \in ControlMessages, CtlInv, Send(c)
  PROVE  CtlInv'
  BY DEF Send, ControlMessages, CtlInv, ControlTypeOK, FlagIsHonest, PcInv,
         CauseInv, Watching

\* One step per action of the task.
LEMMA SuperviseCtl == CtlInv /\ Supervise => CtlInv'
<1> SUFFICES ASSUME CtlInv, Supervise PROVE CtlInv'
  OBVIOUS
<1> USE DEF CtlInv, ControlTypeOK, FlagIsHonest, PcInv, CauseInv, Watching,
            ControlMessages
<1>1. CASE WaitReturns
  BY <1>1 DEF WaitReturns, Reap, Fail
<1>2. CASE ControlTerminate
  BY <1>2 DEF ControlTerminate, Reap, Fail
<1>3. CASE ControlDetach
  BY <1>3 DEF ControlDetach, Return
<1>4. CASE WatchControl
  BY <1>4 DEF WatchControl, Return
<1>5. CASE GraceExit
  BY <1>5 DEF GraceExit, Reap, Fail
<1>6. CASE GraceExpires
  BY <1>6 DEF GraceExpires, Fail
<1>7. CASE KillReturns
  BY <1>7 DEF KillReturns, Reap, Fail
<1>8. CASE Repoll
  BY <1>8 DEF Repoll
<1>9. CASE Snapshot
  BY <1>9 DEF Snapshot
<1>10. CASE SnapshotFails
  BY <1>10 DEF SnapshotFails, Return
<1>11. CASE Judge
  BY <1>11 DEF Judge, Return
<1>12. ASSUME NEW d \in 1 .. Settle, Sleep(d) PROVE CtlInv'
  BY <1>12 DEF Sleep
<1> QED
  BY <1>1, <1>2, <1>3, <1>4, <1>5, <1>6, <1>7, <1>8, <1>9, <1>10, <1>11, <1>12
  DEF Supervise, TakesControl

\* Only Snapshot, Judge and Sleep touch the arithmetic; the other steps of the
\* task leave it alone and enter the watch, if at all, with quiet = 0.
LEMMA TimeStep == SupInv /\ [SupNext]_supVars => TimeInv'
<1> SUFFICES ASSUME SupInv, [SupNext]_supVars PROVE TimeInv'
  OBVIOUS
<1> USE SettleAssumption DEF SupInv, TimeInv, QuietTypeOK, QuietInv, Watching
<1>1. CASE Snapshot
  <2>1. tracked \in SUBSET Procs
    BY DEF CtlInv, ControlTypeOK
  <2> QED
    BY <1>1, <2>1 DEF Snapshot
<1>2. CASE Judge
  BY <1>2 DEF Judge, Return
<1>3. ASSUME NEW d \in 1 .. Settle, Sleep(d) PROVE TimeInv'
  BY <1>3 DEF Sleep, AtMost
<1>4. ASSUME ~Snapshot, ~Judge, ~(\E d \in 1 .. Settle : Sleep(d))
      PROVE  TimeInv'
  <2>1. /\ UNCHANGED <<seen, quiet, calm, summary>>
        /\ \/ pc' = pc
           \/ pc \in {"idle", "wait"} /\ pc' = "grace"
           \/ pc = "grace" /\ pc' = "killed"
           \/ pc \in {"idle", "wait", "grace", "killed"} /\ pc' = "snapshot"
           \/ pc # "returned" /\ ~summary /\ pc' = "returned"
    BY <1>4
    DEF supVars, SupNext, World, ChildExits, ProcChanges, Send, Supervise,
        TakesControl, WaitReturns, ControlTerminate, ControlDetach,
        WatchControl, GraceExit, GraceExpires, KillReturns, Repoll,
        SnapshotFails, Reap, Fail, Return
  <2> QED
    BY <2>1
<1> QED
  BY <1>1, <1>2, <1>3, <1>4

LEMMA SupStepInv == SupInv /\ [SupNext]_supVars => SupInv'
<1>1. CtlInv /\ UNCHANGED supVars => CtlInv'
  BY DEF supVars, CtlInv, ControlTypeOK, FlagIsHonest, PcInv, CauseInv, Watching
<1> QED
  BY <1>1, WorldCtl, SendCtl, SuperviseCtl, TimeStep DEF SupNext, SupInv

\* Signals: only on request, in order, and never after the child was reaped.
SignalStep ==
  signal' # signal =>
    /\ control = "terminate" /\ child # "reaped"
    /\ signal' = "kill" => signal = "term"

LEMMA SignalStepHolds == SupInv /\ [SupNext]_supVars => SignalStep
<1> SUFFICES ASSUME SupInv, [SupNext]_supVars, signal' # signal
             PROVE  /\ control = "terminate" /\ child # "reaped"
                    /\ signal' = "kill" => signal = "term"
  BY DEF SignalStep
<1>1. ControlTerminate \/ GraceExpires
  BY DEF supVars, SupNext, World, ChildExits, ProcChanges, Send, Supervise,
         TakesControl, WaitReturns, ControlDetach, WatchControl, GraceExit,
         KillReturns, Repoll, Snapshot, SnapshotFails, Judge, Sleep
<1>2. CASE ControlTerminate
  BY <1>2 DEF ControlTerminate, SupInv, CtlInv, PcInv
<1>3. CASE GraceExpires
  BY <1>3 DEF GraceExpires, SupInv, CtlInv, PcInv, CauseInv
<1> QED
  BY <1>1, <1>2, <1>3

-----------------------------------------------------------------------------
(* The session.                                                            *)

SessionTypeOK ==
  /\ mode \in {"run", "proxy"} /\ save \in BOOLEAN
  /\ main \in {"start", "spawn", "tui"} \cup Leaving \cup Ended
  /\ choice \in {"none", "terminate", "leave", "auto", "error"}
  /\ proxy \in {"off", "listening", "broken", "stopped"}
  /\ exchange \in [Exchanges -> {"idle", "open", "recorded", "dropped"}]
  /\ store \in SUBSET Exchanges
  /\ copied \in SUBSET Exchanges
  /\ file \in {"absent", "torn", "saved"}

\* What the main task's position says about the supervisor and the channel.
MainInv ==
  /\ mode = "proxy" \/ main \in {"start", "spawn"} => pc = "idle"
  /\ main = "spawn" => mode = "run"
  /\ main \in {"start", "spawn", "tui"} => control = "none" /\ choice = "none"
  /\ mode = "run" /\ main \in {"stop", "save", "write", "done"}
       => pc = "returned" /\ result \in {"exit", "none"}
  /\ mode = "run" /\ choice = "terminate" /\ main \in Ended => pc = "returned"

\* What the user's choice says about the child and the channel.
ChoiceInv ==
  /\ control = "terminate" => choice = "terminate"
  /\ mode = "run" /\ choice = "terminate" => control = "terminate"
  /\ choice = "auto" => child = "reaped"

\* The order of the last steps.
CloseInv ==
  /\ main \in {"save", "write", "done"} => proxy = "stopped"
  /\ main = "done" /\ save => file = "saved"

MainStateInv == SessionTypeOK /\ MainInv /\ ChoiceInv /\ CloseInv
SessionInv == SupInv /\ MainStateInv

LEMMA InitInv == Init => SessionInv
<1>1. Init => CtlInv
  BY DEF Init, CtlInv, ControlTypeOK, FlagIsHonest, PcInv, CauseInv, Watching
<1>2. Init => TimeInv
  BY SettleAssumption DEF Init, TimeInv, QuietTypeOK, QuietInv, Watching
<1>3. Init => MainStateInv
  BY DEF Init, MainStateInv, SessionTypeOK, MainInv, ChoiceInv, CloseInv, Leaving,
         Ended
<1> QED
  BY <1>1, <1>2, <1>3 DEF SupInv, SessionInv

\* Every step of the session is one of the supervisor, its launch, or neither.
LEMMA SupervisorMoves == [Next]_vars => [SupNext]_supVars \/ SpawnChild
  BY DEF vars, Next, Startup, SetupFails, StartProxy, User, QuitTerminate,
         QuitLeave, AutoExit, Leave, TuiFails, ClearSession, MainStep,
         JoinSupervisor, StopProxy, CopyEntries, WriteFile, ProxyStep,
         AcceptFails, OpenExchange, EndExchange, SupervisorStep, WorldStep,
         SupNext, ControlMessages

\* The session's steps preserve the supervisor's invariant.
LEMMA SupPart == SessionInv /\ [Next]_vars => SupInv'
<1> SUFFICES ASSUME SessionInv, [Next]_vars PROVE SupInv'
  OBVIOUS
<1>1. CASE [SupNext]_supVars
  BY <1>1, SupStepInv DEF SessionInv
<1>2. CASE SpawnChild
  <2>1. /\ \/ child' = "running" /\ pc' = "wait" /\ pc = "idle"
           \/ UNCHANGED <<child, pc>>
        /\ UNCHANGED <<signal, tracked, control, rxDone, running, result,
                       seen, quiet, summary, calm>>
    BY <1>2 DEF SpawnChild, SessionInv, MainStateInv, MainInv
  <2>2. CtlInv'
    <3>1. control = "none"
      BY <1>2 DEF SpawnChild, SessionInv, MainStateInv, MainInv
    <3> QED
      BY <2>1, <3>1
      DEF SessionInv, SupInv, CtlInv, ControlTypeOK, FlagIsHonest, PcInv,
          CauseInv, Watching
  <2>3. TimeInv'
    BY <2>1, SettleAssumption
    DEF SessionInv, SupInv, TimeInv, QuietTypeOK, QuietInv, Watching
  <2> QED
    BY <2>2, <2>3 DEF SupInv
<1> QED
  BY <1>1, <1>2, SupervisorMoves

\* The session's own invariant, one step per group of actions.
LEMMA MainPart == SessionInv /\ [Next]_vars => MainStateInv'
<1> SUFFICES ASSUME SessionInv, [Next]_vars PROVE MainStateInv'
  OBVIOUS
<1>0. CtlInv /\ MainStateInv
  BY DEF SessionInv, SupInv
<1> USE <1>0 DEF MainStateInv, SessionTypeOK, MainInv, ChoiceInv, CloseInv,
                 Leaving, Ended
<1>1. CASE SetupFails
  BY <1>1 DEF SetupFails, supVars
<1>2. CASE StartProxy
  BY <1>2 DEF StartProxy, supVars
<1>3. CASE SpawnChild
  BY <1>3 DEF SpawnChild
<1>4. CASE QuitTerminate \/ QuitLeave
  BY <1>4 DEF QuitTerminate, QuitLeave, Leave, Send, supVars
<1>5. CASE AutoExit
  BY <1>5 DEF AutoExit, Leave, Send, CtlInv, FlagIsHonest
<1>6. CASE TuiFails
  BY <1>6 DEF TuiFails, Send, supVars
<1>7. CASE ClearSession
  BY <1>7 DEF ClearSession, supVars
<1>8. CASE JoinSupervisor
  BY <1>8 DEF JoinSupervisor, supVars
<1>9. CASE StopProxy
  BY <1>9 DEF StopProxy, supVars
<1>10. CASE CopyEntries
  BY <1>10 DEF CopyEntries, supVars
<1>11. CASE WriteFile
  BY <1>11 DEF WriteFile, supVars
<1>12. CASE AcceptFails
  BY <1>12 DEF AcceptFails, supVars
<1>13. ASSUME NEW e \in Exchanges, OpenExchange(e) PROVE MainStateInv'
  BY <1>13 DEF OpenExchange, supVars
<1>14. ASSUME NEW e \in Exchanges, EndExchange(e) PROVE MainStateInv'
  BY <1>14 DEF EndExchange, supVars
<1>15. CASE SupervisorStep
  <2>1. /\ control' = control
        /\ child = "reaped" => child' = "reaped"
        /\ pc = "returned" => pc' = "returned" /\ result' = result
        /\ pc = "idle" => pc' = "idle"
    BY <1>15
    DEF SupervisorStep, Supervise, TakesControl, WaitReturns, ControlTerminate,
        ControlDetach, WatchControl, GraceExit, GraceExpires, KillReturns,
        Repoll, Snapshot, SnapshotFails, Judge, Sleep, Reap, Fail, Return,
        Watching
  <2> QED
    BY <1>15, <2>1 DEF SupervisorStep, sessionVars
<1>16. CASE WorldStep
  <2>1. /\ UNCHANGED <<control, pc, result>>
        /\ child = "reaped" => child' = "reaped"
    BY <1>16 DEF WorldStep, World, ChildExits, ProcChanges
  <2> QED
    BY <1>16, <2>1 DEF WorldStep, sessionVars
<1>17. CASE UNCHANGED vars
  BY <1>17 DEF vars, supVars, sessionVars
<1> QED
  BY <1>1, <1>2, <1>3, <1>4, <1>5, <1>6, <1>7, <1>8, <1>9, <1>10, <1>11, <1>12,
     <1>13, <1>14, <1>15, <1>16, <1>17
  DEF Next, Startup, User, MainStep, ProxyStep

LEMMA NextInv == SessionInv /\ [Next]_vars => SessionInv'
  BY SupPart, MainPart DEF SessionInv

THEOREM SessionInvariant == Spec => []SessionInv
  BY InitInv, NextInv, PTL DEF Spec

\* The type invariant of the whole session.
THEOREM SessionTypeCorrect == Spec => []TypeOK
<1>1. SessionInv => TypeOK
  BY DEF SessionInv, SupInv, CtlInv, TimeInv, SupTypeOK, MainStateInv,
         SessionTypeOK, TypeOK
<1> QED
  BY <1>1, SessionInvariant, PTL

\* After `terminate' the child is gone, otherwise it was never signalled, and
\* TLScope leaves by itself only after its child (app.rs:159-178, 437-522).
THEOREM SessionQuitDialog == Spec => []QuitDialogKeepsItsWord
<1>1. SessionInv => QuitDialogKeepsItsWord
  <2> SUFFICES ASSUME SessionInv PROVE QuitDialogKeepsItsWord
    OBVIOUS
  <2>1. ASSUME choice = "terminate", mode = "run", main \in Ended, result # "error"
        PROVE  child = "reaped"
    BY <2>1
    DEF SessionInv, SupInv, CtlInv, ControlTypeOK, FlagIsHonest, PcInv, CauseInv,
        MainStateInv, MainInv, ChoiceInv
  <2>2. choice # "terminate" => signal = "none"
    BY DEF SessionInv, SupInv, CtlInv, CauseInv, MainStateInv, ChoiceInv
  <2>3. choice = "auto" => child = "reaped"
    BY DEF SessionInv, MainStateInv, ChoiceInv
  <2> QED
    BY <2>1, <2>2, <2>3 DEF QuitDialogKeepsItsWord
<1> QED
  BY <1>1, SessionInvariant, PTL

\* A session that succeeds stopped its proxy, joined its supervisor and saved.
THEOREM SessionSuccess == Spec => []SuccessMeansComplete
<1>1. SessionInv => SuccessMeansComplete
  BY DEF SessionInv, MainStateInv, MainInv, CloseInv, SuccessMeansComplete
<1> QED
  BY <1>1, SessionInvariant, PTL

\* The flag that the interface trusts and the result of the task are true of the
\* child, whatever the rest of the session does (child_supervisor).
THEOREM SessionFlagIsHonest == Spec => []FlagIsHonest
<1>1. SessionInv => FlagIsHonest
  BY DEF SessionInv, SupInv, CtlInv
<1> QED
  BY <1>1, SessionInvariant, PTL

\* The tracker reports quiet only after Settle units in which no poll met a
\* process (wait_for_quiet_after_exit).
THEOREM SessionQuietIsObserved == Spec => []QuietIsObserved
<1>1. SessionInv => QuietIsObserved
  BY DEF SessionInv, SupInv, TimeInv, QuietInv, QuietIsObserved
<1> QED
  BY <1>1, SessionInvariant, PTL

\* Signals: only on request, in order, and never after the child was reaped
\* (terminate_child).
THEOREM SessionSignals == Spec => SignalsOnlyTheLiveChild
<1>1. SessionInv /\ [Next]_vars
        => [signal' # signal =>
              /\ control = "terminate" /\ child # "reaped"
              /\ signal' = "kill" => signal = "term"]_supVars
  BY SupervisorMoves, SignalStepHolds DEF SessionInv, SignalStep, SpawnChild
<1> QED
  BY <1>1, SessionInvariant, PTL DEF Spec, SignalsOnlyTheLiveChild

-----------------------------------------------------------------------------
(* What was captured before the user left.  Where exchange e of the store  *)
(* is from then on: still in it until the entries are copied, then among   *)
(* the copies, unless the session fails or was not to be saved.            *)

Kept(e) ==
  \/ main \in {"join", "stop", "save"} /\ e \in store
  \/ main \in {"write", "done"} /\ e \in copied
  \/ main = "done" /\ ~save
  \/ main = "failed"

LEMMA KeptStays ==
  ASSUME NEW e \in Exchanges, SessionTypeOK, Kept(e), [Next]_vars
  PROVE  Kept(e)'
<1> USE DEF Kept, SessionTypeOK
<1>1. CASE Startup
  BY <1>1 DEF Startup, SetupFails, StartProxy, SpawnChild
<1>2. CASE User \/ AutoExit
  BY <1>2 DEF User, QuitTerminate, QuitLeave, AutoExit, Leave, TuiFails, ClearSession
<1>3. CASE MainStep
  BY <1>3 DEF MainStep, JoinSupervisor, StopProxy, CopyEntries, WriteFile
<1>4. CASE ProxyStep
  BY <1>4 DEF ProxyStep, AcceptFails, OpenExchange, EndExchange
<1>5. CASE SupervisorStep \/ WorldStep \/ UNCHANGED vars
  BY <1>5 DEF SupervisorStep, WorldStep, sessionVars, vars
<1> QED
  BY <1>1, <1>2, <1>3, <1>4, <1>5 DEF Next

\* What was in the store when the user left is in the file of a session that
\* succeeds: nothing clears the store then, and the copy is made after the wait
\* (app.rs:159-184).
THEOREM SessionSavesTheCaptured == Spec => CapturedBeforeQuitIsSaved
<1> SUFFICES ASSUME NEW e \in Exchanges
             PROVE  Spec => [](main \in {"join", "stop"} /\ e \in store
                                 => [](main = "done" /\ save => e \in copied))
  BY DEF CapturedBeforeQuitIsSaved
<1>1. main \in {"join", "stop"} /\ e \in store => Kept(e)
  BY DEF Kept
<1>2. SessionInv /\ Kept(e) /\ [Next]_vars => Kept(e)'
  BY KeptStays DEF SessionInv, MainStateInv
<1>3. Kept(e) => (main = "done" /\ save => e \in copied)
  BY DEF Kept
<1> QED
  BY <1>1, <1>2, <1>3, SessionInvariant, PTL DEF Spec
=============================================================================
