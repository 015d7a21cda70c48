------------------------------- MODULE Session -------------------------------
(***************************************************************************)
(* A whole session of TLScope: run_child and run_proxy_only of src/app.rs. *)
(* The main task starts the proxy, spawns the child and its supervisor     *)
(* (ChildSupervisor), runs the terminal interface until the user leaves or *)
(* the supervisor clears its flag, then joins the supervisor, stops the    *)
(* proxy and saves the captured exchanges.  Meanwhile the tasks of the     *)
(* proxy, which nobody joins, go on recording exchanges.                   *)
(***************************************************************************)
EXTENDS ChildSupervisor

CONSTANT Exchanges   \* the exchanges that clients may start

VARIABLES
  mode,      \* "run" (TLScope run -- command) or "proxy" (TLScope proxy)
  save,      \* --save-session was given
  main,      \* where run_child or run_proxy_only stands
  choice,    \* how the terminal interface ended
  proxy,     \* the accept loop of start_proxy
  exchange,  \* exchange[e]: the task that handles exchange e
  store,     \* the exchanges in the TrafficStore
  copied,    \* the entries copied by save_session_if_requested
  file       \* the session file

sessionVars == <<mode, save, main, choice, proxy, exchange, store, copied, file>>
vars == <<supVars, sessionVars>>

Ended == {"done", "failed"}
Leaving == {"join", "stop", "save", "write"}

TypeOK ==
  /\ SupTypeOK
  /\ mode \in {"run", "proxy"} /\ save \in BOOLEAN
  /\ main \in {"start", "spawn", "tui"} \cup Leaving \cup Ended
  /\ choice \in {"none", "terminate", "leave", "auto", "error"}
  /\ proxy \in {"off", "listening", "broken", "stopped"}
  /\ exchange \in [Exchanges -> {"idle", "open", "recorded", "dropped"}]
  /\ store \in SUBSET Exchanges
  /\ copied \in SUBSET Exchanges
  /\ file \in {"absent", "torn", "saved"}

Init ==
  /\ child = "none" /\ signal = "none"
  /\ tracked \in SUBSET Procs
  /\ pc = "idle" /\ control = "none" /\ rxDone = FALSE
  /\ running = TRUE /\ result = "pending"
  /\ seen = {} /\ quiet = 0 /\ summary = FALSE /\ calm = 0
  /\ mode \in {"run", "proxy"} /\ save \in BOOLEAN
  /\ main = "start" /\ choice = "none" /\ proxy = "off"
  /\ exchange = [e \in Exchanges |-> "idle"]
  /\ store = {} /\ copied = {} /\ file = "absent"

-----------------------------------------------------------------------------
(* Start-up.                                                               *)

\* A bad configuration, the CA, or bind fails.
SetupFails ==
  /\ main = "start" /\ main' = "failed"
  /\ UNCHANGED <<supVars, mode, save, choice, proxy, exchange, store, copied, file>>

StartProxy ==
  /\ main = "start"
  /\ proxy' = "listening"
  /\ main' = IF mode = "run" THEN "spawn" ELSE "tui"
  /\ UNCHANGED <<supVars, mode, save, choice, exchange, store, copied, file>>

\* spawn_child, then tokio::spawn of the supervisor; or `?' on the former.
SpawnChild ==
  /\ main = "spawn"
  /\ \/ /\ child' = "running" /\ pc' = "wait" /\ main' = "tui"
     \/ /\ main' = "failed" /\ UNCHANGED <<child, pc>>
  /\ UNCHANGED <<signal, tracked, control, rxDone, running, result, seen,
                 quiet, summary, calm, mode, save, choice, proxy, exchange,
                 store, copied, file>>

-----------------------------------------------------------------------------
(* The terminal interface.                                                 *)

\* What run_child does with the TuiExit; run_proxy_only ignores it.
Leave(how, message) ==
  /\ main = "tui"
  /\ choice' = how
  /\ IF mode = "run"
     THEN main' = "join" /\ Send(message)
     ELSE main' = "stop" /\ UNCHANGED supVars
  /\ UNCHANGED <<mode, save, proxy, exchange, store, copied, file>>

QuitTerminate == Leave("terminate", "terminate")
\* Mutant: the two choices of the dialog are handled alike.
QuitLeaveTerminates == Leave("leave", "terminate")

QuitLeave == Leave("leave", "detach")

\* run_loop finds the flag cleared; only run_child hands it one.
AutoExit == mode = "run" /\ ~running /\ Leave("auto", "detach")

\* A drawing, polling or export error: `?' drops the control sender.
TuiFails ==
  /\ main = "tui" /\ main' = "failed" /\ choice' = "error"
  /\ IF mode = "run" THEN Send("closed") ELSE UNCHANGED supVars
  /\ UNCHANGED <<mode, save, proxy, exchange, store, copied, file>>

\* Mutant: the list can be cleared while the session closes.
ClearSessionAnyTime ==
  /\ main \notin {"start", "spawn"} \cup Ended /\ store' = {}
  /\ UNCHANGED <<supVars, mode, save, main, choice, proxy, exchange, copied, file>>

ClearSession ==
  /\ main = "tui" /\ store' = {}
  /\ UNCHANGED <<supVars, mode, save, main, choice, proxy, exchange, copied, file>>

-----------------------------------------------------------------------------
(* The proxy.                                                              *)

\* listener.accept() fails: the loop ends with the error, nobody is told.
AcceptFails ==
  /\ proxy = "listening" /\ main \notin Ended
  /\ proxy' = "broken"
  /\ UNCHANGED <<supVars, mode, save, main, choice, exchange, store, copied, file>>

\* A connection is accepted, or a stream on an HTTP/2 connection that is
\* already open, which needs no listener.
OpenExchange(e) ==
  /\ exchange[e] = "idle" /\ proxy # "off" /\ main \notin Ended
  /\ exchange' = [exchange EXCEPT ![e] = "open"]
  /\ UNCHANGED <<supVars, mode, save, main, choice, proxy, store, copied, file>>

\* The task records its entry, or returns without one.
EndExchange(e) ==
  /\ exchange[e] = "open" /\ main \notin Ended
  /\ \/ /\ exchange' = [exchange EXCEPT ![e] = "recorded"]
        /\ store' = store \cup {e}
     \/ /\ exchange' = [exchange EXCEPT ![e] = "dropped"]
        /\ UNCHANGED store
  /\ UNCHANGED <<supVars, mode, save, main, choice, proxy, copied, file>>

-----------------------------------------------------------------------------
(* Leaving: join the supervisor, stop the proxy, save.                     *)

\* Mutant: the result of the supervisor is ignored.
JoinSupervisorIgnoresResult ==
  /\ main = "join" /\ pc = "returned"
  /\ main' = "stop"
  /\ UNCHANGED <<supVars, mode, save, choice, proxy, exchange, store, copied, file>>

JoinSupervisor ==
  /\ main = "join" /\ pc = "returned"
  /\ main' = IF result \in {"exit", "none"} THEN "stop" ELSE "failed"
  /\ UNCHANGED <<supVars, mode, save, choice, proxy, exchange, store, copied, file>>

\* Mutant: the shutdown joins the tasks of the open exchanges.
StopProxyJoinsExchanges ==
  /\ main = "stop" /\ \A e \in Exchanges : exchange[e] # "open"
  /\ proxy' = "stopped" /\ main' = IF save THEN "save" ELSE "done"
  /\ UNCHANGED <<supVars, mode, save, choice, exchange, store, copied, file>>

\* ProxyHandle::shutdown yields the error of a loop that ended by itself.
StopProxy ==
  /\ main = "stop"
  /\ \/ /\ proxy = "listening"
        /\ proxy' = "stopped"
        /\ main' = IF save THEN "save" ELSE "done"
     \/ /\ proxy = "broken"
        /\ main' = "failed"
        /\ UNCHANGED proxy
  /\ UNCHANGED <<supVars, mode, save, choice, exchange, store, copied, file>>

CopyEntries ==
  /\ main = "save" /\ main' = "write"
  /\ copied' = store
  /\ UNCHANGED <<supVars, mode, save, choice, proxy, exchange, store, file>>

\* fs::write creates or truncates the file, then writes; an error may leave a part.
WriteFile ==
  /\ main = "write"
  /\ \/ main' = "done" /\ file' = "saved"
     \/ main' = "failed" /\ file' = "torn"
  /\ UNCHANGED <<supVars, mode, save, choice, proxy, exchange, store, copied>>

-----------------------------------------------------------------------------
MainStep == JoinSupervisor \/ StopProxy \/ CopyEntries \/ WriteFile

Startup == SetupFails \/ StartProxy \/ SpawnChild
User == QuitTerminate \/ QuitLeave \/ TuiFails \/ ClearSession
ProxyStep == AcceptFails \/ \E e \in Exchanges : OpenExchange(e) \/ EndExchange(e)

\* The tasks of the runtime die with the main task.
SupervisorStep == main \notin Ended /\ Supervise /\ UNCHANGED sessionVars
WorldStep == World /\ UNCHANGED sessionVars

Next ==
  \/ Startup \/ User \/ AutoExit \/ MainStep
  \/ ProxyStep \/ SupervisorStep \/ WorldStep

\* No fairness of the user, of the clients or of the child before SIGKILL.
Fairness ==
  /\ WF_vars(AutoExit)
  /\ WF_vars(MainStep)
  /\ WF_vars(SupervisorStep)
  /\ WF_vars(main \notin Ended /\ TakesControl /\ UNCHANGED sessionVars)
  /\ WF_vars(signal = "kill" /\ ChildExits /\ UNCHANGED sessionVars)

Spec == Init /\ [][Next]_vars /\ Fairness

-----------------------------------------------------------------------------
(* Properties.                                                             *)

\* The quit dialog keeps its word whatever the child, the tracker and the
\* proxy do meanwhile: after `terminate' the child is gone when TLScope ends,
\* unless signalling or waiting failed; after anything else it was never
\* signalled, and TLScope leaves by itself only after the child was reaped.
QuitDialogKeepsItsWord ==
  /\ choice = "terminate" /\ mode = "run" /\ main \in Ended /\ result # "error"
       => child = "reaped"
  /\ choice # "terminate" => signal = "none"
  /\ choice = "auto" => child = "reaped"

\* A session that reports success has joined its supervisor, stopped its proxy
\* and written the session file that was asked for.
SuccessMeansComplete ==
  main = "done" =>
    /\ proxy = "stopped"
    /\ mode = "run" => pc = "returned" /\ result \in {"exit", "none"}
    /\ save => file = "saved"

\* What was in the store when the user left is in the file of a session that
\* succeeds, however long the supervisor keeps the main task waiting.
CapturedBeforeQuitIsSaved ==
  \A e \in Exchanges :
    [](main \in {"join", "stop"} /\ e \in store
         => [](main = "done" /\ save => e \in copied))

\* Leaving ends: no choice of the user waits for ever for a child that ignores
\* SIGTERM, for an application that keeps restarting or for open exchanges.
LeavingEnds == (main \in Leaving) ~> (main \in Ended)

\* Once the child and its relatives are gone for good the session ends by
\* itself, unless waiting for the child failed.
SessionEndsWithItsChild ==
  <>[](child \in {"exited", "reaped"} /\ tracked = {})
    => <>(main \in Ended \/ result = "error")

\* --save-session: "Save the captured session as JSON when TLScope exits" (the
\* command line help and the user guide): a save is at least attempted when the
\* user leaves by the dialog's first choice and signalling and waiting succeed.
TerminateSavesSession ==
  choice = "terminate" /\ main \in Ended /\ save
    /\ result # "error" /\ proxy # "broken"
    => file # "absent"
=============================================================================
