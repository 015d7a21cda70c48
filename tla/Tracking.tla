------------------------------- MODULE Tracking -------------------------------
(***************************************************************************)
(* ProcessTracker of src/process/tracking.rs above the process table of the  *)
(* operating system: what is taken for the launched application after its   *)
(* first process has gone (ChildSupervisor waits for that to become empty). *)
(*                                                                         *)
(* A process matches the configuration or not: paths and names are left     *)
(* out, and so is observed_pids, which is only counted. A process that has  *)
(* ended may leave its pid behind as the parent of others (Windows), or they *)
(* become children of a system process (Unix).                              *)
(***************************************************************************)
EXTENDS Integers, FiniteSets

CONSTANTS
  Pids,       \* the pids that processes are given
  MaxStarts,  \* bound on the processes that start
  None        \* no pid, or the pid of a process that is of no interest here

ASSUME TrackingAssumption == IsFiniteSet(Pids) /\ MaxStarts \in Nat /\ None \notin Pids

VARIABLES
  snapshot,       \* the live processes: their parent_pid, and whether they match
  baseline_pids,
  child_pid,
  stage,          \* "start", "prepared", "degraded", "launched"
  adopted,        \* whether the system gives orphans a new parent
  started,        \* processes started so far
  mother,         \* the process that started the one with this pid, None at first
  seen,           \* history: live processes when the baseline was captured
  reused          \* history: a pid was given to a second process

trackingVars ==
  <<snapshot, baseline_pids, child_pid, stage, adopted, started, mother, seen, reused>>

Live == DOMAIN snapshot

TrackingInit ==
  /\ snapshot = << >> /\ mother = << >>
  /\ baseline_pids = {} /\ child_pid = None /\ stage = "start"
  /\ adopted \in BOOLEAN
  /\ started = 0 /\ seen = {} /\ reused = FALSE

-----------------------------------------------------------------------------
(* The operating system.                                                     *)

\* Process p is started by `by', or by a process that is of no interest here.
Run(p, by, matches) ==
  /\ started < MaxStarts /\ started' = started + 1
  /\ p \notin Live
  /\ snapshot' = [q \in Live \cup {p} |->
                    IF q = p THEN [parent_pid |-> by, matches |-> matches] ELSE snapshot[q]]
  /\ mother' = [q \in DOMAIN mother \cup {p} |-> IF q = p THEN by ELSE mother[q]]
  /\ reused' = (reused \/ p \in DOMAIN mother)

Starts ==
  /\ \E p \in Pids, by \in Live \cup {None}, matches \in BOOLEAN : Run(p, by, matches)
  /\ UNCHANGED <<baseline_pids, child_pid, stage, adopted, seen>>

Stops ==
  /\ \E p \in Live :
       snapshot' = [q \in Live \ {p} |->
         IF adopted /\ snapshot[q].parent_pid = p
           THEN [snapshot[q] EXCEPT !.parent_pid = None] ELSE snapshot[q]]
  /\ UNCHANGED <<baseline_pids, child_pid, stage, adopted, started, mother, seen, reused>>

-----------------------------------------------------------------------------
(* The tracker.                                                              *)

Parents == [p \in {q \in Live : snapshot[q].parent_pid # None} |-> snapshot[p].parent_pid]

\* The processes from which the loop of is_descendant_of comes to the ancestor, once
\* it has visited the others.
Climbs(ancestor) ==
  LET from[visited \in SUBSET Pids] ==
        {current \in DOMAIN Parents :
           \/ Parents[current] = ancestor
           \/ current \notin visited /\ Parents[current] \in from[visited \cup {current}]}
  IN from

\* Only the children of the ancestor are found.
is_descendant_of_MutantParent(pid, ancestor) ==
  pid \in DOMAIN Parents /\ Parents[pid] = ancestor

is_descendant_of(pid, ancestor) == pid \in Climbs(ancestor)[{}]

matching_processes(baseline) ==
  {p \in Live :
     \/ child_pid # None /\ (p = child_pid \/ is_descendant_of(p, child_pid))
     \/ snapshot[p].matches /\ p \notin baseline}

\* What is captured is not kept.
PrepareMutantEmpty ==
  /\ stage = "start" /\ stage' = "prepared"
  /\ baseline_pids' = {} /\ seen' = Live
  /\ UNCHANGED <<snapshot, child_pid, adopted, started, mother, reused>>

Prepare ==
  /\ stage = "start" /\ stage' = "prepared"
  /\ baseline_pids' = matching_processes({}) /\ seen' = Live
  /\ UNCHANGED <<snapshot, child_pid, adopted, started, mother, reused>>

\* The snapshot failed: without_baseline.
PrepareFails ==
  /\ stage = "start" /\ stage' = "degraded"
  /\ baseline_pids' = {}
  /\ UNCHANGED <<snapshot, child_pid, adopted, started, mother, seen, reused>>

\* spawn_child and set_child_pid.
Launch ==
  /\ stage \in {"prepared", "degraded"} /\ stage' = "launched"
  /\ \E p \in Pids, matches \in BOOLEAN : Run(p, None, matches) /\ child_pid' = p
  /\ UNCHANGED <<baseline_pids, adopted, seen>>

TrackingNext == Starts \/ Stops \/ Prepare \/ PrepareFails \/ Launch

TrackingSpec == TrackingInit /\ [][TrackingNext]_trackingVars

-----------------------------------------------------------------------------
\* There is a child from the launch on, and every other pid is of a process.
TrackingTypeOK ==
  /\ snapshot \in [Live -> [parent_pid : Pids \cup {None}, matches : BOOLEAN]]
  /\ mother \in [DOMAIN mother -> Pids \cup {None}]
  /\ Live \cup DOMAIN mother \cup baseline_pids \cup seen \subseteq Pids
  /\ stage \in {"start", "prepared", "degraded", "launched"}
  /\ child_pid \in IF stage = "launched" THEN Pids ELSE {None}
  /\ adopted \in BOOLEAN /\ reused \in BOOLEAN /\ started \in 0 .. MaxStarts

\* q is reached from p: it is in every set that has all that is one step above p
\* or above one of its own.
Reached(p, q, Above(_, _)) ==
  \A S \in SUBSET Pids :
    (\A r, t \in Pids : (r = p \/ r \in S) /\ Above(r, t) => t \in S) => q \in S

\* Climbing the parent pids finds exactly the processes from which the ancestor
\* can be reached, also where pids that were given again have closed the parents
\* to a cycle (tracking.rs 277-290).
DescendantsAreFound ==
  LET Above(p, q) == p \in DOMAIN Parents /\ Parents[p] = q
  IN \A p \in Live, q \in Pids : is_descendant_of(p, q) <=> Reached(p, q, Above)

\* As long as no pid was given twice, a process is taken for the application
\* exactly if it is the child; or one that the child started, directly or through
\* processes that all live, where the child itself need not live if orphans keep
\* their parent; or one that matches and was not there when the baseline was
\* captured (tracking.rs 193-208, 254-275, app.rs 85-98).
ActiveIsTheApplication ==
  LET Started(p, q) == p \in Live /\ mother[p] = q
                       /\ (q \in Live \/ (q = child_pid /\ ~adopted))
  IN stage = "launched" /\ ~reused =>
       \A p \in Live :
         p \in matching_processes(baseline_pids) <=>
           \/ p = child_pid \/ Reached(p, child_pid, Started)
           \/ snapshot[p].matches /\ p \notin seen
=============================================================================
