------------------------------ MODULE Authority -------------------------------
(***************************************************************************)
(* The local authority on disk: load_or_create and remove_created_files of  *)
(* src/certificates/authority.rs, run by any number of processes (`run',    *)
(* `ca create', `ca remove') on one directory, step by step as they touch   *)
(* the certificate, the key and the marker. A process may stop anywhere.    *)
(* An authority is a number; 0 is one that was there at first.              *)
(***************************************************************************)
EXTENDS Naturals

CONSTANTS
  Procs,    \* processes that use the directory
  MaxMade,  \* bound on the authorities that are generated
  None,     \* no file, no authority
  Torn      \* a file that was opened for writing and is not written yet

Authorities == 0 .. MaxMade

ASSUME AuthorityAssumption ==
  /\ MaxMade \in Nat /\ None \notin Authorities /\ Torn \notin Authorities /\ None # Torn

VARIABLES
  cert, key,   \* TLScope-ca.pem and TLScope-ca-key.pem
  marker,      \* TLScope-created exists
  legacy,      \* authority 0 has the validity of old versions
  pc,          \* where each process stands
  made,        \* the authority that a process creates
  loaded,      \* what it has read: the signer is made of any certificate and key
  verdict,     \* how its last operation ended
  count,       \* authorities generated so far
  foreign,     \* history: authority 0 was not created by TLScope
  calm         \* history: no process was stopped, no two ran at once

files == <<cert, key, marker>>
process == <<pc, made, loaded, verdict>>
authorityVars == <<files, legacy, process, count, foreign, calm>>

NoPair == [cert |-> None, key |-> None]

Steps == {"idle", "look", "look key", "legacy", "validity", "create", "cert", "key",
          "write key", "marker", "load", "load key", "up", "confirm", "remove cert",
          "remove key", "remove marker"}

\* An empty directory, or one with a pair, from TLScope (with its marker) or not.
AuthorityInit ==
  /\ \/ cert = None /\ key = None /\ marker = FALSE /\ legacy = FALSE /\ foreign = FALSE
     \/ cert = 0 /\ key = 0 /\ marker \in BOOLEAN /\ legacy \in BOOLEAN /\ foreign = ~marker
  /\ pc = [p \in Procs |-> "idle"]
  /\ made = [p \in Procs |-> None]
  /\ loaded = [p \in Procs |-> NoPair]
  /\ verdict = [p \in Procs |-> None]
  /\ count = 0 /\ calm = TRUE

-----------------------------------------------------------------------------
Goes(p, from, to) == pc[p] = from /\ pc' = [pc EXCEPT ![p] = to]

\* An operation ends with an error or with its answer.
Ends(p, how) ==
  /\ pc' = [pc EXCEPT ![p] = "idle"]
  /\ verdict' = [verdict EXCEPT ![p] = how]

Begin(p, first) ==
  /\ Goes(p, "idle", first)
  /\ calm' = (calm /\ \A q \in Procs \ {p} : pc[q] \in {"idle", "up"})
  /\ loaded' = [loaded EXCEPT ![p] = NoPair]
  /\ verdict' = [verdict EXCEPT ![p] = None]
  /\ made' = [made EXCEPT ![p] = None]
  /\ UNCHANGED <<files, legacy, count, foreign>>

Start(p) == Begin(p, "look")
Remove(p) == Begin(p, "confirm")

\* cert_path.exists() && key_path.exists().
Look(p) ==
  /\ \/ cert # None /\ Goes(p, "look", "look key")
     \/ cert = None /\ Goes(p, "look", "create")
     \/ key # None /\ Goes(p, "look key", "legacy")
     \/ key = None /\ Goes(p, "look key", "create")
  /\ UNCHANGED <<files, legacy, made, loaded, verdict, count, foreign, calm>>

\* should_recreate_legacy_ca: without the marker the pair is loaded as it is; with it
\* the certificate is read, and its validity decides.
Judge(p) ==
  /\ \/ ~marker /\ Goes(p, "legacy", "load") /\ UNCHANGED verdict
     \/ marker /\ Goes(p, "legacy", "validity") /\ UNCHANGED verdict
     \/ /\ cert \in Authorities
        /\ Goes(p, "validity", IF cert = 0 /\ legacy THEN "create" ELSE "load")
        /\ UNCHANGED verdict
     \/ pc[p] = "validity" /\ cert \notin Authorities /\ Ends(p, "failed")
  /\ UNCHANGED <<files, legacy, made, loaded, count, foreign, calm>>

\* create: a new authority, written as certificate, key and marker.
Generate(p) ==
  /\ count < MaxMade
  /\ Goes(p, "create", "cert")
  /\ count' = count + 1 /\ made' = [made EXCEPT ![p] = count + 1]
  /\ cert' = Torn
  /\ UNCHANGED <<key, marker, legacy, loaded, verdict, foreign, calm>>

WriteCert(p) ==
  /\ Goes(p, "cert", "key")
  /\ cert' = made[p]
  /\ UNCHANGED <<key, marker, legacy, made, loaded, verdict, count, foreign, calm>>

\* A key that is there is kept.
OpenKeyMutantKeeps(p) ==
  /\ \/ key = None /\ Goes(p, "key", "write key") /\ key' = Torn
     \/ key # None /\ Goes(p, "key", "marker") /\ key' = key
  /\ UNCHANGED <<cert, marker, legacy, made, loaded, verdict, count, foreign, calm>>

\* write_private_key.
OpenKey(p) ==
  /\ Goes(p, "key", "write key")
  /\ key' = Torn
  /\ UNCHANGED <<cert, marker, legacy, made, loaded, verdict, count, foreign, calm>>

WriteKey(p) ==
  /\ Goes(p, "write key", "marker")
  /\ key' = made[p]
  /\ UNCHANGED <<cert, marker, legacy, made, loaded, verdict, count, foreign, calm>>

WriteMarker(p) ==
  /\ Goes(p, "marker", "load")
  /\ marker' = TRUE
  /\ UNCHANGED <<cert, key, legacy, made, loaded, verdict, count, foreign, calm>>

\* load: read both files; parsing fails on a torn one, and nothing compares them.
LoadCert(p) ==
  /\ pc[p] = "load"
  /\ \/ /\ cert # None
        /\ Goes(p, "load", "load key")
        /\ loaded' = [loaded EXCEPT ![p].cert = cert] /\ UNCHANGED verdict
     \/ cert = None /\ Ends(p, "failed") /\ UNCHANGED loaded
  /\ UNCHANGED <<files, legacy, made, count, foreign, calm>>

LoadKey(p) ==
  /\ pc[p] = "load key"
  /\ \/ /\ key \in Authorities /\ loaded[p].cert \in Authorities
        /\ Goes(p, "load key", "up")
        /\ loaded' = [loaded EXCEPT ![p].key = key] /\ UNCHANGED verdict
     \/ /\ key \notin Authorities \/ loaded[p].cert \notin Authorities
        /\ Ends(p, "failed") /\ UNCHANGED loaded
  /\ UNCHANGED <<files, legacy, made, count, foreign, calm>>

\* The process that uses the authority ends.
Finish(p) ==
  /\ Goes(p, "up", "idle")
  /\ UNCHANGED <<files, legacy, made, loaded, verdict, count, foreign, calm>>

-----------------------------------------------------------------------------
\* The user confirms and the marker is not asked for.
ConfirmMutantUnmarked(p) ==
  /\ pc[p] = "confirm"
  /\ \/ Goes(p, "confirm", "remove cert") /\ UNCHANGED verdict
     \/ Ends(p, "kept")
  /\ UNCHANGED <<files, legacy, made, loaded, count, foreign, calm>>

\* remove_created_files, when the user has answered.
Confirm(p) ==
  /\ pc[p] = "confirm"
  /\ \/ marker /\ Goes(p, "confirm", "remove cert") /\ UNCHANGED verdict
     \/ ~marker /\ Ends(p, "nothing")
     \/ Ends(p, "kept")
  /\ UNCHANGED <<files, legacy, made, loaded, count, foreign, calm>>

\* The key is forgotten.
RemoveFileMutantKeepsKey(p) ==
  /\ \/ Goes(p, "remove cert", "remove marker") /\ cert' = None /\ UNCHANGED <<key, marker, verdict>>
     \/ /\ pc[p] = "remove marker" /\ Ends(p, "removed")
        /\ marker' = FALSE /\ UNCHANGED <<cert, key>>
  /\ UNCHANGED <<legacy, made, loaded, count, foreign, calm>>

RemoveFile(p) ==
  /\ \/ Goes(p, "remove cert", "remove key") /\ cert' = None /\ UNCHANGED <<key, marker, verdict>>
     \/ Goes(p, "remove key", "remove marker") /\ key' = None /\ UNCHANGED <<cert, marker, verdict>>
     \/ /\ pc[p] = "remove marker" /\ Ends(p, "removed")
        /\ marker' = FALSE /\ UNCHANGED <<cert, key>>
  /\ UNCHANGED <<legacy, made, loaded, count, foreign, calm>>

\* A write, a read or a removal fails, or the process is stopped.
Stop(p) ==
  /\ pc[p] \notin {"idle", "up"}
  /\ calm' = FALSE
  /\ Ends(p, "failed")
  /\ UNCHANGED <<files, legacy, made, loaded, count, foreign>>

Step(p) ==
  \/ Start(p) \/ Look(p) \/ Judge(p) \/ Generate(p) \/ WriteCert(p) \/ OpenKey(p)
  \/ WriteKey(p) \/ WriteMarker(p) \/ LoadCert(p) \/ LoadKey(p) \/ Finish(p)
  \/ Remove(p) \/ Confirm(p) \/ RemoveFile(p) \/ Stop(p)

AuthorityNext == \E p \in Procs : Step(p)

AuthoritySpec == AuthorityInit /\ [][AuthorityNext]_authorityVars

-----------------------------------------------------------------------------
AuthorityTypeOK ==
  /\ cert \in Authorities \cup {None, Torn} /\ key \in Authorities \cup {None, Torn}
  /\ marker \in BOOLEAN
  /\ legacy \in BOOLEAN /\ foreign \in BOOLEAN /\ calm \in BOOLEAN
  /\ pc \in [Procs -> Steps]
  /\ made \in [Procs -> 1 .. MaxMade \cup {None}]
  /\ loaded \in [Procs -> [cert : Authorities \cup {None, Torn}, key : Authorities \cup {None}]]
  /\ verdict \in [Procs -> {None, "failed", "nothing", "kept", "removed"}]
  /\ count \in 0 .. MaxMade

\* A confirmed removal ends while nobody else is at work on TLScope's own files.
RemovalEnds(p) ==
  /\ pc[p] \in {"confirm", "remove marker"} /\ verdict'[p] \in {"nothing", "removed"}
  /\ pc'[p] = "idle"
  /\ ~foreign /\ \A q \in Procs \ {p} : pc[q] \in {"idle", "up"}

\* A pair that TLScope did not create is neither replaced nor removed, however
\* many processes start and remove (authority.rs 51-59, 148-150, 270-272).
ForeignPairIsKept == foreign => cert = 0 /\ key = 0

\* Without crashes and overlaps, the authority that a process uses has the key of
\* its certificate: what it signs is trusted (authority.rs 85-95, 102-118).
CalmPairMatches ==
  calm => \A p \in Procs : pc[p] = "up" => loaded[p].cert = loaded[p].key

\* Alone and without crashes, a confirmed removal of what TLScope created leaves
\* neither file, whatever was started and removed before (authority.rs 145-158).
CalmRemovalIsComplete ==
  [][\A p \in Procs : calm /\ RemovalEnds(p) => cert' = None /\ key' = None]_authorityVars
=============================================================================
