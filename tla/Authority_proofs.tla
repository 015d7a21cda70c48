--------------------------- MODULE Authority_proofs ---------------------------
(***************************************************************************)
(* For any number of processes, starts and removals: a pair of files that   *)
(* TLScope did not create stays as it is; and where nothing crashes and no   *)
(* two operations overlap, what is loaded matches and a removal is complete. *)
(***************************************************************************)
EXTENDS Authority, TLAPS

\* Where a process can stand on the path that loads what is there.
Harmless == {"idle", "look", "look key", "legacy", "load", "load key", "up", "confirm"}

\* While both foreign files are there nobody reaches `create', and without a
\* marker nobody reaches a removal.
ForeignInv ==
  /\ pc \in [Procs -> Steps]
  /\ foreign => /\ cert = 0 /\ key = 0 /\ marker = FALSE
                /\ \A p \in Procs : pc[p] \in Harmless

LEMMA ForeignInitially == AuthorityInit => ForeignInv
<1> SUFFICES ASSUME AuthorityInit PROVE ForeignInv
  OBVIOUS
<1>1. pc = [p \in Procs |-> "idle"]
  BY DEF AuthorityInit
<1>2. foreign => cert = 0 /\ key = 0 /\ marker = FALSE
  <2>1. CASE foreign = FALSE
    BY <2>1
  <2>2. CASE cert = 0 /\ key = 0 /\ marker \in BOOLEAN /\ foreign = ~marker
    <3>1. CASE marker = TRUE
      BY <2>2, <3>1
    <3>2. CASE marker = FALSE
      BY <2>2, <3>2
    <3> QED BY <2>2, <3>1, <3>2
  <2> QED BY <2>1, <2>2, Zenon DEF AuthorityInit
<1>3. pc \in [Procs -> Steps] /\ \A p \in Procs : pc[p] \in Harmless
  BY <1>1 DEF Steps, Harmless
<1> QED BY <1>2, <1>3, Zenon DEF ForeignInv

\* A step moves one process.
LEMMA OneMoves ==
  ASSUME NEW p \in Procs, Step(p)
  PROVE  foreign' = foreign /\ \E to \in Steps : pc' = [pc EXCEPT ![p] = to]
<1>1. foreign' = foreign
  BY DEF Step, Start, Remove, Begin, Look, Judge, Generate, WriteCert, OpenKey, WriteKey,
         WriteMarker, LoadCert, LoadKey, Finish, Confirm, RemoveFile, Stop
<1>2. CASE Start(p) \/ Remove(p) \/ Finish(p)
  BY <1>2 DEF Start, Remove, Begin, Finish, Goes, Steps
<1>3. CASE Look(p)
  BY <1>3 DEF Look, Goes, Steps
<1>4. CASE Judge(p)
  BY <1>4 DEF Judge, Goes, Ends, Steps
<1>5. CASE Generate(p) \/ WriteCert(p) \/ OpenKey(p) \/ WriteKey(p) \/ WriteMarker(p)
  BY <1>5 DEF Generate, WriteCert, OpenKey, WriteKey, WriteMarker, Goes, Steps
<1>6. CASE LoadCert(p) \/ LoadKey(p)
  BY <1>6 DEF LoadCert, LoadKey, Goes, Ends, Steps
<1>7. CASE Confirm(p) \/ Stop(p)
  BY <1>7 DEF Confirm, Stop, Goes, Ends, Steps
<1>8. CASE RemoveFile(p)
  BY <1>8 DEF RemoveFile, Goes, Ends, Steps
<1> QED BY <1>1, <1>2, <1>3, <1>4, <1>5, <1>6, <1>7, <1>8 DEF Step

\* With foreign files, a step from the load path leaves them and stays on it.
LEMMA ForeignStep ==
  ASSUME cert = 0, key = 0, marker = FALSE,
         NEW p \in Procs, pc[p] \in Harmless, Step(p)
  PROVE  /\ cert' = 0 /\ key' = 0 /\ marker' = FALSE
         /\ \E to \in Harmless : pc' = [pc EXCEPT ![p] = to]
<1>1. 0 # None /\ 0 \in Authorities
  BY AuthorityAssumption DEF Authorities
<1>2. CASE Start(p) \/ Remove(p) \/ Finish(p)
  BY <1>2 DEF Start, Remove, Begin, Finish, Goes, Harmless, files
<1>3. CASE Look(p)
  BY <1>1, <1>3 DEF Look, Goes, Harmless, files
<1>4. CASE Judge(p)
  BY <1>4 DEF Judge, Goes, Harmless, files
<1>5. CASE Generate(p) \/ WriteCert(p) \/ OpenKey(p) \/ WriteKey(p) \/ WriteMarker(p) \/ RemoveFile(p)
  <2>1. pc[p] \in {"create", "cert", "key", "write key", "marker",
                   "remove cert", "remove key", "remove marker"}
    BY <1>5 DEF Generate, WriteCert, OpenKey, WriteKey, WriteMarker, RemoveFile, Goes
  <2> QED BY <2>1 DEF Harmless
<1>6. CASE LoadCert(p) \/ LoadKey(p)
  BY <1>6 DEF LoadCert, LoadKey, Goes, Ends, Harmless, files
<1>7. CASE Confirm(p) \/ Stop(p)
  BY <1>7 DEF Confirm, Stop, Goes, Ends, Harmless, files
<1> QED BY <1>2, <1>3, <1>4, <1>5, <1>6, <1>7 DEF Step

\* Every step of the load path leaves the files and stays on the path.
LEMMA ForeignStays ==
  ASSUME ForeignInv, [AuthorityNext]_authorityVars
  PROVE  ForeignInv'
<1>1. CASE UNCHANGED authorityVars
  BY <1>1 DEF ForeignInv, authorityVars, files, process
<1>2. ASSUME NEW p \in Procs, Step(p) PROVE ForeignInv'
  <2>1. pc \in [Procs -> Steps]
    BY DEF ForeignInv
  <2>2. PICK to \in Steps : pc' = [pc EXCEPT ![p] = to]
    BY <1>2, OneMoves
  <2>3. pc' \in [Procs -> Steps]
    BY <2>1, <2>2
  <2>4. CASE ~foreign
    BY <1>2, <2>3, <2>4, OneMoves, Zenon DEF ForeignInv
  <2>5. CASE foreign
    <3>1. cert = 0 /\ key = 0 /\ marker = FALSE /\ \A q \in Procs : pc[q] \in Harmless
      BY <2>5 DEF ForeignInv
    <3>2. cert' = 0 /\ key' = 0 /\ marker' = FALSE
      BY <1>2, <3>1, ForeignStep
    <3>3. PICK h \in Harmless : pc' = [pc EXCEPT ![p] = h]
      BY <1>2, <3>1, ForeignStep
    <3>4. \A q \in Procs : pc'[q] \in Harmless
      BY <2>1, <3>1, <3>3
    <3> QED BY <2>3, <3>2, <3>4, Zenon DEF ForeignInv
  <2> QED BY <2>4, <2>5
<1> QED BY <1>1, <1>2 DEF AuthorityNext

\* A pair that TLScope did not create is neither replaced nor removed, however
\* many processes load it and are told to remove it (authority.rs 51-59,
\* 148-150, 270-272).
THEOREM AuthorityKeepsForeignPair == AuthoritySpec => []ForeignPairIsKept
<1>1. ForeignInv => ForeignPairIsKept
  BY DEF ForeignInv, ForeignPairIsKept
<1> QED BY <1>1, ForeignInitially, ForeignStays, PTL DEF AuthoritySpec

-----------------------------------------------------------------------------
(* Types.                                                                  *)

Files == Authorities \cup {None, Torn}
Pairs == [cert : Files, key : Authorities \cup {None}]
Verdicts == {None, "failed", "nothing", "kept", "removed"}

FlagsOK == legacy \in BOOLEAN /\ foreign \in BOOLEAN /\ calm \in BOOLEAN /\ marker \in BOOLEAN
MadeOK == made \in [Procs -> 1 .. MaxMade \cup {None}] /\ count \in 0 .. MaxMade
PlacesOK == pc \in [Procs -> Steps] /\ verdict \in [Procs -> Verdicts]
FilesOK == cert \in Files /\ key \in Files
LoadedOK == loaded \in [Procs -> Pairs]
TypeInv == FlagsOK /\ MadeOK /\ PlacesOK /\ FilesOK /\ LoadedOK

LEMMA TypesInitially == AuthorityInit => TypeInv
<1> SUFFICES ASSUME AuthorityInit PROVE TypeInv
  OBVIOUS
<1>1. 0 \in Authorities /\ 0 \in 0 .. MaxMade
  BY AuthorityAssumption DEF Authorities
<1>2. FlagsOK
  BY DEF AuthorityInit, FlagsOK
<1>3. MadeOK
  BY <1>1 DEF AuthorityInit, MadeOK
<1>4. PlacesOK
  BY DEF AuthorityInit, PlacesOK, Steps, Verdicts
<1>5. FilesOK
  BY <1>1 DEF AuthorityInit, FilesOK, Files
<1>6. LoadedOK
  BY DEF AuthorityInit, LoadedOK, Pairs, Files, NoPair
<1> QED BY <1>2, <1>3, <1>4, <1>5, <1>6 DEF TypeInv

LEMMA TypesStay ==
  ASSUME TypeInv, NEW p \in Procs, Step(p)
  PROVE  TypeInv'
<1> USE DEF TypeInv, files
<1>1. FlagsOK'
  <2>1. legacy' = legacy /\ foreign' = foreign
    BY DEF Step, Start, Remove, Begin, Look, Judge, Generate, WriteCert, OpenKey, WriteKey,
           WriteMarker, LoadCert, LoadKey, Finish, Confirm, RemoveFile, Stop
  <2>2. marker' \in {marker, TRUE, FALSE}
    BY DEF Step, Start, Remove, Begin, Look, Judge, Generate, WriteCert, OpenKey, WriteKey,
           WriteMarker, LoadCert, LoadKey, Finish, Confirm, RemoveFile, Stop
  <2>3. calm' \in BOOLEAN
    BY DEF FlagsOK, Step, Start, Remove, Begin, Look, Judge, Generate, WriteCert, OpenKey,
           WriteKey, WriteMarker, LoadCert, LoadKey, Finish, Confirm, RemoveFile, Stop
  <2> QED BY <2>1, <2>2, <2>3 DEF FlagsOK
<1>2. MadeOK'
  <2>1. CASE Start(p) \/ Remove(p)
    BY <2>1 DEF Start, Remove, Begin, MadeOK
  <2>2. CASE Generate(p)
    BY <2>2, AuthorityAssumption DEF Generate, MadeOK
  <2>3. CASE ~Start(p) /\ ~Remove(p) /\ ~Generate(p)
    <3>1. UNCHANGED <<made, count>>
      BY <2>3 DEF Step, Look, Judge, WriteCert, OpenKey, WriteKey, WriteMarker, LoadCert,
             LoadKey, Finish, Confirm, RemoveFile, Stop
    <3> QED BY <3>1 DEF MadeOK
  <2> QED BY <2>1, <2>2, <2>3
<1>3. PlacesOK'
  <2>1. pc' \in [Procs -> Steps]
    BY OneMoves DEF PlacesOK
  <2>2. verdict' = verdict \/ \E how \in Verdicts : verdict' = [verdict EXCEPT ![p] = how]
    BY DEF Verdicts, Ends, Step, Start, Remove, Begin, Look, Judge, Generate, WriteCert,
           OpenKey, WriteKey, WriteMarker, LoadCert, LoadKey, Finish, Confirm, RemoveFile, Stop
  <2> QED BY <2>1, <2>2 DEF PlacesOK
<1>4. FilesOK'
  <2>1. cert' = cert \/ cert' \in {made[p], None, Torn}
    BY DEF Step, Start, Remove, Begin, Look, Judge, Generate, WriteCert, OpenKey, WriteKey,
           WriteMarker, LoadCert, LoadKey, Finish, Confirm, RemoveFile, Stop
  <2>2. key' = key \/ key' \in {made[p], None, Torn}
    BY DEF Step, Start, Remove, Begin, Look, Judge, Generate, WriteCert, OpenKey, WriteKey,
           WriteMarker, LoadCert, LoadKey, Finish, Confirm, RemoveFile, Stop
  <2>3. made[p] \in Files
    BY AuthorityAssumption DEF MadeOK, Files, Authorities
  <2> QED BY <2>1, <2>2, <2>3 DEF FilesOK, Files
<1>5. LoadedOK'
  <2>1. CASE Start(p) \/ Remove(p)
    BY <2>1 DEF Start, Remove, Begin, LoadedOK, Pairs, Files, NoPair
  <2>2. CASE LoadCert(p)
    BY <2>2 DEF LoadCert, LoadedOK, Pairs, FilesOK
  <2>3. CASE LoadKey(p)
    BY <2>3 DEF LoadKey, LoadedOK, Pairs
  <2>4. CASE ~Start(p) /\ ~Remove(p) /\ ~LoadCert(p) /\ ~LoadKey(p)
    <3>1. UNCHANGED loaded
      BY <2>4 DEF Step, Look, Judge, Generate, WriteCert, OpenKey, WriteKey, WriteMarker,
             Finish, Confirm, RemoveFile, Stop
    <3> QED BY <3>1 DEF LoadedOK
  <2> QED BY <2>1, <2>2, <2>3, <2>4
<1> QED BY <1>1, <1>2, <1>3, <1>4, <1>5

LEMMA TypesStep == TypeInv /\ [AuthorityNext]_authorityVars => TypeInv'
<1> SUFFICES ASSUME TypeInv, [AuthorityNext]_authorityVars PROVE TypeInv'
  OBVIOUS
<1>1. CASE UNCHANGED authorityVars
  BY <1>1 DEF TypeInv, FlagsOK, MadeOK, PlacesOK, FilesOK, LoadedOK, authorityVars, files, process
<1> QED BY <1>1, TypesStay DEF AuthorityNext

\* The files and the processes keep their types.
THEOREM AuthorityTypeCorrect == AuthoritySpec => []AuthorityTypeOK
<1>1. TypeInv => AuthorityTypeOK
  BY DEF TypeInv, FlagsOK, MadeOK, PlacesOK, FilesOK, LoadedOK, AuthorityTypeOK, Pairs,
         Files, Verdicts
<1> QED BY <1>1, TypesInitially, TypesStep, PTL DEF AuthoritySpec


-----------------------------------------------------------------------------
(* Without crashes and overlaps.                                           *)

Active(p) == pc[p] \notin {"idle", "up"}

\* What an operation finds and leaves: both files of one authority, or neither,
\* and the marker of what TLScope created.
Rest == cert = key /\ cert # Torn /\ (foreign \/ marker \/ cert = None)

\* How far the operation that is under way has come.
Stands(p) ==
  /\ pc[p] \in {"look", "look key", "legacy", "validity", "confirm", "load", "load key"} => Rest
  /\ pc[p] = "cert" => made[p] \in Authorities
  /\ pc[p] \in {"key", "write key"} => cert = made[p] /\ made[p] \in Authorities
  /\ pc[p] = "marker" => cert = made[p] /\ key = made[p] /\ made[p] \in Authorities
  /\ pc[p] = "load key" => loaded[p].cert = cert
  /\ pc[p] \in {"remove key", "remove marker"} => cert = None
  /\ pc[p] = "remove marker" => key = None
  /\ pc[p] = "up" => loaded[p].cert = loaded[p].key

Alone == \A p, q \in Procs : Active(p) /\ Active(q) => p = q

CalmInv ==
  calm => /\ Alone
          /\ \A p \in Procs : Stands(p)
          /\ (\A p \in Procs : ~Active(p)) => Rest

LEMMA CalmInitially == AuthorityInit => CalmInv
<1> SUFFICES ASSUME AuthorityInit PROVE CalmInv
  OBVIOUS
<1>1. \A p \in Procs : pc[p] = "idle"
  BY DEF AuthorityInit
<1>2. Alone /\ \A p \in Procs : Stands(p)
  BY <1>1 DEF Alone, Active, Stands
<1>3. cert = key /\ cert # Torn
  BY AuthorityAssumption DEF AuthorityInit, Authorities
<1>4. foreign \/ marker \/ cert = None
  <2>1. CASE cert = None
    BY <2>1
  <2>2. CASE marker \in BOOLEAN /\ foreign = ~marker
    BY <2>2, Zenon
  <2> QED BY <2>1, <2>2, Zenon DEF AuthorityInit
<1> QED BY <1>2, <1>3, <1>4 DEF CalmInv, Rest

\* The others keep their place and what they have read.
LEMMA OthersStay ==
  ASSUME TypeInv, NEW p \in Procs, Step(p), NEW q \in Procs \ {p}
  PROVE  pc'[q] = pc[q] /\ loaded'[q] = loaded[q]
<1>1. pc'[q] = pc[q]
  BY OneMoves DEF TypeInv, PlacesOK
<1>2. loaded' = loaded \/ \E pair : loaded' = [loaded EXCEPT ![p] = pair]
  BY DEF Step, Start, Remove, Begin, Look, Judge, Generate, WriteCert, OpenKey, WriteKey,
         WriteMarker, LoadCert, LoadKey, Finish, Confirm, RemoveFile, Stop
<1> QED BY <1>1, <1>2 DEF TypeInv, LoadedOK

LEMMA StaysCalm ==
  ASSUME NEW p \in Procs, Step(p), calm'
  PROVE  calm /\ ~Stop(p) /\ (Start(p) \/ Remove(p) => \A q \in Procs \ {p} : ~Active(q))
  BY DEF Active, Step, Start, Remove, Begin, Look, Judge, Generate, WriteCert, OpenKey, WriteKey,
         WriteMarker, LoadCert, LoadKey, Finish, Confirm, RemoveFile, Stop

LEMMA PlaceMoves ==
  ASSUME TypeInv, NEW p \in Procs, NEW from, NEW to, Goes(p, from, to)
  PROVE  pc[p] = from /\ pc'[p] = to
  BY DEF TypeInv, PlacesOK, Goes

LEMMA PlaceEnds ==
  ASSUME TypeInv, NEW p \in Procs, NEW how, Ends(p, how)
  PROVE  pc'[p] = "idle" /\ verdict'[p] = how
  BY DEF TypeInv, PlacesOK, Ends

\* The step of the only active process.
LEMMA CalmMoves ==
  ASSUME TypeInv, NEW p \in Procs, Step(p), calm', ~Finish(p), Stands(p),
         (\A q \in Procs : ~Active(q)) => Rest,
         \A q \in Procs \ {p} : ~Active(q)
  PROVE  Stands(p)' /\ (~Active(p)' => Rest')
<1> USE PlaceMoves, PlaceEnds, AuthorityAssumption DEF files
<1>1. CASE Start(p) \/ Remove(p)
  <2>1. pc[p] = "idle" /\ pc'[p] \in {"look", "confirm"}
    BY <1>1 DEF Start, Remove, Begin
  <2>2. Rest /\ Rest'
    BY <1>1, <2>1 DEF Start, Remove, Begin, Active, Rest
  <2> QED BY <2>1, <2>2 DEF Stands, Active
<1>2. CASE Look(p)
  <2>1. pc[p] \in {"look", "look key"} /\ pc'[p] \in {"look key", "create", "legacy"}
    BY <1>2 DEF Look
  <2>2. UNCHANGED <<cert, key, marker, foreign>>
    BY <1>2 DEF Look
  <2> QED BY <2>1, <2>2 DEF Stands, Active, Rest
<1>3. CASE Judge(p)
  <2>1. pc[p] \in {"legacy", "validity"} /\ pc'[p] \in {"load", "validity", "create", "idle"}
    BY <1>3 DEF Judge
  <2>2. UNCHANGED <<cert, key, marker, foreign>>
    BY <1>3 DEF Judge
  <2> QED BY <2>1, <2>2 DEF Stands, Active, Rest
<1>4. CASE Generate(p)
  <2>1. pc'[p] = "cert"
    BY <1>4 DEF Generate
  <2>2. made'[p] \in Authorities
    BY <1>4 DEF Generate, TypeInv, MadeOK, Authorities
  <2> QED BY <2>1, <2>2 DEF Stands, Active
<1>5. CASE WriteCert(p)
  BY <1>5 DEF WriteCert, Stands, Active
<1>6. CASE OpenKey(p)
  BY <1>6, ZenonT(60) DEF OpenKey, Stands, Active
<1>7. CASE WriteKey(p)
  BY <1>7 DEF WriteKey, Stands, Active
<1>8. CASE WriteMarker(p)
  BY <1>8 DEF WriteMarker, Stands, Active, Rest
<1>9. CASE LoadCert(p)
  <2>1. pc[p] = "load" /\ UNCHANGED <<cert, key, marker, foreign>>
    BY <1>9 DEF LoadCert
  <2>2. CASE pc'[p] = "idle"
    BY <2>1, <2>2 DEF Stands, Active, Rest
  <2>3. CASE pc'[p] = "load key" /\ loaded' = [loaded EXCEPT ![p].cert = cert]
    <3>1. loaded'[p].cert = cert
      BY <2>3 DEF TypeInv, LoadedOK, Pairs
    <3> QED BY <2>1, <2>3, <3>1 DEF Stands, Active, Rest
  <2> QED BY <1>9, <2>2, <2>3 DEF LoadCert
<1>10. CASE LoadKey(p)
  <2>1. pc[p] = "load key" /\ UNCHANGED <<cert, key, marker, foreign>>
    BY <1>10 DEF LoadKey
  <2>2. CASE pc'[p] = "idle"
    BY <2>1, <2>2 DEF Stands, Active, Rest
  <2>3. CASE pc'[p] = "up" /\ loaded' = [loaded EXCEPT ![p].key = key]
    <3>1. loaded'[p].cert = loaded[p].cert /\ loaded'[p].key = key
      BY <2>3 DEF TypeInv, LoadedOK, Pairs
    <3> QED BY <2>1, <2>3, <3>1 DEF Stands, Active, Rest
  <2> QED BY <1>10, <2>2, <2>3 DEF LoadKey
<1>11. CASE Confirm(p)
  <2>1. pc[p] \in {"confirm"} /\ pc'[p] \in {"remove cert", "idle"}
    BY <1>11 DEF Confirm
  <2>2. UNCHANGED <<cert, key, marker, foreign>>
    BY <1>11 DEF Confirm
  <2> QED BY <2>1, <2>2 DEF Stands, Active, Rest
<1>12. CASE RemoveFile(p)
  <2>1. CASE pc[p] = "remove cert"
    <3>1. pc'[p] = "remove key" /\ cert' = None
      BY <1>12, <2>1 DEF RemoveFile
    <3> QED BY <3>1 DEF Stands, Active
  <2>2. CASE pc[p] = "remove key"
    <3>1. pc'[p] = "remove marker" /\ key' = None /\ cert' = cert
      BY <1>12, <2>2 DEF RemoveFile
    <3> QED BY <2>2, <3>1 DEF Stands, Active
  <2>3. CASE pc[p] = "remove marker"
    <3>1. pc'[p] = "idle" /\ key' = key /\ cert' = cert
      BY <1>12, <2>3 DEF RemoveFile
    <3> QED BY <2>3, <3>1 DEF Stands, Active, Rest
  <2> QED BY <1>12, <2>1, <2>2, <2>3 DEF RemoveFile
<1>13. ~Stop(p)
  BY StaysCalm
<1> QED BY <1>1, <1>2, <1>3, <1>4, <1>5, <1>6, <1>7, <1>8, <1>9, <1>10, <1>11, <1>12, <1>13
        DEF Step

\* A process at rest is only judged by what it has loaded.
LEMMA AtRestStands ==
  ASSUME TypeInv, NEW p \in Procs, Step(p), NEW q \in Procs \ {p}, ~Active(q), Stands(q)
  PROVE  ~Active(q)' /\ Stands(q)'
<1>1. pc'[q] = pc[q] /\ loaded'[q] = loaded[q]
  BY OthersStay
<1>2. pc[q] \in {"idle", "up"}
  BY DEF Active
<1> QED BY <1>1, <1>2 DEF Stands, Active

LEMMA CalmStep ==
  ASSUME TypeInv, CalmInv, NEW p \in Procs, Step(p)
  PROVE  CalmInv'
<1> SUFFICES ASSUME calm'
             PROVE  /\ Alone' /\ \A q \in Procs : Stands(q)'
                    /\ (\A q \in Procs : ~Active(q)') => Rest'
  BY DEF CalmInv
<1>1. calm /\ ~Stop(p) /\ (Start(p) \/ Remove(p) => \A q \in Procs \ {p} : ~Active(q))
  BY StaysCalm
<1>2. Alone /\ (\A q \in Procs : Stands(q)) /\ ((\A q \in Procs : ~Active(q)) => Rest)
  BY <1>1 DEF CalmInv
<1>3. CASE Finish(p)
  <2>1. pc[p] = "up" /\ pc'[p] = "idle"
    BY <1>3, PlaceMoves DEF Finish
  <2>2. \A q \in Procs : q # p => pc'[q] = pc[q] /\ loaded'[q] = loaded[q]
    BY OthersStay
  <2>3. UNCHANGED <<cert, key, marker, foreign, made>>
    BY <1>3 DEF Finish, files
  <2>4. \A q \in Procs : Active(q)' <=> Active(q)
    BY <2>1, <2>2 DEF Active
  <2>5. Alone'
    BY <1>2, <2>4 DEF Alone
  <2>6. Rest' <=> Rest
    BY <2>3 DEF Rest
  <2>7. ASSUME NEW q \in Procs PROVE Stands(q)'
    <3>1. CASE q = p
      BY <2>1, <3>1 DEF Stands
    <3>2. CASE q # p
      BY <1>2, <2>2, <2>3, <2>6, <3>2 DEF Stands
    <3> QED BY <3>1, <3>2
  <2> QED BY <1>2, <2>4, <2>5, <2>6, <2>7
<1>4. CASE ~Finish(p)
  <2>1. \A q \in Procs \ {p} : ~Active(q)
    <3>1. CASE Start(p) \/ Remove(p)
      BY <1>1, <3>1
    <3>2. CASE Active(p)
      BY <1>2, <3>2 DEF Alone
    <3>3. Start(p) \/ Remove(p) \/ Active(p)
      BY <1>1, <1>4 DEF Step, Active, Goes, Look, Judge, Generate, WriteCert, OpenKey, WriteKey,
             WriteMarker, LoadCert, LoadKey, Confirm, RemoveFile
    <3> QED BY <3>1, <3>2, <3>3
  <2>2. Stands(p)' /\ (~Active(p)' => Rest')
    BY <1>2, <1>4, <2>1, CalmMoves
  <2>3. \A q \in Procs \ {p} : ~Active(q)' /\ Stands(q)'
    BY <1>2, <2>1, AtRestStands
  <2>4. Alone'
    BY <2>3 DEF Alone
  <2> QED BY <2>2, <2>3, <2>4
<1> QED BY <1>3, <1>4

LEMMA CalmStays == TypeInv /\ CalmInv /\ [AuthorityNext]_authorityVars => CalmInv'
<1> SUFFICES ASSUME TypeInv, CalmInv, [AuthorityNext]_authorityVars PROVE CalmInv'
  OBVIOUS
<1>1. CASE UNCHANGED authorityVars
  BY <1>1 DEF CalmInv, Alone, Active, Stands, Rest, authorityVars, files, process
<1> QED BY <1>1, CalmStep DEF AuthorityNext

\* Without crashes and overlaps, the authority that a process uses has the key of
\* its certificate (authority.rs 85-95, 102-118).
THEOREM AuthorityCalmPair == AuthoritySpec => []CalmPairMatches
<1>1. CalmInv => CalmPairMatches
  BY DEF CalmInv, CalmPairMatches, Stands
<1> QED BY <1>1, TypesInitially, TypesStep, CalmInitially, CalmStays, PTL DEF AuthoritySpec

\* Alone and without crashes, a confirmed removal of what TLScope created leaves
\* neither file, whatever was started and removed before (authority.rs 145-158).
THEOREM AuthorityCalmRemoval == AuthoritySpec => CalmRemovalIsComplete
<1>1. ASSUME TypeInv, CalmInv, [AuthorityNext]_authorityVars, NEW p \in Procs, calm, RemovalEnds(p)
      PROVE  cert' = None /\ key' = None
  <2>1. pc[p] \in {"confirm", "remove marker"} /\ pc'[p] = "idle" /\ ~foreign
        /\ verdict'[p] \in {"nothing", "removed"}
    BY <1>1 DEF RemovalEnds
  <2>2. Stands(p)
    BY <1>1 DEF CalmInv
  <2>3. PICK q \in Procs : Step(q)
    BY <1>1, <2>1 DEF AuthorityNext, authorityVars, process
  <2>4. q = p
    BY <1>1, <2>1, <2>3, OthersStay
  <2>5. Confirm(p) \/ RemoveFile(p)
    <3>1. ASSUME Stop(p) PROVE FALSE
      <4>1. Ends(p, "failed")
        BY <3>1 DEF Stop
      <4>2. verdict'[p] = "failed"
        BY <1>1, <4>1, PlaceEnds
      <4> QED BY <2>1, <4>2
    <3> QED BY <2>1, <2>3, <2>4, <3>1 DEF Step, Start, Remove, Begin, Goes, Look, Judge, Generate,
               WriteCert, OpenKey, WriteKey, WriteMarker, LoadCert, LoadKey, Finish
  <2>6. CASE Confirm(p)
    <3>1. pc[p] = "confirm" /\ cert' = cert /\ key' = key
      BY <2>6 DEF Confirm, files
    <3>2. ~Ends(p, "kept") /\ ~Goes(p, "confirm", "remove cert")
      <4>1. ASSUME Ends(p, "kept") PROVE FALSE
        <5>1. verdict'[p] = "kept"
          BY <1>1, <4>1, PlaceEnds
        <5> QED BY <2>1, <5>1
      <4>2. ASSUME Goes(p, "confirm", "remove cert") PROVE FALSE
        <5>1. pc'[p] = "remove cert"
          BY <1>1, <4>2, PlaceMoves
        <5> QED BY <2>1, <5>1
      <4> QED BY <4>1, <4>2
    <3>3. ~marker
      BY <2>6, <3>2 DEF Confirm
    <3> QED BY <2>1, <2>2, <3>1, <3>3 DEF Stands, Rest
  <2>7. CASE RemoveFile(p)
    <3>1. pc[p] = "remove marker" /\ cert' = cert /\ key' = key
      BY <1>1, <2>1, <2>7, PlaceMoves DEF RemoveFile, Goes
    <3> QED BY <2>2, <3>1 DEF Stands
  <2> QED BY <2>5, <2>6, <2>7
<1>2. TypeInv /\ CalmInv /\ [AuthorityNext]_authorityVars
      => [\A p \in Procs : calm /\ RemovalEnds(p) => cert' = None /\ key' = None]_authorityVars
  BY <1>1
<1> QED BY <1>2, TypesInitially, TypesStep, CalmInitially, CalmStays, PTL
        DEF AuthoritySpec, CalmRemovalIsComplete

=============================================================================
