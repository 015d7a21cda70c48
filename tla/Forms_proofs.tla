----------------------------- MODULE Forms_proofs -----------------------------
(***************************************************************************)
(* Proofs about what the user fills in. Of Launcher, for any folder, any    *)
(* directories and any number of authorities: the types, that there is a    *)
(* file behind Enter as long as the filter leaves one, and that an          *)
(* authority called trusted is the one in the directory and in the store.   *)
(* Of FilterEditor, for any characters, texts, keys, entries and widths:    *)
(* the types, with a cursor that never stands inside a character, and all   *)
(* three properties, what the frame shows of the text, what it offers and   *)
(* what Tab takes. Where FilterEditor defines by recursion, that the        *)
(* function exists and what it gives is shown with the least number for     *)
(* which it would not.                                                      *)
(***************************************************************************)
EXTENDS Launcher, FilterEditor, FiniteSetTheorems, WellFoundedInduction, TLAPS

-------------------------------------------------------------------------------
(* The launcher's form.                                                        *)

Fields == {"Target", "Arguments", "Workdir", "Listen", "CaDir", "MaxBody", "CaStatus",
           "Env", "CreateCa", "SaveSession", "InstallCaTrust", "HttpsInspection",
           "CaPath", "OnlyHttp1", "CaFingerprint", "ExtraCaEnv", "RemoveCa", "Redact",
           "ShowSecrets", "Start"}

FormTypeOK ==
  /\ screen \in {"form", "select", "launched", "cancelled"}
  /\ field \in Fields
  /\ editing \in BOOLEAN /\ confirm_remove_ca \in BOOLEAN /\ alone \in BOOLEAN
  /\ target \in {"nothing", "folder", "file"}

ListTypeOK == shown \in SUBSET DOMAIN Kinds /\ chosen \in Nat

Statuses == {"not checked", "not created", "trusted", "not trusted", "check failed",
             "CA error", "install failed", "remove failed"}

CaTypeOK ==
  /\ ca_dir \in Dirs /\ ca_trust_status \in Statuses
  /\ cert \in [Dirs -> {None} \cup 1 .. MaxMade]
  /\ keys \in SUBSET Dirs /\ ours \in SUBSET Dirs
  /\ windows \in BOOLEAN /\ roots \in SUBSET (1 .. MaxMade)
  /\ made \in 0 .. MaxMade

LauncherTypeOK == FormTypeOK /\ ListTypeOK /\ CaTypeOK

\* The steps of the launcher by the variables that they touch.
FormStep ==
  \/ \E direction \in {-1, 1} :
       MoveSelectionVertical(direction) \/ MoveSelectionHorizontal(direction)
  \/ BeginEdit \/ CancelEdit \/ CancelLaunch
  \/ BeginRemove \/ RefuseRemove \/ LaunchChosen \/ CancelSelect
CaStep == CheckCaStatus \/ CreateCa \/ InstallCaTrust \/ RemoveCaFiles
ListStep == FilterLaunch \/ MoveLaunchVertical \/ MoveLaunchHorizontal \/ JumpLaunch

\* Each step of the launcher is one of the form, of the list or of the authority.
LEMMA StepsByVariables ==
  LauncherNext <=> FormStep \/ CaStep \/ ListStep \/ ApplyEdit \/ Start
BY DEF LauncherNext, FormStep, CaStep, ListStep

\* What each kind of step leaves alone.
LEMMA FormStepLeaves == FormStep => UNCHANGED <<caVars, listVars, systemVars>>
BY DEF FormStep, MoveSelectionVertical, MoveSelectionHorizontal, BeginEdit, CancelEdit,
       CancelLaunch, BeginRemove, RefuseRemove, LaunchChosen, CancelSelect

LEMMA CaStepLeaves == CaStep => screen' = screen /\ UNCHANGED listVars
BY DEF CaStep, CheckCaStatus, CreateCa, InstallCaTrust, RemoveCaFiles, formVars

LEMMA ListStepLeaves == ListStep => UNCHANGED <<formVars, caVars, systemVars>>
BY DEF ListStep, FilterLaunch, MoveLaunchVertical, MoveLaunchHorizontal, JumpLaunch

-----------------------------------------------------------------------------
(* The list of launch options.                                              *)

\* There are finitely many options, and so are those that a filter leaves.
LEMMA ShownIsFinite ==
  ASSUME NEW S \in SUBSET DOMAIN Kinds
  PROVE  /\ IsFiniteSet(S) /\ Cardinality(S) \in Nat
         /\ S # {} => Cardinality(S) > 0
<1>1. DOMAIN Kinds = 1 .. Len(Kinds) /\ Len(Kinds) \in Nat
  BY LauncherAssumption
<1>2. IsFiniteSet(DOMAIN Kinds) BY <1>1, FS_Interval
<1>3. IsFiniteSet(S) BY <1>2, FS_Subset
<1> QED BY <1>3, FS_CardinalityType, FS_EmptySet

\* The list is left alone when it is not on the screen, and entered at its start.
ListInv ==
  /\ ListTypeOK
  /\ screen = "select" /\ shown # {} => chosen < Cardinality(shown)

\* The list begins well.
LEMMA ListInit == LauncherInit => ListInv
<1> SUFFICES ASSUME LauncherInit PROVE ListInv OBVIOUS
<1>1. shown = DOMAIN Kinds /\ chosen = 0 BY DEF LauncherInit
<1> QED BY <1>1, ShownIsFinite DEF ListInv, ListTypeOK

\* A step of the list keeps the chosen row inside it.
LEMMA ListStepInside ==
  ASSUME ListInv, ListStep
  PROVE  ListTypeOK' /\ (shown' # {} => chosen' < Cardinality(shown'))
<1>1. /\ shown \in SUBSET DOMAIN Kinds /\ chosen \in Nat
      /\ IsFiniteSet(shown) /\ Cardinality(shown) \in Nat
      /\ shown # {} => Cardinality(shown) > 0
  BY ShownIsFinite DEF ListInv, ListTypeOK
<1>2. CASE FilterLaunch
  <2>1. shown' \in SUBSET DOMAIN Kinds BY <1>1, <1>2 DEF FilterLaunch
  <2>2. Cardinality(shown') \in Nat /\ (shown' # {} => Cardinality(shown') > 0)
    BY <2>1, ShownIsFinite
  <2>3. chosen' = IF chosen >= Cardinality(shown')
                    THEN Minus(Cardinality(shown'), 1) ELSE chosen
    BY <1>2 DEF FilterLaunch, Clamp
  <2> QED BY <1>1, <2>1, <2>2, <2>3 DEF Minus, ListTypeOK
<1>3. CASE MoveLaunchVertical \/ MoveLaunchHorizontal
  <2>1. shown' = shown BY <1>3 DEF MoveLaunchVertical, MoveLaunchHorizontal
  <2>2. chosen' = 0 \/ \E i \in Listed \cup Beside(chosen) : chosen' \in Column(i)
    BY <1>3 DEF MoveLaunchVertical, MoveLaunchHorizontal
  <2>3. chosen' = 0 \/ chosen' \in Listed BY <2>2 DEF Column
  <2> QED BY <1>1, <2>1, <2>3 DEF Listed, ListTypeOK
<1>4. CASE JumpLaunch
  <2>1. shown' = shown /\ chosen' \in {0, Minus(Cardinality(shown), 1)}
    BY <1>4 DEF JumpLaunch
  <2> QED BY <1>1, <2>1 DEF Minus, ListTypeOK
<1> QED BY <1>2, <1>3, <1>4 DEF ListStep

\* No step leaves the list without its chosen row.
LEMMA ListStepInv == ListInv /\ [LauncherNext]_launcherVars => ListInv'
<1> SUFFICES ASSUME ListInv, [LauncherNext]_launcherVars PROVE ListInv' OBVIOUS
<1>1. CASE UNCHANGED launcherVars
  BY <1>1 DEF launcherVars, formVars, listVars, ListInv, ListTypeOK
<1>2. CASE FormStep
  <2>1. UNCHANGED listVars BY <1>2, FormStepLeaves
  <2>2. screen' = "select" => screen = "select"
    BY <1>2 DEF FormStep, MoveSelectionVertical, MoveSelectionHorizontal, BeginEdit,
                CancelEdit, CancelLaunch, BeginRemove, RefuseRemove, LaunchChosen,
                CancelSelect
  <2> QED BY <2>1, <2>2 DEF listVars, ListInv, ListTypeOK
<1>3. CASE CaStep
  BY <1>3, CaStepLeaves DEF listVars, ListInv, ListTypeOK
<1>4. CASE ListStep
  BY <1>4, ListStepInside DEF ListInv
<1>5. CASE ApplyEdit
  BY <1>5 DEF ApplyEdit, listVars, ListInv, ListTypeOK
<1>6. CASE Start
  <2>1. \/ shown' = DOMAIN Kinds /\ chosen' = 0
        \/ screen' = "launched" /\ UNCHANGED listVars
    BY <1>6 DEF Start
  <2>2. CASE shown' = DOMAIN Kinds /\ chosen' = 0
    BY <2>2, ShownIsFinite DEF ListInv, ListTypeOK
  <2>3. CASE screen' = "launched" /\ UNCHANGED listVars
    BY <2>3 DEF listVars, ListInv, ListTypeOK
  <2> QED BY <2>1, <2>2, <2>3
<1> QED BY <1>1, <1>2, <1>3, <1>4, <1>5, <1>6, StepsByVariables

\* Enter has a file to launch as long as the filter leaves one, however filters
\* and columns change (interactive.rs 1346-1425).
THEOREM LauncherChosenIsListed == LauncherSpec => []ChosenIsListed
<1>1. ListInv => ChosenIsListed
  <2> SUFFICES ASSUME ListInv, screen = "select", shown # {} PROVE chosen \in Listed
    BY DEF ChosenIsListed
  <2>1. chosen \in Nat /\ Cardinality(shown) \in Nat /\ chosen < Cardinality(shown)
    BY ShownIsFinite DEF ListInv, ListTypeOK
  <2> QED BY <2>1 DEF Listed
<1> QED BY <1>1, ListInit, ListStepInv, PTL DEF LauncherSpec

-----------------------------------------------------------------------------
(* The authority of the chosen directory.                                   *)

CaInv == CaTypeOK /\ StatusIsOfThisAuthority

\* The authority begins well.
LEMMA CaInit == LauncherInit => CaInv
<1> SUFFICES ASSUME LauncherInit PROVE CaInv OBVIOUS
<1>1. ca_dir \in Dirs /\ ca_trust_status = "not checked" BY DEF LauncherInit
<1>2. cert \in [Dirs -> {None, 1}] /\ keys = {d \in Dirs : cert[d] = 1} /\ ours \in SUBSET keys
  BY DEF LauncherInit
<1>3. made \in {0, 1} /\ windows \in BOOLEAN /\ roots \in SUBSET (1 .. made)
  BY DEF LauncherInit
<1>4. 1 \in 1 .. MaxMade /\ made \in 0 .. MaxMade /\ 1 .. made \subseteq 1 .. MaxMade
  BY <1>3, LauncherAssumption
<1>5. cert \in [Dirs -> {None} \cup 1 .. MaxMade] BY <1>2, <1>4
<1> QED BY <1>1, <1>2, <1>3, <1>4, <1>5 DEF CaInv, CaTypeOK, Statuses, StatusIsOfThisAuthority

\* A new certificate is one that was never there, and a real one.
LEMMA NewCertTypes ==
  ASSUME CaTypeOK, NewCert
  PROVE  /\ cert' \in [Dirs -> {None} \cup 1 .. MaxMade]
         /\ made' \in 0 .. MaxMade
         /\ cert'[ca_dir] \in 1 .. MaxMade /\ cert'[ca_dir] # None
<1>1. made \in 0 .. MaxMade /\ made < MaxMade /\ made' = made + 1
      /\ cert' = [cert EXCEPT ![ca_dir] = made + 1]
  BY DEF CaTypeOK, NewCert
<1>2. made + 1 \in 1 .. MaxMade /\ made + 1 # None BY <1>1, LauncherAssumption
<1>3. ca_dir \in Dirs /\ cert \in [Dirs -> {None} \cup 1 .. MaxMade] BY DEF CaTypeOK
<1>4. cert' \in [Dirs -> {None} \cup 1 .. MaxMade] /\ cert'[ca_dir] = made + 1
  BY <1>1, <1>2, <1>3
<1> QED BY <1>1, <1>2, <1>4

\* What load_or_create leaves behind, whether or not it succeeds.
LEMMA LoadTypes ==
  ASSUME CaTypeOK, Loads \/ Creates \/ LoadFails
  PROVE  /\ cert' \in [Dirs -> {None} \cup 1 .. MaxMade]
         /\ keys' \in SUBSET Dirs /\ ours' \in SUBSET Dirs /\ made' \in 0 .. MaxMade
<1>1. UNCHANGED fileVars \/ NewCert
  BY DEF Loads, Creates, LoadFails
<1>2. keys' \in {keys, keys \cup {ca_dir}} /\ ours' \in {ours, ours \cup {ca_dir}}
  BY DEF Loads, Creates, LoadFails, fileVars
<1>3. CASE UNCHANGED fileVars BY <1>3 DEF fileVars, CaTypeOK
<1>4. CASE NewCert
  <2>1. cert' \in [Dirs -> {None} \cup 1 .. MaxMade] /\ made' \in 0 .. MaxMade
    BY <1>4, NewCertTypes
  <2> QED BY <1>2, <2>1 DEF CaTypeOK
<1> QED BY <1>1, <1>3, <1>4

\* After loading or creating, the directory has a certificate.
LEMMA LoadedIsThere ==
  ASSUME CaTypeOK, Loads \/ Creates
  PROVE  cert'[ca_dir] # None /\ cert'[ca_dir] \in 1 .. MaxMade
<1>1. CASE Loads
  <2>1. cert' = cert /\ cert[ca_dir] # None BY <1>1 DEF Loads, fileVars
  <2>2. cert[ca_dir] \in {None} \cup 1 .. MaxMade BY DEF CaTypeOK
  <2> QED BY <2>1, <2>2
<1>2. CASE Creates BY <1>2, NewCertTypes DEF Creates
<1> QED BY <1>1, <1>2

\* No step leaves a status that is not that of the authority.
LEMMA CaStepInv == CaInv /\ [LauncherNext]_launcherVars => CaInv'
<1> SUFFICES ASSUME CaInv, [LauncherNext]_launcherVars PROVE CaInv' OBVIOUS
<1>0. CaTypeOK BY DEF CaInv
<1>1. CASE UNCHANGED <<caVars, systemVars>>
  BY <1>1 DEF caVars, systemVars, fileVars, CaInv, CaTypeOK, StatusIsOfThisAuthority
<1>2. CASE CheckCaStatus
  <2>1. UNCHANGED <<ca_dir, systemVars>> BY <1>2 DEF CheckCaStatus
  <2>2. \/ cert[ca_dir] = None /\ ca_trust_status' = "not created"
        \/ cert[ca_dir] # None /\ ca_trust_status' \in {"not trusted", "check failed"}
        \/ /\ cert[ca_dir] # None /\ windows /\ cert[ca_dir] \in roots
           /\ ca_trust_status' = "trusted"
    BY <1>2 DEF CheckCaStatus, Installed
  <2>3. CaTypeOK' BY <1>0, <2>1, <2>2 DEF systemVars, fileVars, CaTypeOK, Statuses
  <2>4. StatusIsOfThisAuthority'
    BY <2>1, <2>2 DEF systemVars, fileVars, StatusIsOfThisAuthority
  <2> QED BY <2>3, <2>4 DEF CaInv
<1>3. CASE CreateCa
  <2>1. ca_dir' = ca_dir /\ roots' = roots /\ windows' = windows
        /\ ca_trust_status' \in {"not checked", "CA error"}
        /\ (Loads \/ Creates \/ LoadFails)
    BY <1>3 DEF CreateCa
  <2>2. CaTypeOK' BY <1>0, <2>1, LoadTypes DEF CaTypeOK, Statuses
  <2>3. StatusIsOfThisAuthority' BY <2>1 DEF StatusIsOfThisAuthority
  <2> QED BY <2>2, <2>3 DEF CaInv
<1>4. CASE InstallCaTrust
  <2>1. ca_dir' = ca_dir /\ (Loads \/ Creates \/ LoadFails) BY <1>4 DEF InstallCaTrust
  <2>2. /\ windows' = windows
        /\ \/ /\ ca_trust_status' \in {"check failed", "install failed", "CA error"}
              /\ roots' = roots
           \/ /\ windows /\ (Loads \/ Creates)
              /\ ca_trust_status' = "trusted" /\ roots' = roots \cup {cert'[ca_dir]}
    <3>1. windows' = windows BY <1>4 DEF InstallCaTrust
    <3>2. \/ /\ ca_trust_status' \in {"check failed", "install failed", "CA error"}
             /\ roots' = roots
          \/ /\ windows /\ (Loads \/ Creates)
             /\ ca_trust_status' = "trusted" /\ roots' = roots
             /\ cert'[ca_dir] \in roots
          \/ /\ windows /\ (Loads \/ Creates)
             /\ ca_trust_status' = "trusted" /\ roots' = roots \cup {cert'[ca_dir]}
      BY <1>4 DEF InstallCaTrust, Installed
    <3> QED BY <3>1, <3>2
  <2>3. CASE ca_trust_status' # "trusted"
    <3>1. ca_trust_status' \in {"check failed", "install failed", "CA error"} /\ roots' = roots
      BY <2>2, <2>3
    <3>2. CaTypeOK' BY <1>0, <2>1, <2>2, <3>1, LoadTypes DEF CaTypeOK, Statuses
    <3> QED BY <3>1, <3>2 DEF CaInv, StatusIsOfThisAuthority
  <2>4. CASE ca_trust_status' = "trusted"
    <3>1. /\ windows /\ windows' = windows
          /\ (Loads \/ Creates) /\ roots' = roots \cup {cert'[ca_dir]}
      BY <2>2, <2>4
    <3>2. cert'[ca_dir] # None /\ cert'[ca_dir] \in 1 .. MaxMade
      BY <1>0, <3>1, LoadedIsThere
    <3>3. CaTypeOK' BY <1>0, <2>1, <2>4, <3>1, <3>2, LoadTypes DEF CaTypeOK, Statuses
    <3> QED BY <2>1, <2>4, <3>1, <3>2, <3>3 DEF CaInv, StatusIsOfThisAuthority
  <2> QED BY <2>3, <2>4
<1>5. CASE RemoveCaFiles
  <2>1. ca_dir' = ca_dir /\ roots' = roots /\ windows' = windows /\ made' = made
        /\ ca_trust_status' \in {"not created", "remove failed"}
        /\ keys' \in {keys, keys \ {ca_dir}} /\ ours' \in {ours, ours \ {ca_dir}}
        /\ cert' \in {cert, [cert EXCEPT ![ca_dir] = None]}
    BY <1>5 DEF RemoveCaFiles
  <2>2. CaTypeOK' BY <1>0, <2>1 DEF CaTypeOK, Statuses
  <2>3. ca_trust_status' = "not created" => ca_dir \notin ours'
    <3>1. CASE ca_dir \notin ours BY <2>1, <3>1
    <3>2. CASE ca_dir \in ours /\ ours' # ours \ {ca_dir}
      BY <1>5, <3>2 DEF RemoveCaFiles
    <3>3. CASE ours' = ours \ {ca_dir} BY <3>3
    <3> QED BY <3>1, <3>2, <3>3
  <2>4. ca_trust_status' \notin {"trusted", "not trusted"} BY <2>1
  <2>5. StatusIsOfThisAuthority' BY <2>1, <2>3, <2>4 DEF StatusIsOfThisAuthority
  <2> QED BY <2>2, <2>5 DEF CaInv
<1>6. CASE ApplyEdit
  <2>1. UNCHANGED systemVars
        /\ (UNCHANGED caVars \/ (ca_dir' \in Dirs /\ ca_trust_status' = "not checked"))
    BY <1>6 DEF ApplyEdit
  <2>2. CASE UNCHANGED caVars BY <1>1, <2>1, <2>2
  <2>3. CASE ca_dir' \in Dirs /\ ca_trust_status' = "not checked"
    BY <2>1, <2>3
    DEF systemVars, fileVars, CaInv, CaTypeOK, Statuses, StatusIsOfThisAuthority
  <2> QED BY <2>1, <2>2, <2>3
<1>7. CASE UNCHANGED launcherVars BY <1>1, <1>7 DEF launcherVars
<1>8. CASE FormStep BY <1>1, <1>8, FormStepLeaves
<1>9. CASE ListStep BY <1>1, <1>9, ListStepLeaves
<1>10. CASE Start BY <1>1, <1>10 DEF Start
<1> QED
  BY <1>2, <1>3, <1>4, <1>5, <1>6, <1>7, <1>8, <1>9, <1>10, StepsByVariables DEF CaStep

\* An authority that is called trusted is the one in the directory drawn and in the
\* store, and where none is said to be created TLScope has none of its own, also after
\* what fails half-way (interactive.rs 711-793, 843-864, 1637-1640).
THEOREM LauncherStatus == LauncherSpec => []StatusIsOfThisAuthority
<1>1. CaInv => StatusIsOfThisAuthority BY DEF CaInv
<1> QED BY <1>1, CaInit, CaStepInv, PTL DEF LauncherSpec

-----------------------------------------------------------------------------
(* The types.                                                               *)

\* Every row of the form has a field.
LEMMA RowsHaveFields ==
  ASSUME NEW r \in DOMAIN FIELD_ROWS, NEW c \in Nat \ {0}
  PROVE  FIELD_ROWS[r][Least(c, Len(FIELD_ROWS[r]))] \in Fields
<1>1. DOMAIN FIELD_ROWS = 1 .. 13 BY DEF FIELD_ROWS
<1>2. /\ Len(FIELD_ROWS[r]) \in {1, 2} /\ FIELD_ROWS[r][1] \in Fields
      /\ Len(FIELD_ROWS[r]) = 2 => FIELD_ROWS[r][2] \in Fields
  BY <1>1 DEF FIELD_ROWS, Fields
<1> QED BY <1>2 DEF Least

\* Every field has a place in the form.
LEMMA PositionIsInForm ==
  ASSUME NEW f \in Fields
  PROVE  /\ Position(f)[1] \in DOMAIN FIELD_ROWS
         /\ Position(f)[2] \in {1, 2}
<1> DEFINE Places == (DOMAIN FIELD_ROWS) \X {1, 2}
           Holds(p) == p[2] \in DOMAIN FIELD_ROWS[p[1]] /\ FIELD_ROWS[p[1]][p[2]] = f
<1>1. \E r \in 1 .. 13, c \in {1, 2} : c \in DOMAIN FIELD_ROWS[r] /\ FIELD_ROWS[r][c] = f
  <2>1. CASE f \in {"Target", "Arguments", "Workdir", "Listen", "CaDir", "MaxBody", "CaStatus"}
    <3> QED BY <2>1 DEF FIELD_ROWS
  <2>2. CASE f \in {"Env", "CreateCa", "SaveSession", "InstallCaTrust", "HttpsInspection", "CaPath"}
    <3> QED BY <2>2 DEF FIELD_ROWS
  <2>3. CASE f \in {"OnlyHttp1", "CaFingerprint", "ExtraCaEnv", "RemoveCa", "Redact", "ShowSecrets", "Start"}
    <3> QED BY <2>3 DEF FIELD_ROWS
  <2> QED BY <2>1, <2>2, <2>3 DEF Fields
<1>2. DOMAIN FIELD_ROWS = 1 .. 13 BY DEF FIELD_ROWS
<1>3. PICK r \in 1 .. 13, c \in {1, 2} : c \in DOMAIN FIELD_ROWS[r] /\ FIELD_ROWS[r][c] = f
  BY <1>1
<1>4. <<r, c>> \in Places /\ Holds(<<r, c>>) BY <1>2, <1>3
<1>5. Position(f) = CHOOSE p \in Places : Holds(p) BY DEF Position
<1> HIDE DEF Places, Holds
<1>6. Position(f) \in Places BY <1>4, <1>5
<1> QED BY <1>6 DEF Places

\* The arrows move from a field of the form to a field of the form.
LEMMA MovesStayInForm ==
  ASSUME field \in Fields, NEW direction \in {-1, 1},
         MoveSelectionVertical(direction) \/ MoveSelectionHorizontal(direction)
  PROVE  field' \in Fields
<1> DEFINE r == Position(field)[1]
           c == Position(field)[2]
<1>1. r \in DOMAIN FIELD_ROWS /\ c \in {1, 2} BY PositionIsInForm
<1>2. DOMAIN FIELD_ROWS = 1 .. 13 /\ Len(FIELD_ROWS) = 13 BY DEF FIELD_ROWS
<1>3. CASE MoveSelectionVertical(direction)
  <2> DEFINE next == Most(1, Least(r + direction, Len(FIELD_ROWS)))
  <2>1. field' = FIELD_ROWS[next][Least(c, Len(FIELD_ROWS[next]))]
    BY <1>3 DEF MoveSelectionVertical
  <2>2. next \in DOMAIN FIELD_ROWS BY <1>1, <1>2 DEF Most, Least
  <2> QED BY <1>1, <2>1, <2>2, RowsHaveFields
<1>4. CASE MoveSelectionHorizontal(direction)
  <2> DEFINE fields == FIELD_ROWS[r]
             column == Most(1, c + direction)
  <2>1. field' = fields[Most(1, Least(c + direction, Len(fields)))]
    BY <1>4 DEF MoveSelectionHorizontal
  <2>2. Len(fields) \in {1, 2} BY <1>1, <1>2 DEF FIELD_ROWS
  <2>3. Most(1, Least(c + direction, Len(fields))) = Least(column, Len(fields))
        /\ column \in Nat \ {0}
    <3>1. \A k, n \in {1, 2} : Most(1, Least(k + direction, n)) = Least(Most(1, k + direction), n)
                               /\ Most(1, k + direction) \in Nat \ {0}
      BY DEF Most, Least
    <3> HIDE DEF fields, c
    <3> QED BY <1>1, <2>2, <3>1
  <2> QED BY <1>1, <2>1, <2>3, RowsHaveFields
<1> QED BY <1>3, <1>4

\* The form begins well.
LEMMA FormInit == LauncherInit => FormTypeOK
BY DEF LauncherInit, FormTypeOK, Fields

\* No step leaves the form with a field it does not have.
LEMMA FormTypeStep == FormTypeOK /\ [LauncherNext]_launcherVars => FormTypeOK'
<1> SUFFICES ASSUME FormTypeOK, [LauncherNext]_launcherVars PROVE FormTypeOK' OBVIOUS
<1>1. CASE UNCHANGED formVars BY <1>1 DEF formVars, FormTypeOK
<1>2. ASSUME NEW direction \in {-1, 1},
             MoveSelectionVertical(direction) \/ MoveSelectionHorizontal(direction)
      PROVE  FormTypeOK'
  <2>1. UNCHANGED <<screen, editing, target, confirm_remove_ca, alone>>
    BY <1>2 DEF MoveSelectionVertical, MoveSelectionHorizontal
  <2>2. field' \in Fields BY <1>2, MovesStayInForm DEF FormTypeOK
  <2> QED BY <2>1, <2>2 DEF FormTypeOK
<1>3. CASE BeginEdit \/ CancelEdit \/ CancelLaunch \/ BeginRemove \/ RefuseRemove
  BY <1>3 DEF BeginEdit, CancelEdit, CancelLaunch, BeginRemove, RefuseRemove, FormTypeOK
<1>4. CASE LaunchChosen \/ CancelSelect
  BY <1>4 DEF LaunchChosen, CancelSelect, FormTypeOK
<1>5. CASE CaStep
  BY <1>1, <1>5
  DEF CaStep, CheckCaStatus, CreateCa, InstallCaTrust, RemoveCaFiles, formVars, FormTypeOK
<1>6. CASE ListStep BY <1>1, <1>6, ListStepLeaves
<1>7. CASE ApplyEdit BY <1>7 DEF ApplyEdit, FormTypeOK
<1>8. CASE Start BY <1>8 DEF Start, FormTypeOK
<1>9. CASE UNCHANGED launcherVars BY <1>1, <1>9 DEF launcherVars
<1> QED
  BY <1>2, <1>3, <1>4, <1>5, <1>6, <1>7, <1>8, <1>9, StepsByVariables DEF FormStep

\* Every variable of the launcher keeps its type: the cursor stays on a field of
\* the form, a certificate is one that was made (interactive.rs 711-864, 1346-1425).
THEOREM LauncherTypeCorrect == LauncherSpec => []LauncherTypeOK
<1>1. FormTypeOK /\ ListInv /\ CaInv => LauncherTypeOK BY DEF ListInv, CaInv, LauncherTypeOK
<1> QED
  BY <1>1, FormInit, ListInit, CaInit, FormTypeStep, ListStepInv, CaStepInv, PTL
  DEF LauncherSpec

-------------------------------------------------------------------------------
(* Recursion on the natural numbers.                                           *)

\* A set of natural numbers that is not empty has a least element.
LEMMA LeastNatural ==
  ASSUME NEW S \in SUBSET Nat, NEW n \in S
  PROVE  \E m \in S : \A k \in S : m <= k
<1>1. PICK m \in S : \A k \in S : <<k, m>> \notin OpToRel(<, Nat)
  BY NatLessThanWellFounded, WFMin
<1>2. ASSUME NEW k \in S PROVE m <= k
  <2>1. k \in Nat /\ m \in Nat OBVIOUS
  <2>2. ~(k < m) BY <1>1, <2>1 DEF OpToRel
  <2> QED BY <2>1, <2>2
<1> QED BY <1>2

\* A set of numbers up to a bound that is not empty has a greatest element.
LEMMA GreatestNatural ==
  ASSUME NEW b \in Nat, NEW S \in SUBSET (0 .. b), NEW n \in S
  PROVE  \E m \in S : \A k \in S : k <= m
<1> DEFINE T == {k \in 0 .. b : b - k \in S}
<1>1. b - n \in T
  <2>1. n \in 0 .. b /\ b - n \in 0 .. b /\ b - (b - n) = n OBVIOUS
  <2> QED BY <2>1
<1>2. PICK m \in T : \A k \in T : m <= k
  <2> T \subseteq Nat OBVIOUS
  <2> HIDE DEF T
  <2> QED BY <1>1, LeastNatural
<1>3. ASSUME NEW k \in S PROVE k <= b - m
  <2>1. k \in 0 .. b /\ b - k \in 0 .. b /\ b - (b - k) = k OBVIOUS
  <2>2. m <= b - k BY <1>2, <2>1
  <2> QED BY <2>1, <2>2
<1>4. b - m \in S OBVIOUS
<1> QED BY <1>3, <1>4

\* The greatest and the least element, when it is known which that is.
LEMMA MaxIs ==
  ASSUME NEW S \in SUBSET Int, NEW x \in S, \A y \in S : y <= x
  PROVE  Max(S) = x
<1>1. \A y \in S : x >= y OBVIOUS
<1>2. Max(S) \in S /\ \A y \in S : Max(S) >= y BY <1>1 DEF Max
<1>3. Max(S) >= x /\ x >= Max(S) /\ Max(S) \in Int /\ x \in Int BY <1>1, <1>2
<1> QED BY <1>3

LEMMA MinIs ==
  ASSUME NEW S \in SUBSET Int, NEW x \in S, \A y \in S : x <= y
  PROVE  Min(S) = x
<1>1. Min(S) \in S /\ \A y \in S : Min(S) <= y BY DEF Min
<1>2. Min(S) <= x /\ x <= Min(S) /\ Min(S) \in Int /\ x \in Int BY <1>1
<1> QED BY <1>2

\* The smaller of two numbers.
LEMMA MinOfTwo ==
  ASSUME NEW x \in Int, NEW y \in Int
  PROVE  Min({x, y}) = IF x <= y THEN x ELSE y
<1>1. CASE x <= y BY <1>1, MinIs
<1>2. CASE ~(x <= y)
  <2>1. \A z \in {x, y} : y <= z BY <1>2
  <2>2. {x, y} \in SUBSET Int /\ y \in {x, y} OBVIOUS
  <2> QED BY <1>2, <2>1, <2>2, MinIs
<1> QED BY <1>1, <1>2

\* f begins with a and takes the steps up to n.
Follows(f, V, a, step, n) ==
  f \in [0 .. n -> V] /\ f[0] = a /\ \A i \in 1 .. n : f[i] = step[i][f[i - 1]]

\* A function can be defined up to any number by its first value and its steps.
LEMMA StepsDefine ==
  ASSUME NEW V, NEW a \in V, NEW step \in [Nat -> [V -> V]], NEW n \in Nat
  PROVE  \E f : Follows(f, V, a, step, n)
<1> USE DEF Follows
<1> DEFINE Defines(f, m) == f[0] = a /\ \A i \in 1 .. m : f[i] = step[i][f[i - 1]]
           Bad == {m \in Nat : ~ \E f \in [0 .. m -> V] : Defines(f, m)}
<1>1. SUFFICES ASSUME n \in Bad PROVE FALSE OBVIOUS
<1>2. PICK m \in Bad : \A k \in Bad : m <= k
  <2> Bad \subseteq Nat OBVIOUS
  <2> HIDE DEF Bad
  <2> QED BY <1>1, LeastNatural
<1>3. m \in Nat /\ ~ \E f \in [0 .. m -> V] : Defines(f, m) OBVIOUS
<1>4. CASE m = 0
  <2> DEFINE f == [i \in 0 .. 0 |-> a]
  <2>1. f \in [0 .. 0 -> V] /\ f[0] = a OBVIOUS
  <2>2. Defines(f, 0) BY <2>1
  <2> HIDE DEF f, Defines
  <2> QED BY <1>3, <1>4, <2>1, <2>2
<1>5. CASE m # 0
  <2>1. m - 1 \in Nat BY <1>3, <1>5
  <2>2. m - 1 \notin Bad
    <3> HIDE DEF Bad
    <3> QED BY <1>2, <1>3, <2>1
  <2>3. PICK f \in [0 .. m - 1 -> V] : Defines(f, m - 1) BY <2>1, <2>2
  <2> HIDE DEF Bad
  <2> DEFINE last == step[m][f[m - 1]]
             g == [i \in 0 .. m |-> IF i = m THEN last ELSE f[i]]
  <2>4. f[m - 1] \in V BY <2>1, <2>3
  <2>5. last \in V BY <1>3, <2>4
  <2>6. \A i \in 0 .. m - 1 : i \in 0 .. m /\ i # m BY <1>3
  <2> HIDE DEF last
  <2>7. g \in [0 .. m -> V]
    <3>1. \A i \in 0 .. m : i # m => i \in 0 .. m - 1 BY <1>3
    <3> QED BY <2>5, <3>1
  <2>8. \A i \in 0 .. m - 1 : g[i] = f[i] BY <2>6
  <2>9. g[m] = last BY <1>3
  <2> HIDE DEF g
  <2>10. ASSUME NEW i \in 1 .. m PROVE g[i] = step[i][g[i - 1]]
    <3>1. i - 1 \in 0 .. m - 1 BY <1>3
    <3>2. CASE i = m BY <2>8, <2>9, <3>1, <3>2 DEF last
    <3>3. CASE i # m
      <4>1. i \in 1 .. m - 1 /\ i \in 0 .. m - 1 BY <1>3, <3>3
      <4> QED BY <2>3, <2>8, <3>1, <4>1
    <3> QED BY <3>2, <3>3
  <2>11. g[0] = a
    <3>1. 0 \in 0 .. m - 1 BY <2>1
    <3> QED BY <2>3, <2>8, <3>1
  <2> QED BY <1>3, <2>7, <2>10, <2>11
<1> QED BY <1>4, <1>5

\* What is inside at first and stays inside with every step is inside in the end.
LEMMA StaysInside ==
  ASSUME NEW V, NEW n \in Nat, NEW f, f[0] \in V,
         \A i \in 1 .. n : f[i - 1] \in V => f[i] \in V
  PROVE  f[n] \in V
<1> DEFINE Bad == {i \in 0 .. n : f[i] \notin V}
<1>1. SUFFICES ASSUME n \in Bad PROVE FALSE OBVIOUS
<1>2. PICK m \in Bad : \A k \in Bad : m <= k
  <2> Bad \subseteq Nat OBVIOUS
  <2> HIDE DEF Bad
  <2> QED BY <1>1, LeastNatural
<1>3. m \in 0 .. n /\ f[m] \notin V OBVIOUS
<1>4. m # 0 BY <1>3
<1>5. m \in 1 .. n /\ m - 1 \in 0 .. n /\ ~(m <= m - 1) BY <1>3, <1>4
<1>6. f[m - 1] \in V
  <2>1. m - 1 \notin Bad
    <3> HIDE DEF Bad
    <3> QED BY <1>2, <1>5
  <2> QED BY <1>5, <2>1
<1> QED BY <1>3, <1>5, <1>6

-------------------------------------------------------------------------------
(* Sequences.                                                                  *)

\* What a piece of a sequence holds.
LEMMA Piece ==
  ASSUME NEW V, NEW s \in Seq(V), NEW a \in 0 .. Len(s), NEW b \in a .. Len(s)
  PROVE  /\ SubSeq(s, a + 1, b) \in Seq(V) /\ Len(SubSeq(s, a + 1, b)) = b - a
         /\ \A k \in 1 .. b - a : SubSeq(s, a + 1, b)[k] = s[a + k]
OBVIOUS

\* The elements of a sequence are those at its places.
LEMMA ToSetIs ==
  ASSUME NEW V, NEW s \in Seq(V)
  PROVE  ToSet(s) = {s[i] : i \in 1 .. Len(s)}
<1>1. DOMAIN s = 1 .. Len(s) OBVIOUS
<1> QED BY <1>1 DEF ToSet

\* What comes behind the first of two sequences is the second.
LEMMA InSecond ==
  ASSUME NEW V, NEW s \in Seq(V), NEW t \in Seq(V), NEW n \in 1 .. Len(t)
  PROVE  (s \o t)[Len(s) + n] = t[n]
OBVIOUS

-------------------------------------------------------------------------------
(* Offsets.                                                                    *)

\* The offsets are what their recursive definition says.
LEMMA OffsetsSolve ==
  ASSUME NEW text \in Seq(Chars)
  PROVE  Offsets(text) = [n \in 0 .. Len(text) |->
            IF n = 0 THEN 0 ELSE Offsets(text)[n - 1] + Bytes[text[n]]]
<1> DEFINE width_of(i) == IF i \in 1 .. Len(text) THEN Bytes[text[i]] ELSE 0
           step == [i \in Nat |-> [x \in Nat |-> x + width_of(i)]]
<1>1. \A i \in Nat : width_of(i) \in Nat
  <2>1. Bytes \in [Chars -> Nat \ {0}] BY FilterEditorAssumption
  <2> QED BY <2>1
<1> HIDE DEF width_of
<1>2. step \in [Nat -> [Nat -> Nat]]
  BY <1>1, SMTT(30)
<1>3. \A i \in 1 .. Len(text), x \in Nat : step[i][x] = x + width_of(i)
  OBVIOUS
<1> HIDE DEF step
<1>4. PICK f \in [0 .. Len(text) -> Nat] :
        f[0] = 0 /\ \A i \in 1 .. Len(text) : f[i] = step[i][f[i - 1]]
  <2>1. 0 \in Nat /\ Len(text) \in Nat OBVIOUS
  <2>2. \E f : Follows(f, Nat, 0, step, Len(text)) BY <1>2, <2>1, StepsDefine
  <2> QED BY <2>2 DEF Follows
<1>5. ASSUME NEW i \in 1 .. Len(text) PROVE f[i] = f[i - 1] + Bytes[text[i]]
  <2>1. i - 1 \in 0 .. Len(text) OBVIOUS
  <2> QED BY <1>3, <1>4, <2>1 DEF width_of
<1>6. ASSUME NEW n \in 0 .. Len(text)
      PROVE  f[n] = IF n = 0 THEN 0 ELSE f[n - 1] + Bytes[text[n]]
  <2>1. n = 0 \/ n \in 1 .. Len(text) OBVIOUS
  <2> QED BY <1>4, <1>5, <2>1
<1>7. f = [n \in 0 .. Len(text) |-> IF n = 0 THEN 0 ELSE f[n - 1] + Bytes[text[n]]]
  BY <1>6
<1> QED BY <1>7 DEF Offsets

\* An offset is a character further than the one before.
LEMMA OffsetSteps ==
  ASSUME NEW text \in Seq(Chars)
  PROVE  /\ Offset(text, 0) = 0
         /\ \A n \in 1 .. Len(text) : Offset(text, n) = Offset(text, n - 1) + Bytes[text[n]]
<1>1. \A n \in 0 .. Len(text) :
        Offsets(text)[n] = IF n = 0 THEN 0 ELSE Offsets(text)[n - 1] + Bytes[text[n]]
  <2> DEFINE f == Offsets(text)
  <2>1. f = [n \in 0 .. Len(text) |-> IF n = 0 THEN 0 ELSE f[n - 1] + Bytes[text[n]]]
    BY OffsetsSolve
  <2> HIDE DEF f
  <2>2. \A n \in 0 .. Len(text) : f[n] = IF n = 0 THEN 0 ELSE f[n - 1] + Bytes[text[n]]
    BY <2>1
  <2> QED BY <2>2 DEF f
<1>2. \A n \in 1 .. Len(text) : n \in 0 .. Len(text) /\ n # 0 OBVIOUS
<1>3. 0 \in 0 .. Len(text) OBVIOUS
<1> QED BY <1>1, <1>2, <1>3 DEF Offset

\* A character has at least one byte.
LEMMA BytesPositive ==
  ASSUME NEW text \in Seq(Chars), NEW n \in 1 .. Len(text)
  PROVE  text[n] \in Chars /\ Bytes[text[n]] \in Nat \ {0}
<1>1. text[n] \in Chars OBVIOUS
<1> QED BY <1>1, FilterEditorAssumption

\* An offset is a number of bytes.
LEMMA OffsetType ==
  ASSUME NEW text \in Seq(Chars), NEW n \in 0 .. Len(text)
  PROVE  Offset(text, n) \in Nat
<1> DEFINE Bad == {m \in 0 .. Len(text) : Offset(text, m) \notin Nat}
<1>1. SUFFICES ASSUME n \in Bad PROVE FALSE OBVIOUS
<1>2. PICK m \in Bad : \A k \in Bad : m <= k
  <2> Bad \subseteq Nat OBVIOUS
  <2> HIDE DEF Bad
  <2> QED BY <1>1, LeastNatural
<1>3. m \in 0 .. Len(text) /\ Offset(text, m) \notin Nat OBVIOUS
<1>4. m # 0 BY <1>3, OffsetSteps
<1>5. m - 1 \in 0 .. Len(text) /\ m \in 1 .. Len(text) /\ ~(m <= m - 1) BY <1>3, <1>4
<1>6. Offset(text, m - 1) \in Nat
  <2>1. m - 1 \notin Bad
    <3> HIDE DEF Bad
    <3> QED BY <1>2, <1>5
  <2> QED BY <1>5, <2>1
<1>7. Offset(text, m) = Offset(text, m - 1) + Bytes[text[m]] BY <1>5, OffsetSteps
<1> QED BY <1>3, <1>5, <1>6, <1>7, BytesPositive

\* More characters have more bytes.
LEMMA OffsetsIncrease ==
  ASSUME NEW text \in Seq(Chars), NEW i \in 0 .. Len(text), NEW j \in 0 .. Len(text), i < j
  PROVE  Offset(text, i) < Offset(text, j)
<1> DEFINE Bad == {m \in i + 1 .. Len(text) : ~(Offset(text, i) < Offset(text, m))}
<1>1. SUFFICES ASSUME j \in Bad PROVE FALSE OBVIOUS
<1>2. PICK m \in Bad : \A k \in Bad : m <= k
  <2> Bad \subseteq Nat OBVIOUS
  <2> HIDE DEF Bad
  <2> QED BY <1>1, LeastNatural
<1>3. m \in i + 1 .. Len(text) /\ ~(Offset(text, i) < Offset(text, m)) OBVIOUS
<1>4. m - 1 \in i .. Len(text) /\ m - 1 \in 0 .. Len(text) /\ m \in 1 .. Len(text) /\ ~(m <= m - 1)
  BY <1>3
<1>5. m - 1 \notin Bad
  <2> HIDE DEF Bad
  <2> QED BY <1>2, <1>4
<1>6. m - 1 = i \/ Offset(text, i) < Offset(text, m - 1) BY <1>4, <1>5
<1>7. Offset(text, m) = Offset(text, m - 1) + Bytes[text[m]] BY <1>4, OffsetSteps
<1>8. Offset(text, m - 1) \in Nat /\ Offset(text, i) \in Nat BY <1>4, OffsetType
<1>9. Bytes[text[m]] \in Nat \ {0} BY <1>4, BytesPositive
<1> HIDE DEF Bad
<1> QED BY <1>3, <1>6, <1>7, <1>8, <1>9

\* The characters before an offset are found.
LEMMA CountFinds ==
  ASSUME NEW text \in Seq(Chars), NEW cursor \in Nat
  PROVE  /\ Count(text, cursor) \in 0 .. Len(text)
         /\ Offset(text, Count(text, cursor)) <= cursor
         /\ Count(text, cursor) = Len(text) \/ Offset(text, Count(text, cursor) + 1) > cursor
<1> DEFINE Ends == {n \in 0 .. Len(text) : n = Len(text) \/ Offset(text, n + 1) > cursor}
<1>1. PICK n \in Ends : \A k \in Ends : n <= k
  <2>1. Len(text) \in Ends OBVIOUS
  <2>2. Ends \subseteq Nat OBVIOUS
  <2> HIDE DEF Ends
  <2> QED BY <2>1, <2>2, LeastNatural
<1>2. n \in 0 .. Len(text) /\ (n = Len(text) \/ Offset(text, n + 1) > cursor) OBVIOUS
<1>3. Offset(text, n) <= cursor
  <2>1. CASE n = 0 BY <2>1, OffsetSteps
  <2>2. CASE n # 0
    <3>1. n - 1 \in 0 .. Len(text) /\ n - 1 # Len(text) /\ ~(n <= n - 1) /\ n - 1 + 1 = n
      BY <1>2, <2>2
    <3>2. n - 1 \notin Ends
      <4> HIDE DEF Ends
      <4> QED BY <1>1, <3>1
    <3>3. ~(Offset(text, n) > cursor) BY <3>1, <3>2
    <3> QED BY <1>2, <3>3, OffsetType
  <2> QED BY <2>1, <2>2
<1> HIDE DEF Ends
<1> QED BY <1>2, <1>3 DEF Count

\* The characters before an offset are those that the offset was made of.
LEMMA CountOfOffset ==
  ASSUME NEW text \in Seq(Chars), NEW n \in 0 .. Len(text)
  PROVE  Count(text, Offset(text, n)) = n
<1> DEFINE m == Count(text, Offset(text, n))
<1>1. Offset(text, n) \in Nat BY OffsetType
<1>2. /\ m \in 0 .. Len(text) /\ Offset(text, m) <= Offset(text, n)
      /\ m = Len(text) \/ Offset(text, m + 1) > Offset(text, n)
  BY <1>1, CountFinds
<1> HIDE DEF m
<1>3. Offset(text, m) \in Nat BY <1>2, OffsetType
<1>4. ~(n < m)
  <2>1. SUFFICES ASSUME n < m PROVE FALSE OBVIOUS
  <2>2. Offset(text, n) < Offset(text, m) BY <1>2, <2>1, OffsetsIncrease
  <2> QED BY <1>1, <1>2, <1>3, <2>2
<1>5. ~(m < n)
  <2>1. SUFFICES ASSUME m < n PROVE FALSE OBVIOUS
  <2>2. m + 1 \in 0 .. Len(text) /\ m # Len(text) BY <1>2, <2>1
  <2>3. m + 1 = n \/ Offset(text, m + 1) < Offset(text, n)
    <3>1. m + 1 = n \/ m + 1 < n BY <1>2, <2>1
    <3> QED BY <2>2, <3>1, OffsetsIncrease
  <2>4. Offset(text, m + 1) \in Nat BY <2>2, OffsetType
  <2> QED BY <1>1, <1>2, <2>2, <2>3, <2>4
<1> QED BY <1>2, <1>4, <1>5 DEF m

-------------------------------------------------------------------------------
(* Texts.                                                                      *)

\* Of a text that is put together of two, the offsets in the first are the same, and
\* those in the second follow.
LEMMA OffsetsInFirst ==
  ASSUME NEW s \in Seq(Chars), NEW t \in Seq(Chars), NEW n \in 0 .. Len(s)
  PROVE  Offset(s \o t, n) = Offset(s, n)
<1> DEFINE Bad == {m \in 0 .. Len(s) : Offset(s \o t, m) # Offset(s, m)}
<1>0. s \o t \in Seq(Chars) /\ Len(s \o t) = Len(s) + Len(t) OBVIOUS
<1>1. SUFFICES ASSUME n \in Bad PROVE FALSE OBVIOUS
<1>2. PICK m \in Bad : \A k \in Bad : m <= k
  <2> Bad \subseteq Nat OBVIOUS
  <2> HIDE DEF Bad
  <2> QED BY <1>1, LeastNatural
<1>3. m \in 0 .. Len(s) /\ Offset(s \o t, m) # Offset(s, m) OBVIOUS
<1>4. m # 0 BY <1>0, <1>3, OffsetSteps
<1>5. m - 1 \in 0 .. Len(s) /\ m \in 1 .. Len(s) /\ m \in 1 .. Len(s \o t) /\ ~(m <= m - 1)
  BY <1>0, <1>3, <1>4
<1>6. m - 1 \notin Bad
  <2> HIDE DEF Bad
  <2> QED BY <1>2, <1>5
<1>7. Offset(s \o t, m - 1) = Offset(s, m - 1) BY <1>5, <1>6
<1>8. (s \o t)[m] = s[m] BY <1>5
<1> HIDE DEF Bad
<1> QED BY <1>0, <1>3, <1>5, <1>7, <1>8, OffsetSteps

\* The offsets in the second text come after the size of the first.
LEMMA OffsetsInSecond ==
  ASSUME NEW s \in Seq(Chars), NEW t \in Seq(Chars), NEW n \in 0 .. Len(t)
  PROVE  Offset(s \o t, Len(s) + n) = Size(s) + Offset(t, n)
<1> DEFINE Bad == {m \in 0 .. Len(t) : Offset(s \o t, Len(s) + m) # Size(s) + Offset(t, m)}
<1>0. s \o t \in Seq(Chars) /\ Len(s \o t) = Len(s) + Len(t) OBVIOUS
<1>1. SUFFICES ASSUME n \in Bad PROVE FALSE OBVIOUS
<1>2. PICK m \in Bad : \A k \in Bad : m <= k
  <2> Bad \subseteq Nat OBVIOUS
  <2> HIDE DEF Bad
  <2> QED BY <1>1, LeastNatural
<1>3. m \in 0 .. Len(t) /\ Offset(s \o t, Len(s) + m) # Size(s) + Offset(t, m) OBVIOUS
<1> HIDE DEF Bad
<1>4. Size(s) \in Nat
  <2>1. Len(s) \in 0 .. Len(s) OBVIOUS
  <2> QED BY <2>1, OffsetType DEF Size
<1>5. m # 0
  <2>1. SUFFICES ASSUME m = 0 PROVE FALSE OBVIOUS
  <2>2. Len(s) + m = Len(s) /\ Len(s) \in 0 .. Len(s) BY <2>1
  <2>3. Offset(s \o t, Len(s)) = Size(s) BY <2>2, OffsetsInFirst DEF Size
  <2>4. Offset(t, 0) = 0 BY OffsetSteps
  <2> QED BY <1>3, <1>4, <2>1, <2>2, <2>3, <2>4
<1>6. /\ m - 1 \in 0 .. Len(t) /\ m \in 1 .. Len(t) /\ ~(m <= m - 1)
      /\ Len(s) + m \in 1 .. Len(s \o t) /\ Len(s) + m - 1 = Len(s) + (m - 1)
  BY <1>0, <1>3, <1>5
<1>7. m - 1 \notin Bad BY <1>2, <1>6
<1>8. Offset(s \o t, Len(s) + (m - 1)) = Size(s) + Offset(t, m - 1) BY <1>6, <1>7 DEF Bad
<1>9. (s \o t)[Len(s) + m] = t[m] BY <1>6
<1>10. Offset(s \o t, Len(s) + m) = Offset(s \o t, Len(s) + (m - 1)) + Bytes[t[m]]
  <2> DEFINE u == s \o t
             k == Len(s) + m
  <2>1. u \in Seq(Chars) /\ k \in 1 .. Len(u) /\ u[k] = t[m] /\ k - 1 = Len(s) + (m - 1)
    BY <1>0, <1>6, <1>9
  <2> HIDE DEF u, k
  <2>2. Offset(u, k) = Offset(u, k - 1) + Bytes[t[m]] BY <2>1, OffsetSteps
  <2>3. Offset(u, k) = Offset(u, Len(s) + (m - 1)) + Bytes[t[m]] BY <2>1, <2>2
  <2> QED BY <2>3 DEF u, k
<1>11. Offset(t, m) = Offset(t, m - 1) + Bytes[t[m]] BY <1>6, OffsetSteps
<1>12. Offset(t, m - 1) \in Nat /\ Bytes[t[m]] \in Nat BY <1>6, OffsetType, BytesPositive
<1> QED BY <1>3, <1>4, <1>8, <1>10, <1>11, <1>12

\* Sizes are numbers of bytes, and the two ends of a text are found at theirs.
LEMMA SizeType ==
  ASSUME NEW text \in Seq(Chars)
  PROVE  Size(text) \in Nat
<1>1. Len(text) \in 0 .. Len(text) OBVIOUS
<1> QED BY <1>1, OffsetType DEF Size

LEMMA CountOfSize ==
  ASSUME NEW text \in Seq(Chars)
  PROVE  Count(text, Size(text)) = Len(text)
<1>1. Len(text) \in 0 .. Len(text) OBVIOUS
<1> QED BY <1>1, CountOfOffset DEF Size

LEMMA CountOfZero ==
  ASSUME NEW text \in Seq(Chars)
  PROVE  Count(text, 0) = 0
<1>1. 0 \in 0 .. Len(text) OBVIOUS
<1> QED BY <1>1, CountOfOffset, OffsetSteps

\* The text with what is between two offsets replaced, in characters.
LEMMA Replaced ==
  ASSUME NEW text \in Seq(Chars), NEW from \in Nat, NEW to \in Nat, NEW new \in Seq(Chars)
  PROVE  /\ replace_range(text, from, to, new)
              = SubSeq(text, 1, Count(text, from)) \o new
                  \o SubSeq(text, Count(text, to) + 1, Len(text))
         /\ replace_range(text, from, to, new) \in Seq(Chars)
<1>1. Count(text, from) \in 0 .. Len(text) /\ Count(text, to) \in 0 .. Len(text) BY CountFinds
<1>2. SubSeq(text, 1, Count(text, from)) \in Seq(Chars)
      /\ SubSeq(text, Count(text, to) + 1, Len(text)) \in Seq(Chars)
  BY <1>1
<1>3. Slice(text, 0, from) = SubSeq(text, 1, Count(text, from))
  <2>1. Count(text, 0) + 1 = 1 BY CountOfZero
  <2> QED BY <2>1 DEF Slice
<1>4. Slice(text, to, Size(text)) = SubSeq(text, Count(text, to) + 1, Len(text))
  BY CountOfSize DEF Slice
<1>5. replace_range(text, from, to, new)
        = SubSeq(text, 1, Count(text, from)) \o new \o SubSeq(text, Count(text, to) + 1, Len(text))
  BY <1>3, <1>4 DEF replace_range
<1> QED BY <1>2, <1>5

\* A piece of a text is a text.
LEMMA SliceType ==
  ASSUME NEW text \in Seq(Chars), NEW from \in Nat, NEW to \in Nat
  PROVE  Slice(text, from, to) \in Seq(Chars)
<1>1. Count(text, from) \in 0 .. Len(text) /\ Count(text, to) \in 0 .. Len(text) BY CountFinds
<1> QED BY <1>1 DEF Slice

-------------------------------------------------------------------------------
(* Suggestions.                                                                *)

\* The values that are kept are values.
LEMMA BeginningType ==
  ASSUME NEW V, NEW values \in Seq(V), NEW names, NEW prefix
  PROVE  Beginning(values, names, prefix) \in Seq(V)
<1> DEFINE Body(g) == [n \in 0 .. Len(values) |->
             IF n = 0 THEN <<>>
             ELSE IF IsPrefix(prefix, names[n]) THEN Append(g[n - 1], values[n])
             ELSE g[n - 1]]
           kept == CHOOSE g : g = Body(g)
           takes(i) == i \in 1 .. Len(values) /\ IsPrefix(prefix, names[i])
           step == [i \in Nat |-> [x \in Seq(V) |-> IF takes(i) THEN Append(x, values[i]) ELSE x]]
<1>1. Beginning(values, names, prefix) = kept[Len(values)] BY DEF Beginning
<1>2. \A i \in Nat, x \in Seq(V) : (IF takes(i) THEN Append(x, values[i]) ELSE x) \in Seq(V)
  OBVIOUS
<1>3. \A i \in 1 .. Len(values) : takes(i) <=> IsPrefix(prefix, names[i]) OBVIOUS
<1> HIDE DEF takes
<1>4. step \in [Nat -> [Seq(V) -> Seq(V)]] BY <1>2
<1>5. \A i \in 1 .. Len(values), x \in Seq(V) :
        step[i][x] = IF IsPrefix(prefix, names[i]) THEN Append(x, values[i]) ELSE x
  BY <1>3
<1> HIDE DEF step
<1>6. PICK f : Follows(f, Seq(V), <<>>, step, Len(values))
  <2>1. <<>> \in Seq(V) /\ Len(values) \in Nat OBVIOUS
  <2> QED BY <1>4, <2>1, StepsDefine
<1>7. ASSUME NEW n \in 0 .. Len(values)
      PROVE  f[n] = IF n = 0 THEN <<>>
                    ELSE IF IsPrefix(prefix, names[n]) THEN Append(f[n - 1], values[n])
                    ELSE f[n - 1]
  <2>1. CASE n = 0 BY <1>6, <2>1 DEF Follows
  <2>2. CASE n # 0
    <3>1. n \in 1 .. Len(values) /\ n - 1 \in 0 .. Len(values) BY <2>2
    <3>2. f[n - 1] \in Seq(V) BY <1>6, <3>1 DEF Follows
    <3> QED BY <1>5, <1>6, <2>2, <3>1, <3>2 DEF Follows
  <2> QED BY <2>1, <2>2
<1>8. f = Body(f) BY <1>6, <1>7 DEF Follows
<1>9. kept = Body(kept)
  <2> HIDE DEF Body
  <2> QED BY <1>8
<1>10. \A n \in 0 .. Len(values) :
         kept[n] = IF n = 0 THEN <<>>
                   ELSE IF IsPrefix(prefix, names[n]) THEN Append(kept[n - 1], values[n])
                   ELSE kept[n - 1]
  <2> HIDE DEF kept
  <2> QED BY <1>9
<1> HIDE DEF kept, Body
<1>11. kept[0] \in Seq(V)
  <2>1. 0 \in 0 .. Len(values) /\ <<>> \in Seq(V) OBVIOUS
  <2> QED BY <1>10, <2>1
<1>12. ASSUME NEW m \in 1 .. Len(values), kept[m - 1] \in Seq(V) PROVE kept[m] \in Seq(V)
  <2>1. m \in 0 .. Len(values) /\ m # 0 /\ values[m] \in V OBVIOUS
  <2>2. kept[m] \in {kept[m - 1], Append(kept[m - 1], values[m])} BY <1>10, <2>1
  <2>3. Append(kept[m - 1], values[m]) \in Seq(V) BY <1>12, <2>1
  <2> QED BY <1>12, <2>2, <2>3
<1>13. Len(values) \in Nat OBVIOUS
<1> QED BY <1>1, <1>11, <1>12, <1>13, StaysInside

\* Offsets are in the order of their places.
LEMMA OffsetsOrdered ==
  ASSUME NEW text \in Seq(Chars), NEW i \in 0 .. Len(text), NEW j \in 0 .. Len(text), i <= j
  PROVE  Offset(text, i) <= Offset(text, j)
<1>1. CASE i = j BY <1>1, OffsetType
<1>2. CASE i < j BY <1>2, OffsetsIncrease, OffsetType
<1> QED BY <1>1, <1>2

\* The token stands between two places of the text: no white space is in it, and
\* white space or an end of the text is on both sides.
LEMMA TokenStands ==
  ASSUME NEW text \in Seq(Chars), NEW cursor \in Nat
  PROVE  \E i \in 0 .. Count(text, cursor), j \in Count(text, cursor) .. Len(text) :
           /\ current_token(text, cursor) = [start |-> Offset(text, i), end |-> Offset(text, j)]
           /\ i = 0 \/ text[i] \in Space
           /\ j = Len(text) \/ text[j + 1] \in Space
           /\ \A k \in i + 1 .. j : text[k] \notin Space
<1> DEFINE here == Count(text, cursor)
           Before == {k \in 0 .. here : k = 0 \/ text[k] \in Space}
           After == {k \in here .. Len(text) : k = Len(text) \/ text[k + 1] \in Space}
           spaces == {n \in DOMAIN text : text[n] \in Space}
           Starts0 == {0} \cup {Offset(text, n - 1) + Bytes[text[n]] :
                                 n \in {m \in spaces : m <= here}}
           Ends0 == {Size(text)} \cup {Offset(text, n - 1) : n \in {m \in spaces : m > here}}
<1>1. here \in 0 .. Len(text) BY CountFinds
<1> HIDE DEF here
<1>2. PICK i \in Before : \A k \in Before : k <= i
  <2>1. 0 \in Before /\ Before \in SUBSET (0 .. here) /\ here \in Nat BY <1>1
  <2> HIDE DEF Before
  <2> QED BY <2>1, GreatestNatural
<1>3. PICK j \in After : \A k \in After : j <= k
  <2>1. Len(text) \in After /\ After \in SUBSET Nat BY <1>1
  <2> HIDE DEF After
  <2> QED BY <2>1, LeastNatural
<1>4. /\ i \in 0 .. here /\ i \in 0 .. Len(text) /\ (i = 0 \/ text[i] \in Space)
      /\ j \in here .. Len(text) /\ j \in 0 .. Len(text)
      /\ j = Len(text) \/ text[j + 1] \in Space
  BY <1>1
<1>5. ASSUME NEW k \in i + 1 .. j PROVE text[k] \notin Space
  <2>1. SUFFICES ASSUME text[k] \in Space PROVE FALSE OBVIOUS
  <2>2. k \in Nat /\ i < k /\ k <= j /\ k - 1 + 1 = k BY <1>4
  <2>3. CASE k <= here
    <3>1. k \in Before BY <2>1, <2>2, <2>3, <1>4
    <3> HIDE DEF Before
    <3> QED BY <1>2, <1>4, <2>2, <3>1
  <2>4. CASE k > here
    <3>1. k - 1 \in here .. Len(text) BY <1>1, <1>4, <2>2, <2>4
    <3>2. k - 1 \in After BY <2>1, <2>2, <3>1
    <3> HIDE DEF After
    <3> QED BY <1>3, <1>4, <2>2, <3>2
  <2> QED BY <1>1, <2>2, <2>3, <2>4
<1>6. \A n \in DOMAIN text :
        /\ n \in 1 .. Len(text) /\ n \in 0 .. Len(text) /\ n - 1 \in 0 .. Len(text)
        /\ Offset(text, n - 1) + Bytes[text[n]] = Offset(text, n)
  BY OffsetSteps
<1>7. Max(Starts0) = Offset(text, i)
  <2>1. ASSUME NEW y \in Starts0 PROVE y \in Int /\ y <= Offset(text, i)
    <3>1. CASE y = 0 BY <1>4, <3>1, OffsetType
    <3>2. CASE y # 0
      <4>1. PICK n \in {m \in spaces : m <= here} : y = Offset(text, n - 1) + Bytes[text[n]]
        BY <3>2
      <4>2. y = Offset(text, n) /\ n \in 0 .. Len(text) BY <1>6, <4>1
      <4>3. n \in Before BY <1>1, <4>2
      <4>4. n <= i
        <5> HIDE DEF Before
        <5> QED BY <1>2, <4>3
      <4> QED BY <1>4, <4>2, <4>4, OffsetsOrdered, OffsetType
    <3> QED BY <3>1, <3>2
  <2>2. Offset(text, i) \in Starts0
    <3>1. CASE i = 0 BY <3>1, OffsetSteps
    <3>2. CASE i # 0
      <4>1. i \in DOMAIN text /\ text[i] \in Space /\ i <= here BY <1>1, <1>4, <3>2
      <4>2. i \in {m \in spaces : m <= here} BY <4>1
      <4>3. Offset(text, i) = Offset(text, i - 1) + Bytes[text[i]] BY <1>6, <4>1
      <4> QED BY <4>2, <4>3
    <3> QED BY <3>1, <3>2
  <2>3. Starts0 \in SUBSET Int BY <2>1
  <2> HIDE DEF Starts0
  <2> QED BY <2>1, <2>2, <2>3, MaxIs
<1>8. Min(Ends0) = Offset(text, j)
  <2>0. Size(text) = Offset(text, Len(text)) /\ Len(text) \in 0 .. Len(text) BY DEF Size
  <2>1. ASSUME NEW y \in Ends0 PROVE y \in Int /\ Offset(text, j) <= y
    <3>1. CASE y = Size(text)
      <4>1. j <= Len(text) BY <1>4
      <4> QED BY <1>4, <2>0, <3>1, <4>1, OffsetsOrdered, OffsetType
    <3>2. CASE y # Size(text)
      <4>1. PICK n \in {m \in spaces : m > here} : y = Offset(text, n - 1) BY <3>2
      <4>2. n \in 1 .. Len(text) /\ n - 1 \in 0 .. Len(text) /\ n - 1 + 1 = n /\ n > here
            /\ text[n] \in Space
        BY <1>6, <4>1
      <4>3. n - 1 \in After BY <1>1, <4>2
      <4>4. j <= n - 1
        <5> HIDE DEF After
        <5> QED BY <1>3, <4>3
      <4> QED BY <1>4, <4>1, <4>2, <4>4, OffsetsOrdered, OffsetType
    <3> QED BY <3>1, <3>2
  <2>2. Offset(text, j) \in Ends0
    <3>1. CASE j = Len(text) BY <2>0, <3>1
    <3>2. CASE j # Len(text)
      <4>1. j + 1 \in DOMAIN text /\ text[j + 1] \in Space /\ j + 1 > here /\ j + 1 - 1 = j
        BY <1>1, <1>4, <3>2
      <4>2. j + 1 \in {m \in spaces : m > here} BY <4>1
      <4> QED BY <4>1, <4>2
    <3> QED BY <3>1, <3>2
  <2>3. Ends0 \in SUBSET Int BY <2>1
  <2> HIDE DEF Ends0
  <2> QED BY <2>1, <2>2, <2>3, MinIs
<1>9. current_token(text, cursor) = [start |-> Offset(text, i), end |-> Offset(text, j)]
  BY <1>7, <1>8 DEF current_token, here
<1> HIDE DEF Before, After
<1> QED BY <1>4, <1>5, <1>9 DEF here

\* Both ends of a token are offsets.
LEMMA TokenType ==
  ASSUME NEW text \in Seq(Chars), NEW cursor \in Nat
  PROVE  current_token(text, cursor).start \in Nat /\ current_token(text, cursor).end \in Nat
<1>1. PICK i \in 0 .. Count(text, cursor), j \in Count(text, cursor) .. Len(text) :
        current_token(text, cursor) = [start |-> Offset(text, i), end |-> Offset(text, j)]
  BY TokenStands
<1>2. i \in 0 .. Len(text) /\ j \in 0 .. Len(text) BY CountFinds
<1> QED BY <1>1, <1>2, OffsetType

\* Where the first colon of a text is.
Colon(text) == SelectInSeq(text, LAMBDA c : c = ":")

\* What is before the first colon has none.
LEMMA ColonFinds ==
  ASSUME NEW text \in Seq(Chars)
  PROVE  /\ Colon(text) \in 0 .. Len(text)
         /\ Colon(text) = 0 => \A k \in 1 .. Len(text) : text[k] # ":"
         /\ Colon(text) # 0 => text[Colon(text)] = ":"
                               /\ \A k \in 1 .. Colon(text) - 1 : text[k] # ":"
<1> DEFINE I == {i \in 1 .. Len(text) : text[i] = ":"}
<1>1. Colon(text) = IF I # {} THEN Min(I) ELSE 0 BY DEF Colon, SelectInSeq
<1>2. CASE I = {} BY <1>1, <1>2
<1>3. CASE I # {}
  <2>1. PICK m \in I : \A k \in I : m <= k
    <3> I \subseteq Nat OBVIOUS
    <3> HIDE DEF I
    <3> QED BY <1>3, LeastNatural
  <2>2. Min(I) = m
    <3> I \subseteq Int OBVIOUS
    <3> HIDE DEF I
    <3> QED BY <2>1, MinIs
  <2>3. m \in 1 .. Len(text) /\ text[m] = ":" OBVIOUS
  <2>4. ASSUME NEW k \in 1 .. m - 1 PROVE text[k] # ":"
    <3>1. SUFFICES ASSUME text[k] = ":" PROVE FALSE OBVIOUS
    <3>2. k \in I /\ ~(m <= k) BY <2>3, <3>1
    <3> HIDE DEF I
    <3> QED BY <2>1, <3>2
  <2> HIDE DEF I
  <2> QED BY <1>1, <1>3, <2>2, <2>3, <2>4
<1> QED BY <1>2, <1>3

\* As many numbers as the last one says.
LEMMA Interval ==
  ASSUME NEW n \in Nat
  PROVE  IsFiniteSet(1 .. n) /\ Cardinality(1 .. n) = n
<1>1. 1 \in Int /\ n \in Int OBVIOUS
<1>2. IsFiniteSet(1 .. n) /\ Cardinality(1 .. n) = IF 1 > n THEN 0 ELSE n - 1 + 1
  BY <1>1, FS_Interval
<1> QED BY <1>2

\* The place of a value is inside the values or at their end.
LEMMA FirstNotBelowType ==
  ASSUME NEW values, Len(values) \in Nat, DOMAIN values = 1 .. Len(values), NEW value
  PROVE  FirstNotBelow(values, value) \in 0 .. Len(values)
<1> DEFINE D == {i \in DOMAIN values : Less(values[i], value)}
<1>1. IsFiniteSet(1 .. Len(values)) /\ Cardinality(1 .. Len(values)) = Len(values)
  BY Interval
<1>2. D \in SUBSET (1 .. Len(values)) OBVIOUS
<1> HIDE DEF D
<1>3. IsFiniteSet(D) /\ Cardinality(D) <= Cardinality(1 .. Len(values))
  BY <1>1, <1>2, FS_Subset
<1>4. Cardinality(D) \in Nat BY <1>3, FS_CardinalityType
<1>5. Cardinality(D) \in 0 .. Len(values) BY <1>1, <1>3, <1>4
<1> QED BY <1>5 DEF FirstNotBelow, D

\* How many values from the beginning have the prefix.
Matching(from, prefix) == Max({n \in 0 .. Len(from) : \A i \in 1 .. n : IsPrefix(prefix, from[i])})

\* All that are counted have the prefix, and the next one has not.
LEMMA MatchingFinds ==
  ASSUME NEW V, NEW from \in Seq(V), NEW prefix
  PROVE  /\ Matching(from, prefix) \in 0 .. Len(from)
         /\ \A i \in 1 .. Matching(from, prefix) : IsPrefix(prefix, from[i])
         /\ \A n \in 0 .. Len(from) : (\A i \in 1 .. n : IsPrefix(prefix, from[i]))
                                         => n <= Matching(from, prefix)
<1> DEFINE T == {n \in 0 .. Len(from) : \A i \in 1 .. n : IsPrefix(prefix, from[i])}
<1>1. PICK m \in T : \A k \in T : k <= m
  <2>1. 0 \in T /\ T \in SUBSET (0 .. Len(from)) /\ Len(from) \in Nat OBVIOUS
  <2> HIDE DEF T
  <2> QED BY <2>1, GreatestNatural
<1>2. Max(T) = m
  <2> T \in SUBSET Int OBVIOUS
  <2> HIDE DEF T
  <2> QED BY <1>1, MaxIs
<1> QED BY <1>1, <1>2 DEF Matching

\* What prefix_suggestions gives is a piece of the values.
LEMMA PrefixSuggestions ==
  ASSUME NEW V, NEW values \in Seq(V), NEW prefix
  PROVE  LET start == FirstNotBelow(values, prefix)
             from == SubSeq(values, start + 1, Len(values))
             size == Min({Matching(from, prefix), MaxOffered})
         IN  /\ from \in Seq(V) /\ Len(from) = Len(values) - start
             /\ \A i \in 1 .. Len(from) : from[i] = values[start + i]
             /\ size \in 0 .. Len(from)
             /\ prefix_suggestions(values, prefix) = SubSeq(from, 1, size)
             /\ prefix_suggestions(values, prefix) \in Seq(V)
<1> DEFINE start == FirstNotBelow(values, prefix)
           from == SubSeq(values, start + 1, Len(values))
           size == Min({Matching(from, prefix), MaxOffered})
<1>1. start \in 0 .. Len(values)
  <2>1. Len(values) \in Nat /\ DOMAIN values = 1 .. Len(values) OBVIOUS
  <2> QED BY <2>1, FirstNotBelowType
<1> HIDE DEF start
<1>2. /\ from \in Seq(V) /\ Len(from) = Len(values) - start
      /\ \A i \in 1 .. Len(from) : from[i] = values[start + i]
  BY <1>1
<1> HIDE DEF from
<1>3. Matching(from, prefix) \in 0 .. Len(from) BY <1>2, MatchingFinds
<1>4. size \in 0 .. Len(from)
  <2>1. MaxOffered \in Nat BY FilterEditorAssumption
  <2>2. Matching(from, prefix) \in Int /\ MaxOffered \in Int BY <1>3, <2>1
  <2>3. size = IF Matching(from, prefix) <= MaxOffered THEN Matching(from, prefix) ELSE MaxOffered
    BY <2>2, MinOfTwo
  <2> QED BY <1>2, <1>3, <2>1, <2>3
<1>5. prefix_suggestions(values, prefix) = SubSeq(from, 1, size)
  BY DEF prefix_suggestions, Matching, start, from
<1> HIDE DEF size
<1>6. SubSeq(from, 1, size) \in Seq(V) BY <1>2, <1>4
<1> QED BY <1>2, <1>4, <1>5, <1>6 DEF start, from, size

\* A new value comes to its place, and all others stay.
LEMMA InsertType ==
  ASSUME NEW V, NEW values \in Seq(V), NEW value \in V
  PROVE  insert_sorted_unique(values, value) \in Seq(V)
<1> DEFINE k == FirstNotBelow(values, value)
           p == k + 1
<1>1. k \in 0 .. Len(values)
  <2>1. Len(values) \in Nat /\ DOMAIN values = 1 .. Len(values) OBVIOUS
  <2> QED BY <2>1, FirstNotBelowType
<1>2. insert_sorted_unique(values, value)
        = IF value \in ToSet(values) THEN values ELSE InsertAt(values, p, value)
  BY DEF insert_sorted_unique
<1> HIDE DEF k
<1>3. p \in 1 .. Len(values) + 1 BY <1>1
<1> HIDE DEF p
<1>4. InsertAt(values, p, value) = (SubSeq(values, 1, p - 1) \o <<value>>) \o SubSeq(values, p, Len(values))
  BY DEF InsertAt
<1>5. SubSeq(values, 1, p - 1) \in Seq(V) /\ SubSeq(values, p, Len(values)) \in Seq(V)
  BY <1>3
<1>6. <<value>> \in Seq(V) OBVIOUS
<1>7. \A x, y, z \in Seq(V) : (x \o y) \o z \in Seq(V) OBVIOUS
<1>8. InsertAt(values, p, value) \in Seq(V) BY <1>4, <1>5, <1>6, <1>7
<1> QED BY <1>2, <1>8

\* What is sorted are the values.
LEMMA SortType ==
  ASSUME NEW V, NEW values \in Seq(V)
  PROVE  sort_and_dedup(values) \in Seq(V)
<1> DEFINE Body(g) == [n \in 0 .. Len(values) |->
             IF n = 0 THEN <<>> ELSE insert_sorted_unique(g[n - 1], values[n])]
           sorted == CHOOSE g : g = Body(g)
           taken(i, x) == IF i \in 1 .. Len(values) THEN insert_sorted_unique(x, values[i]) ELSE x
           step == [i \in Nat |-> [x \in Seq(V) |-> taken(i, x)]]
<1>1. sort_and_dedup(values) = sorted[Len(values)] BY DEF sort_and_dedup
<1>2. ASSUME NEW i \in Nat, NEW x \in Seq(V) PROVE taken(i, x) \in Seq(V)
  <2>1. CASE i \in 1 .. Len(values)
    <3>1. values[i] \in V BY <2>1
    <3> QED BY <2>1, <3>1, InsertType
  <2>2. CASE i \notin 1 .. Len(values) BY <2>2
  <2> QED BY <2>1, <2>2
<1>3. \A i \in 1 .. Len(values), x \in Seq(V) : taken(i, x) = insert_sorted_unique(x, values[i])
  OBVIOUS
<1> HIDE DEF taken
<1>4. step \in [Nat -> [Seq(V) -> Seq(V)]] BY <1>2
<1>5. \A i \in 1 .. Len(values), x \in Seq(V) : step[i][x] = insert_sorted_unique(x, values[i])
  BY <1>3
<1> HIDE DEF step
<1>6. PICK f : Follows(f, Seq(V), <<>>, step, Len(values))
  <2>1. <<>> \in Seq(V) /\ Len(values) \in Nat OBVIOUS
  <2> QED BY <1>4, <2>1, StepsDefine
<1>7. ASSUME NEW n \in 0 .. Len(values)
      PROVE  f[n] = IF n = 0 THEN <<>> ELSE insert_sorted_unique(f[n - 1], values[n])
  <2>1. CASE n = 0 BY <1>6, <2>1 DEF Follows
  <2>2. CASE n # 0
    <3>1. n \in 1 .. Len(values) /\ n - 1 \in 0 .. Len(values) BY <2>2
    <3>2. f[n - 1] \in Seq(V) BY <1>6, <3>1 DEF Follows
    <3> QED BY <1>5, <1>6, <2>2, <3>1, <3>2 DEF Follows
  <2> QED BY <2>1, <2>2
<1>8. f = Body(f) BY <1>6, <1>7 DEF Follows
<1>9. sorted = Body(sorted)
  <2> HIDE DEF Body
  <2> QED BY <1>8
<1>10. \A n \in 0 .. Len(values) :
         sorted[n] = IF n = 0 THEN <<>> ELSE insert_sorted_unique(sorted[n - 1], values[n])
  <2> HIDE DEF sorted
  <2> QED BY <1>9
<1> HIDE DEF sorted, Body
<1>11. sorted[0] \in Seq(V)
  <2>1. 0 \in 0 .. Len(values) /\ <<>> \in Seq(V) OBVIOUS
  <2> QED BY <1>10, <2>1
<1>12. ASSUME NEW m \in 1 .. Len(values), sorted[m - 1] \in Seq(V) PROVE sorted[m] \in Seq(V)
  <2>1. m \in 0 .. Len(values) /\ m # 0 /\ values[m] \in V OBVIOUS
  <2>2. sorted[m] = insert_sorted_unique(sorted[m - 1], values[m]) BY <1>10, <2>1
  <2> QED BY <1>12, <2>1, <2>2, InsertType
<1>13. Len(values) \in Nat OBVIOUS
<1> QED BY <1>1, <1>11, <1>12, <1>13, StaysInside

\* Small letters make a text, of the same length.
LEMMA LoweredType ==
  ASSUME NEW text \in Seq(Chars)
  PROVE  Lowered(text) \in Seq(Chars)
<1>1. DOMAIN text = 1 .. Len(text) /\ \A i \in 1 .. Len(text) : text[i] \in Chars OBVIOUS
<1>2. \A c \in Chars : Lower[c] \in Chars BY FilterEditorAssumption
<1>3. Lowered(text) \in [1 .. Len(text) -> Chars] BY <1>1, <1>2 DEF Lowered
<1> QED BY <1>3

\* Keys, the values behind a key and what is offered are texts.
LEMMA KeysType == ToSet(Keys) \subseteq Seq(Chars) /\ HostKey \in Seq(Chars) /\ HostKey # <<>>
<1>1. \A k \in ToSet(Keys) : k \in Seq(Chars)
  <2>1. ToSet(Keys) = {Keys[i] : i \in DOMAIN Keys} BY DEF ToSet
  <2> QED BY <2>1, FilterEditorAssumption
<1> QED BY <1>1, FilterEditorAssumption

LEMMA ValuesType ==
  ASSUME NEW key \in Seq(Chars), NEW values \in Seq(Seq(Chars))
  PROVE  value_suggestions(key, values) \in Seq(Seq(Chars))
<1>1. \A i \in 1 .. Len(values) : key \o values[i] \in Seq(Chars) OBVIOUS
<1>2. value_suggestions(key, values) \in [1 .. Len(values) -> Seq(Chars)]
  BY <1>1 DEF value_suggestions
<1> QED BY <1>2

LEMMA OperatorType ==
  ASSUME NEW text \in Seq(Chars)
  PROVE  split_operator_prefix(text) \in Seq(Chars)
<1> DEFINE T == {n \in 0 .. Len(text) : n = 0 \/ SubSeq(text, 1, n) \in ToSet(Operators)}
<1>1. PICK m \in T : \A k \in T : k <= m
  <2>1. 0 \in T /\ T \in SUBSET (0 .. Len(text)) /\ Len(text) \in Nat OBVIOUS
  <2> HIDE DEF T
  <2> QED BY <2>1, GreatestNatural
<1>2. Max(T) = m
  <2> T \in SUBSET Int OBVIOUS
  <2> HIDE DEF T
  <2> QED BY <1>1, MaxIs
<1>3. m \in 0 .. Len(text) OBVIOUS
<1>4. split_operator_prefix(text) = SubSeq(text, 1, Max(T)) BY DEF split_operator_prefix
<1> HIDE DEF T
<1> QED BY <1>2, <1>3, <1>4

LEMMA ComparedType ==
  ASSUME NEW values \in Seq(Seq(Chars)), NEW prefix \in Seq(Chars)
  PROVE  compared_values(values, prefix) \in Seq(Seq(Chars))
<1> DEFINE operator == split_operator_prefix(prefix)
           number == SubSeq(prefix, Len(operator) + 1, Len(prefix))
           operators == IF number = <<>> THEN Beginning(Operators, Operators, prefix) ELSE <<>>
           valued == value_suggestions(operator, Beginning(values, values, number))
<1>1. operators \in Seq(Seq(Chars))
  <2>1. Beginning(Operators, Operators, prefix) \in Seq(Seq(Chars))
    BY BeginningType, FilterEditorAssumption
  <2>2. <<>> \in Seq(Seq(Chars)) OBVIOUS
  <2> QED BY <2>1, <2>2
<1>2. valued \in Seq(Seq(Chars))
  <2>1. Beginning(values, values, number) \in Seq(Seq(Chars)) BY BeginningType
  <2>2. operator \in Seq(Chars) BY OperatorType
  <2> QED BY <2>1, <2>2, ValuesType
<1>3. compared_values(values, prefix) = sort_and_dedup(operators \o valued) BY DEF compared_values
<1> HIDE DEF operators, valued
<1>4. operators \o valued \in Seq(Seq(Chars)) BY <1>1, <1>2
<1> QED BY <1>3, <1>4, SortType

LEMMA StaticType ==
  ASSUME NEW values \in Seq(Seq(Chars)), NEW prefix
  PROVE  static_values(values, prefix) \in Seq(Seq(Chars))
BY BeginningType DEF static_values

LEMMA KindsType ==
  ASSUME NEW prefix \in Seq(Chars), NEW content_types \in Seq(Seq(Chars))
  PROVE  content_type_values(prefix, content_types) \in Seq(Seq(Chars))
<1> DEFINE aliases == static_values(Aliases, prefix)
           found == prefix_suggestions(content_types, Lowered(prefix))
<1>1. aliases \in Seq(Seq(Chars)) BY StaticType, FilterEditorAssumption
<1>2. found \in Seq(Seq(Chars)) BY PrefixSuggestions
<1>3. content_type_values(prefix, content_types) = sort_and_dedup(aliases \o found)
  BY DEF content_type_values
<1> HIDE DEF aliases, found
<1>4. aliases \o found \in Seq(Seq(Chars)) BY <1>1, <1>2
<1> QED BY <1>3, <1>4, SortType

-------------------------------------------------------------------------------
(* The index.                                                                  *)

Indexes == [hosts : Seq(Seq(Chars)), statuses : Seq(Seq(Chars)), content_types : Seq(Seq(Chars))]

LEMMA NoIndexType == NoIndex \in Indexes
<1>1. <<>> \in Seq(Seq(Chars)) OBVIOUS
<1> QED BY <1>1 DEF NoIndex, Indexes

LEMMA TrimType ==
  ASSUME NEW text \in Seq(Chars)
  PROVE  Trim(text) \in Seq(Chars)
<1> DEFINE solid == {i \in DOMAIN text : text[i] \notin Space}
<1>1. CASE solid = {} BY <1>1 DEF Trim
<1>2. CASE solid # {}
  <2>1. solid \in SUBSET (0 .. Len(text)) /\ solid \in SUBSET Nat /\ solid \in SUBSET Int
        /\ Len(text) \in Nat /\ solid \subseteq 1 .. Len(text)
    OBVIOUS
  <2>2. Trim(text) = SubSeq(text, Min(solid), Max(solid)) BY <1>2 DEF Trim
  <2> HIDE DEF solid
  <2>3. PICK a \in solid : \A k \in solid : a <= k BY <1>2, <2>1, LeastNatural
  <2>4. PICK b \in solid : \A k \in solid : k <= b BY <1>2, <2>1, GreatestNatural
  <2>5. Min(solid) = a BY <2>1, <2>3, MinIs
  <2>6. Max(solid) = b BY <2>1, <2>4, MaxIs
  <2>7. a \in 1 .. Len(text) /\ b \in 1 .. Len(text) BY <2>1
  <2>8. SubSeq(text, a, b) \in Seq(Chars) BY <2>7
  <2> QED BY <2>2, <2>5, <2>6, <2>8
<1> QED BY <1>1, <1>2

\* A content type comes to its place.
LEMMA ContentTypeInserted ==
  ASSUME NEW values \in Seq(Seq(Chars)), NEW content_type \in Seq(Chars)
  PROVE  insert_content_type(values, content_type) \in Seq(Seq(Chars))
<1> DEFINE stop == SelectInSeq(content_type, LAMBDA c : c = ";")
           kind == IF stop = 0 THEN content_type ELSE SubSeq(content_type, 1, stop - 1)
           value == Lowered(Trim(kind))
           I == {i \in 1 .. Len(content_type) : content_type[i] = ";"}
<1>1. stop = IF I # {} THEN Min(I) ELSE 0 BY DEF SelectInSeq
<1> HIDE DEF stop
<1>2. stop \in 0 .. Len(content_type)
  <2>0. Len(content_type) \in Nat OBVIOUS
  <2>1. CASE I = {}
    <3>1. stop = 0 BY <1>1, <2>1, Zenon
    <3> HIDE DEF I
    <3> QED BY <2>0, <3>1
  <2>2. CASE I # {}
    <3>1. I \subseteq 1 .. Len(content_type) OBVIOUS
    <3> HIDE DEF I
    <3>2. I \in SUBSET Nat /\ I \in SUBSET Int BY <3>1
    <3>3. PICK m \in I : \A k \in I : m <= k BY <2>2, <3>2, LeastNatural
    <3>4. Min(I) = m BY <3>2, <3>3, MinIs
    <3>5. m \in 1 .. Len(content_type) BY <3>1
    <3> QED BY <1>1, <2>2, <3>4, <3>5
  <2> QED BY <2>1, <2>2
<1>3. insert_content_type(values, content_type)
        = IF value = <<>> THEN values ELSE insert_sorted_unique(values, value)
  BY DEF insert_content_type, stop
<1>4. kind \in Seq(Chars) BY <1>2
<1> HIDE DEF kind
<1>5. value \in Seq(Chars) BY <1>4, TrimType, LoweredType
<1> HIDE DEF value
<1>6. insert_sorted_unique(values, value) \in Seq(Seq(Chars)) BY <1>5, InsertType
<1> QED BY <1>3, <1>6

\* What an entry adds keeps the index an index.
LEMMA EntryInserted ==
  ASSUME NEW known \in Indexes, NEW e \in Entries
  PROVE  insert_entry(known, e) \in Indexes
<1>1. /\ known.hosts \in Seq(Seq(Chars)) /\ known.statuses \in Seq(Seq(Chars))
      /\ known.content_types \in Seq(Seq(Chars))
  BY DEF Indexes
<1>2. /\ e.host \in Seq(Chars) /\ e.status \in Seq(Chars)
      /\ e.request_type \in Seq(Chars) /\ e.response_type \in Seq(Chars)
  BY FilterEditorAssumption
<1>3. insert_sorted_unique(known.hosts, Lowered(e.host)) \in Seq(Seq(Chars))
  BY <1>1, <1>2, LoweredType, InsertType
<1>4. insert_sorted_unique(known.statuses, e.status) \in Seq(Seq(Chars))
  BY <1>1, <1>2, InsertType
<1>5. insert_content_type(known.content_types, e.request_type) \in Seq(Seq(Chars))
  BY <1>1, <1>2, ContentTypeInserted
<1>6. insert_content_type(insert_content_type(known.content_types, e.request_type), e.response_type)
        \in Seq(Seq(Chars))
  BY <1>2, <1>5, ContentTypeInserted
<1> QED BY <1>1, <1>3, <1>4, <1>6 DEF insert_entry, Indexes

-------------------------------------------------------------------------------
(* What is offered.                                                            *)

\* The offer, by the key in front of the cursor and what follows it.
Offered(before, known) ==
  LET key == SubSeq(before, 1, Colon(before))
      prefix == SubSeq(before, Colon(before) + 1, Len(before))
  IN CASE Colon(before) = 0 -> key_suggestions(before)
       [] key = HostKey ->
            value_suggestions(key, prefix_suggestions(known.hosts, Lowered(prefix)))
       [] key = StatusKey -> value_suggestions(key, status_values(prefix, known.statuses))
       [] key = TypeKey -> value_suggestions(key, content_type_values(prefix, known.content_types))
       [] key = DurationKey -> value_suggestions(key, compared_values(Presets, prefix))
       [] key \in DOMAIN Fixed -> value_suggestions(key, static_values(Fixed[key], prefix))
       [] OTHER -> key_suggestions(SubSeq(key, 1, Colon(before) - 1))

LEMMA OfferedIs ==
  ASSUME NEW text, NEW cursor, NEW known
  PROVE  build_filter_suggestions(text, cursor, known)
           = Offered(Slice(text, current_token(text, cursor).start, cursor), known)
BY DEF build_filter_suggestions, Offered, Colon

LEMMA SuggestionsType ==
  ASSUME NEW text \in Seq(Chars), NEW cursor \in Nat, NEW known \in Indexes
  PROVE  build_filter_suggestions(text, cursor, known) \in Seq(Seq(Chars))
<1> DEFINE before == Slice(text, current_token(text, cursor).start, cursor)
           key == SubSeq(before, 1, Colon(before))
           prefix == SubSeq(before, Colon(before) + 1, Len(before))
<1>1. before \in Seq(Chars) BY TokenType, SliceType
<1>2. Colon(before) \in 0 .. Len(before) BY <1>1, ColonFinds
<1>3. build_filter_suggestions(text, cursor, known) = Offered(before, known) BY OfferedIs
<1> HIDE DEF before
<1>4. key \in Seq(Chars) /\ prefix \in Seq(Chars) BY <1>1, <1>2
<1>5. \A p : key_suggestions(p) \in Seq(Seq(Chars))
  BY BeginningType, FilterEditorAssumption DEF key_suggestions
<1>6. /\ known.hosts \in Seq(Seq(Chars)) /\ known.statuses \in Seq(Seq(Chars))
      /\ known.content_types \in Seq(Seq(Chars))
  BY DEF Indexes
<1> DEFINE hosts == value_suggestions(key, prefix_suggestions(known.hosts, Lowered(prefix)))
           statuses == value_suggestions(key, status_values(prefix, known.statuses))
           kinds == value_suggestions(key, content_type_values(prefix, known.content_types))
           times == value_suggestions(key, compared_values(Presets, prefix))
           fixed == value_suggestions(key, static_values(Fixed[key], prefix))
           other == key_suggestions(SubSeq(key, 1, Colon(before) - 1))
<1>7. Offered(before, known)
        = CASE Colon(before) = 0 -> key_suggestions(before)
            [] key = HostKey -> hosts
            [] key = StatusKey -> statuses
            [] key = TypeKey -> kinds
            [] key = DurationKey -> times
            [] key \in DOMAIN Fixed -> fixed
            [] OTHER -> other
  BY DEF Offered
<1>8. hosts \in Seq(Seq(Chars))
  <2>1. prefix_suggestions(known.hosts, Lowered(prefix)) \in Seq(Seq(Chars))
    BY <1>6, PrefixSuggestions
  <2> QED BY <1>4, <2>1, ValuesType
<1>9. statuses \in Seq(Seq(Chars))
  <2>1. Buckets \in Seq(Seq(Chars)) BY FilterEditorAssumption
  <2>2. status_values(prefix, known.statuses) \in Seq(Seq(Chars))
    BY <1>4, <1>6, <2>1, ComparedType DEF status_values
  <2> QED BY <1>4, <2>2, ValuesType
<1>10. kinds \in Seq(Seq(Chars))
  <2>1. content_type_values(prefix, known.content_types) \in Seq(Seq(Chars))
    BY <1>4, <1>6, KindsType
  <2> QED BY <1>4, <2>1, ValuesType
<1>11. times \in Seq(Seq(Chars))
  <2>1. Presets \in Seq(Seq(Chars)) BY FilterEditorAssumption
  <2>2. compared_values(Presets, prefix) \in Seq(Seq(Chars)) BY <1>4, <2>1, ComparedType
  <2> QED BY <1>4, <2>2, ValuesType
<1>12. ASSUME key \in DOMAIN Fixed PROVE fixed \in Seq(Seq(Chars))
  <2>1. Fixed[key] \in Seq(Seq(Chars)) BY <1>12, FilterEditorAssumption
  <2>2. static_values(Fixed[key], prefix) \in Seq(Seq(Chars)) BY <2>1, StaticType
  <2> QED BY <1>4, <2>2, ValuesType
<1>13. key_suggestions(before) \in Seq(Seq(Chars)) /\ other \in Seq(Seq(Chars)) BY <1>5
<1> HIDE DEF hosts, statuses, kinds, times, fixed, other, key, prefix
<1> QED BY <1>3, <1>7, <1>8, <1>9, <1>10, <1>11, <1>12, <1>13

-------------------------------------------------------------------------------
(* The editor.                                                                 *)

Editors ==
  [text : Seq(Chars), cursor : Nat, suggestions : Seq(Seq(Chars)), selected_suggestion : Nat]

\* The cursor stands between characters, and what is highlighted is offered.
Standing(e) ==
  /\ \E n \in 0 .. Len(e.text) : e.cursor = Offset(e.text, n)
  /\ e.selected_suggestion = 0 \/ e.selected_suggestion < Len(e.suggestions)

\* Such a cursor is the offset of the characters before it.
LEMMA StandingCount ==
  ASSUME NEW e \in Editors, Standing(e)
  PROVE  Count(e.text, e.cursor) \in 0 .. Len(e.text)
         /\ Offset(e.text, Count(e.text, e.cursor)) = e.cursor
<1>1. e.text \in Seq(Chars) BY DEF Editors
<1>2. PICK n \in 0 .. Len(e.text) : e.cursor = Offset(e.text, n) BY DEF Standing
<1>3. Count(e.text, e.cursor) = n BY <1>1, <1>2, CountOfOffset
<1> QED BY <1>2, <1>3

\* A clamped cursor has the same characters before it.
LEMMA ClampType ==
  ASSUME NEW text \in Seq(Chars), NEW cursor \in Nat
  PROVE  /\ clamp_to_char_boundary(text, cursor) \in Nat
         /\ Count(text, clamp_to_char_boundary(text, cursor)) = Count(text, cursor)
<1>1. Count(text, cursor) \in 0 .. Len(text) BY CountFinds
<1> QED BY <1>1, OffsetType, CountOfOffset DEF clamp_to_char_boundary

\* What a refresh makes of an editor.
LEMMA Refreshed ==
  ASSUME NEW e \in Editors, index \in Indexes
  PROVE  LET cursor == clamp_to_char_boundary(e.text, e.cursor)
             offered == build_filter_suggestions(e.text, cursor, index)
         IN  /\ refresh(e).text = e.text /\ refresh(e).cursor = cursor
             /\ refresh(e).suggestions = offered
             /\ refresh(e).selected_suggestion
                  = IF offered = <<>> THEN 0 ELSE Min({e.selected_suggestion, Len(offered) - 1})
             /\ refresh(e) \in Editors /\ Standing(refresh(e))
<1> DEFINE cursor == clamp_to_char_boundary(e.text, e.cursor)
           offered == build_filter_suggestions(e.text, cursor, index)
           selected == IF offered = <<>> THEN 0 ELSE Min({e.selected_suggestion, Len(offered) - 1})
<1>0. e.text \in Seq(Chars) /\ e.cursor \in Nat /\ e.selected_suggestion \in Nat BY DEF Editors
<1>1. cursor \in Nat BY <1>0, ClampType
<1>2. \E n \in 0 .. Len(e.text) : cursor = Offset(e.text, n)
  BY <1>0, CountFinds DEF clamp_to_char_boundary
<1>3. refresh(e) = [e EXCEPT !.cursor = cursor, !.suggestions = offered,
                             !.selected_suggestion = selected]
  BY DEF refresh, Editors
<1> HIDE DEF cursor
<1>4. offered \in Seq(Seq(Chars)) BY <1>0, <1>1, SuggestionsType
<1> HIDE DEF offered
<1>5. selected \in Nat /\ (selected = 0 \/ selected < Len(offered))
  <2>1. CASE offered = <<>> BY <2>1
  <2>2. CASE offered # <<>>
    <3>1. Len(offered) - 1 \in Nat BY <1>4, <2>2
    <3>2. selected = IF e.selected_suggestion <= Len(offered) - 1
                       THEN e.selected_suggestion ELSE Len(offered) - 1
      <4>1. e.selected_suggestion \in Int /\ Len(offered) - 1 \in Int BY <1>0, <3>1
      <4> QED BY <2>2, <4>1, MinOfTwo
    <3> HIDE DEF selected
    <3> QED BY <1>0, <1>4, <3>1, <3>2
  <2> QED BY <2>1, <2>2
<1> HIDE DEF selected
<1>6. refresh(e) = [text |-> e.text, cursor |-> cursor, suggestions |-> offered,
                    selected_suggestion |-> selected]
  BY <1>3 DEF Editors
<1>7. refresh(e) \in Editors BY <1>0, <1>1, <1>4, <1>5, <1>6 DEF Editors
<1>8. Standing(refresh(e)) BY <1>2, <1>5, <1>6 DEF Standing
<1>9. /\ refresh(e).text = e.text /\ refresh(e).cursor = cursor
      /\ refresh(e).suggestions = offered /\ refresh(e).selected_suggestion = selected
  BY <1>6
<1> QED BY <1>7, <1>8, <1>9 DEF selected, offered, cursor

\* A new text leaves a good editor.
LEMMA RetypedStands ==
  ASSUME NEW e \in Editors, index \in Indexes, NEW text \in Seq(Chars), NEW cursor \in Nat
  PROVE  Retyped(e, text, cursor) \in Editors /\ Standing(Retyped(e, text, cursor))
<1>1. [e EXCEPT !.text = text, !.cursor = cursor] \in Editors BY DEF Editors
<1> QED BY <1>1, Refreshed DEF Retyped

\* So does a new place of the cursor.
LEMMA MovedStands ==
  ASSUME NEW e \in Editors, Standing(e), NEW n \in 0 .. Len(e.text), NEW f,
         f = [e EXCEPT !.cursor = Offset(e.text, n)]
  PROVE  f \in Editors /\ Standing(f)
<1>1. e.text \in Seq(Chars) BY DEF Editors
<1>2. Offset(e.text, n) \in Nat BY <1>1, OffsetType
<1>3. f.text = e.text /\ f.cursor = Offset(e.text, n) /\ f.suggestions = e.suggestions
      /\ f.selected_suggestion = e.selected_suggestion
  BY DEF Editors
<1>4. f \in Editors BY <1>2 DEF Editors
<1> QED BY <1>3, <1>4 DEF Standing

\* Every key leaves the editor good.
LEMMA KeyStands ==
  ASSUME editor \in Editors, index \in Indexes, Key
  PROVE  /\ editor' \in Editors /\ Standing(editor')
         /\ pc' = "draw" /\ frame' = NoFrame /\ UNCHANGED <<captured, index, width>>
<1>1. PICK e : e = refresh(editor) /\
        (\/ InsertChar(e) \/ Backspace(e) \/ Delete(e) \/ MoveCursor(e) \/ Clear(e)
         \/ DeleteCurrentToken(e) \/ SelectSuggestion(e) \/ ApplySelectedSuggestion(e))
  BY DEF Key
<1>2. e \in Editors /\ Standing(e) BY <1>1, Refreshed
<1>3. e.text \in Seq(Chars) /\ e.cursor \in Nat /\ e.suggestions \in Seq(Seq(Chars))
      /\ e.selected_suggestion \in Nat
  BY <1>2 DEF Editors
<1> DEFINE here == Count(e.text, e.cursor)
<1>4. here \in 0 .. Len(e.text) /\ Offset(e.text, here) = e.cursor BY <1>2, StandingCount
<1>5. e.cursor > 0 => here - 1 \in 0 .. Len(e.text)
  <2>1. here = 0 => e.cursor = 0 BY <1>3, <1>4, OffsetSteps
  <2> QED BY <1>3, <1>4, <2>1
<1>6. e.cursor < Size(e.text) => here + 1 \in 0 .. Len(e.text)
  <2>1. here = Len(e.text) => e.cursor = Size(e.text) BY <1>4 DEF Size
  <2> QED BY <1>3, <1>4, <2>1, SizeType
<1> HIDE DEF here
<1>7. SUFFICES \E f \in Editors : Standing(f) /\ Becomes(f)
  BY DEF Becomes
<1>8. ASSUME NEW text \in Seq(Chars), NEW cursor \in Nat, Becomes(Retyped(e, text, cursor))
      PROVE  \E f \in Editors : Standing(f) /\ Becomes(f)
  BY <1>2, <1>8, RetypedStands
<1>9. ASSUME NEW n \in 0 .. Len(e.text), Becomes([e EXCEPT !.cursor = Offset(e.text, n)])
      PROVE  \E f \in Editors : Standing(f) /\ Becomes(f)
  BY <1>2, <1>9, MovedStands
<1>10. CASE InsertChar(e)
  <2>1. PICK c \in Typed :
          Becomes(Retyped(e, replace_range(e.text, e.cursor, e.cursor, <<c>>), e.cursor + Bytes[c]))
    BY <1>10 DEF InsertChar
  <2>2. c \in Chars /\ Bytes[c] \in Nat BY FilterEditorAssumption
  <2>3. replace_range(e.text, e.cursor, e.cursor, <<c>>) \in Seq(Chars)
    <3>1. <<c>> \in Seq(Chars) BY <2>2
    <3> QED BY <1>3, <3>1, Replaced
  <2>4. e.cursor + Bytes[c] \in Nat BY <1>3, <2>2
  <2> QED BY <1>8, <2>1, <2>3, <2>4
<1>11. CASE Backspace(e)
  <2>1. Previous(e) \in Nat BY <1>3, <1>5, <1>11, OffsetType DEF Backspace, Previous, here
  <2>2. replace_range(e.text, Previous(e), e.cursor, <<>>) \in Seq(Chars)
    <3>1. <<>> \in Seq(Chars) OBVIOUS
    <3> QED BY <1>3, <2>1, <3>1, Replaced
  <2> QED BY <1>8, <1>11, <2>1, <2>2 DEF Backspace
<1>12. CASE Delete(e)
  <2>1. Following(e) \in Nat BY <1>3, <1>6, <1>12, OffsetType DEF Delete, Following, here
  <2>2. replace_range(e.text, e.cursor, Following(e), <<>>) \in Seq(Chars)
    <3>1. <<>> \in Seq(Chars) OBVIOUS
    <3> QED BY <1>3, <2>1, <3>1, Replaced
  <2> QED BY <1>3, <1>8, <1>12, <2>2 DEF Delete
<1>13. CASE MoveCursor(e)
  <2>1. CASE e.cursor > 0 /\ Becomes([e EXCEPT !.cursor = Previous(e)])
    BY <1>5, <1>9, <2>1 DEF Previous, here
  <2>2. CASE e.cursor < Size(e.text) /\ Becomes([e EXCEPT !.cursor = Following(e)])
    BY <1>6, <1>9, <2>2 DEF Following, here
  <2>3. CASE Becomes([e EXCEPT !.cursor = 0])
    <3>1. Offset(e.text, 0) = 0 BY <1>3, OffsetSteps
    <3>2. 0 \in 0 .. Len(e.text) BY <1>3
    <3> QED BY <1>9, <2>3, <3>1, <3>2
  <2>4. CASE Becomes([e EXCEPT !.cursor = Size(e.text)])
    <3>1. Len(e.text) \in 0 .. Len(e.text) BY <1>3
    <3> QED BY <1>9, <2>4, <3>1 DEF Size
  <2> QED BY <1>13, <2>1, <2>2, <2>3, <2>4 DEF MoveCursor
<1>14. CASE Clear(e)
  <2>1. <<>> \in Seq(Chars) /\ 0 \in Nat OBVIOUS
  <2> QED BY <1>8, <1>14, <2>1 DEF Clear
<1>15. CASE DeleteCurrentToken(e)
  <2> DEFINE token == current_token(e.text, e.cursor)
  <2>1. token.start \in Nat /\ token.end \in Nat BY <1>3, TokenType
  <2>2. Becomes(Retyped(e, replace_range(e.text, token.start, token.end, <<>>), token.start))
    BY <1>15 DEF DeleteCurrentToken
  <2> HIDE DEF token
  <2>3. replace_range(e.text, token.start, token.end, <<>>) \in Seq(Chars)
    <3>1. <<>> \in Seq(Chars) OBVIOUS
    <3> QED BY <1>3, <2>1, <3>1, Replaced
  <2> QED BY <1>8, <2>1, <2>2, <2>3
<1>16. CASE SelectSuggestion(e)
  <2>1. PICK n : /\ n = Min({e.selected_suggestion + 1, Len(e.suggestions) - 1})
                    \/ n = IF e.selected_suggestion = 0 THEN 0 ELSE e.selected_suggestion - 1
                 /\ Becomes([e EXCEPT !.selected_suggestion = n])
    BY <1>2, <1>16 DEF SelectSuggestion, Editors
  <2>2. Len(e.suggestions) \in Nat /\ Len(e.suggestions) # 0
    BY <1>3, <1>16 DEF SelectSuggestion
  <2>3. Min({e.selected_suggestion + 1, Len(e.suggestions) - 1})
          = IF e.selected_suggestion + 1 <= Len(e.suggestions) - 1
              THEN e.selected_suggestion + 1 ELSE Len(e.suggestions) - 1
    <3>1. e.selected_suggestion + 1 \in Int /\ Len(e.suggestions) - 1 \in Int BY <1>3, <2>2
    <3> QED BY <3>1, MinOfTwo
  <2>4. n \in Nat /\ n < Len(e.suggestions)
    <3>1. e.selected_suggestion = 0 \/ e.selected_suggestion < Len(e.suggestions)
      BY <1>2 DEF Standing
    <3> QED BY <1>3, <2>1, <2>2, <2>3, <3>1
  <2> DEFINE f == [e EXCEPT !.selected_suggestion = n]
  <2>5. f \in Editors BY <1>2, <2>4 DEF Editors
  <2>6. f.text = e.text /\ f.cursor = e.cursor /\ f.suggestions = e.suggestions
        /\ f.selected_suggestion = n
    BY <1>2 DEF Editors
  <2>7. Standing(f) BY <1>2, <2>4, <2>6 DEF Standing
  <2> HIDE DEF f
  <2> QED BY <2>1, <2>5, <2>7 DEF f
<1>17. CASE ApplySelectedSuggestion(e)
  <2> DEFINE token == current_token(e.text, e.cursor)
             offer == e.suggestions[e.selected_suggestion + 1]
             text == replace_range(e.text, token.start, token.end, offer)
  <2>1. token.start \in Nat /\ token.end \in Nat BY <1>3, TokenType
  <2>2. Becomes(Retyped(e, text, token.start + Size(offer))) /\ e.suggestions # <<>>
    BY <1>17 DEF ApplySelectedSuggestion
  <2>3. e.selected_suggestion + 1 \in 1 .. Len(e.suggestions)
    BY <1>2, <1>3, <2>2 DEF Standing
  <2>4. offer \in Seq(Chars) BY <1>3, <2>3
  <2> HIDE DEF token, offer
  <2>5. text \in Seq(Chars) BY <1>3, <2>1, <2>4, Replaced
  <2>6. token.start + Size(offer) \in Nat BY <2>1, <2>4, SizeType
  <2> HIDE DEF text
  <2> QED BY <1>8, <2>2, <2>5, <2>6
<1> QED BY <1>1, <1>10, <1>11, <1>12, <1>13, <1>14, <1>15, <1>16, <1>17

-------------------------------------------------------------------------------
(* The view.                                                                   *)

Drawn == Chars \cup {"<", ">"}

\* What visible_text shows, column by column.
LEMMA ViewShows ==
  ASSUME NEW text \in Seq(Chars), NEW cursor \in Nat, width \in Nat \ {0}
  PROVE  LET view == visible_text(text, cursor)
             here == Count(text, cursor)
             column == view.cursor_column
         IN  /\ view.text \in Seq(Drawn) /\ column \in Nat /\ view.panics \in BOOLEAN
             /\ view = [text |-> view.text, cursor_column |-> column, panics |-> view.panics]
             /\ view.panics => \E i \in DOMAIN text : Bytes[text[i]] > 1
             /\ column < width /\ Len(view.text) <= width
             /\ ~(here = width /\ Len(text) = width) =>
                  \A k \in 1 .. column : \/ view.text[k] = text[here - column + k]
                                         \/ k = 1 /\ view.text[k] = "<" /\ column < here
<1> DEFINE here == Count(text, cursor)
           start == IF Len(text) <= width \/ here < width THEN 0 ELSE here - (width - 1)
           end == Min({start + width, Len(text)})
           visible == SubSeq(text, start + 1, end)
           headed == IF start > 0 /\ visible # <<>> THEN <<"<">> \o Tail(visible) ELSE visible
           drawn == IF end < Len(text) /\ visible # <<>> THEN Front(headed) \o <<">">> ELSE headed
           column == Min({here - start, width - 1})
           panics == start > 0 /\ visible # <<>> /\ Bytes[visible[1]] # 1
<1>1. visible_text(text, cursor) = [text |-> drawn, cursor_column |-> column, panics |-> panics]
  BY DEF visible_text
<1>2. here \in 0 .. Len(text) /\ Len(text) \in Nat BY CountFinds
<1> HIDE DEF here
<1>3. /\ start \in 0 .. here
      /\ start = 0 => here < width \/ Len(text) <= width
      /\ start # 0 => start = here - (width - 1) /\ here >= width
  BY <1>2
<1> HIDE DEF start
<1>4. end = IF start + width <= Len(text) THEN start + width ELSE Len(text)
  <2>1. start + width \in Int /\ Len(text) \in Int BY <1>2, <1>3
  <2> QED BY <2>1, MinOfTwo
<1> HIDE DEF end
<1>5. end \in start .. Len(text) /\ end - start \in 0 .. width BY <1>2, <1>3, <1>4
<1>6. /\ visible \in Seq(Chars) /\ Len(visible) = end - start
      /\ \A k \in 1 .. end - start : visible[k] = text[start + k]
  BY <1>2, <1>3, <1>5, SMTT(30)
<1> HIDE DEF visible
<1>7. /\ headed \in Seq(Drawn) /\ Len(headed) = end - start
      /\ \A k \in 1 .. end - start :
           headed[k] = IF start > 0 /\ k = 1 THEN "<" ELSE text[start + k]
  <2>1. CASE start > 0 /\ visible # <<>>
    <3>1. headed = <<"<">> \o Tail(visible) BY <2>1
    <3>2. Tail(visible) \in Seq(Drawn) /\ Len(Tail(visible)) = Len(visible) - 1
          /\ \A k \in 1 .. Len(visible) - 1 : Tail(visible)[k] = visible[k + 1]
      BY <1>6, <2>1 DEF Drawn
    <3>3. <<"<">> \in Seq(Drawn) /\ Len(<<"<">>) = 1 BY DEF Drawn
    <3>4. headed \in Seq(Drawn) /\ Len(headed) = end - start
      BY <1>6, <2>1, <3>1, <3>2, <3>3
    <3>5. ASSUME NEW k \in 1 .. end - start
          PROVE  headed[k] = IF start > 0 /\ k = 1 THEN "<" ELSE text[start + k]
      <4>1. CASE k = 1 BY <2>1, <3>1, <3>2, <3>3, <4>1
      <4>2. CASE k # 1
        <5>1. k - 1 \in 1 .. Len(visible) - 1 /\ k - 1 + 1 = k BY <1>5, <1>6, <4>2
        <5>2. headed[k] = Tail(visible)[k - 1] BY <1>6, <3>1, <3>2, <3>3, <4>2, <5>1
        <5> QED BY <1>6, <3>2, <4>2, <5>1, <5>2
      <4> QED BY <4>1, <4>2
    <3> QED BY <3>4, <3>5
  <2>2. CASE ~(start > 0 /\ visible # <<>>)
    <3>1. headed = visible BY <2>2
    <3>2. visible \in Seq(Drawn) BY <1>6 DEF Drawn
    <3>3. start > 0 => end - start = 0 BY <1>3, <1>6, <2>2
    <3> HIDE DEF headed
    <3> QED BY <1>5, <1>6, <3>1, <3>2, <3>3
  <2> QED BY <2>1, <2>2
<1>8. visible # <<>> <=> end # start BY <1>3, <1>5, <1>6
<1> HIDE DEF headed
<1>9. /\ drawn \in Seq(Drawn) /\ Len(drawn) = end - start
      /\ \A k \in 1 .. end - start :
           drawn[k] = IF end < Len(text) /\ k = end - start THEN ">" ELSE headed[k]
  <2>1. CASE end < Len(text) /\ visible # <<>>
    <3>1. drawn = SubSeq(headed, 1, Len(headed) - 1) \o <<">">> BY <2>1 DEF Front
    <3>2. Len(headed) \in Nat \ {0} BY <1>2, <1>3, <1>5, <1>7, <1>8, <2>1
    <3>3. <<">">> \in Seq(Drawn) /\ Len(<<">">>) = 1 BY DEF Drawn
    <3>4. /\ SubSeq(headed, 1, Len(headed) - 1) \in Seq(Drawn)
          /\ Len(SubSeq(headed, 1, Len(headed) - 1)) = Len(headed) - 1
          /\ \A k \in 1 .. Len(headed) - 1 : SubSeq(headed, 1, Len(headed) - 1)[k] = headed[k]
      BY <1>7, <3>2
    <3>5. drawn \in Seq(Drawn) /\ Len(drawn) = Len(headed)
      <4> DEFINE front == SubSeq(headed, 1, Len(headed) - 1)
      <4>1. drawn = front \o <<">">> BY <3>1
      <4>2. front \in Seq(Drawn) /\ Len(front) = Len(headed) - 1 BY <3>4
      <4> HIDE DEF front, drawn
      <4> QED BY <3>2, <3>3, <4>1, <4>2
    <3>6. ASSUME NEW k \in 1 .. end - start
          PROVE  drawn[k] = IF k = end - start THEN ">" ELSE headed[k]
      BY <1>7, <3>1, <3>2, <3>3, <3>4
    <3> HIDE DEF drawn
    <3> QED BY <1>7, <2>1, <3>5, <3>6
  <2>2. CASE ~(end < Len(text) /\ visible # <<>>)
    <3>1. drawn = headed BY <2>2
    <3>2. ASSUME NEW k \in 1 .. end - start PROVE ~(end < Len(text) /\ k = end - start)
      BY <1>3, <1>5, <1>8, <2>2
    <3> HIDE DEF drawn
    <3> QED BY <1>7, <3>1, <3>2
  <2> QED BY <2>1, <2>2
<1> HIDE DEF drawn
<1>10. column = IF here - start <= width - 1 THEN here - start ELSE width - 1
  <2>1. here - start \in Int /\ width - 1 \in Int BY <1>2, <1>3
  <2> QED BY <2>1, MinOfTwo
<1> HIDE DEF column
<1>11. column \in Nat /\ column < width BY <1>2, <1>3, <1>10
<1>12. panics => \E i \in DOMAIN text : Bytes[text[i]] > 1
  <2>1. SUFFICES ASSUME panics PROVE \E i \in DOMAIN text : Bytes[text[i]] > 1 OBVIOUS
  <2>2. visible[1] = text[start + 1] /\ start + 1 \in 1 .. Len(text)
    BY <1>2, <1>3, <1>5, <1>6, <1>8, <2>1
  <2>3. Bytes[text[start + 1]] \in Nat \ {0} BY <2>2, BytesPositive
  <2>4. Bytes[text[start + 1]] # 1 BY <2>1, <2>2
  <2> QED BY <2>2, <2>3, <2>4
<1>13. panics \in BOOLEAN OBVIOUS
<1> HIDE DEF panics
<1>14. ASSUME ~(here = width /\ Len(text) = width), NEW k \in 1 .. column
       PROVE  drawn[k] = text[here - column + k] \/ (k = 1 /\ drawn[k] = "<" /\ column < here)
  <2>1. column = here - start /\ here - column = start
    BY <1>2, <1>3, <1>10, <1>14
  <2>2. k \in 1 .. end - start /\ ~(end < Len(text) /\ k = end - start)
    BY <1>2, <1>3, <1>4, <1>5, <1>11, <2>1
  <2>3. drawn[k] = headed[k] BY <1>9, <2>2
  <2>4. drawn[k] = IF start > 0 /\ k = 1 THEN "<" ELSE text[start + k] BY <1>7, <2>2, <2>3
  <2>5. start > 0 => column < here BY <1>2, <1>3, <2>1
  <2> QED BY <1>3, <2>1, <2>4, <2>5
<1>15. Len(drawn) <= width BY <1>5, <1>9
<1> DEFINE view == visible_text(text, cursor)
<1>16. /\ view.text = drawn /\ view.cursor_column = column /\ view.panics = panics
       /\ view = [text |-> view.text, cursor_column |-> view.cursor_column, panics |-> view.panics]
  BY <1>1
<1> HIDE DEF view
<1> QED BY <1>9, <1>11, <1>12, <1>13, <1>14, <1>15, <1>16 DEF here, view

Views == [text : Seq(Drawn), cursor_column : Nat, panics : BOOLEAN]
Frames == [view : Views, suggestions : Seq(Seq(Chars)), selected : Nat, captured : SUBSET Entries]

\* The type invariant by its parts.
LEMMA FilterEditorTypes ==
  FilterEditorTypeOK <=>
    /\ captured \subseteq Entries /\ index \in Indexes
    /\ editor \in Editors /\ Standing(editor)
    /\ width \in Widths /\ pc \in {"draw", "key", "panicked"} /\ frame \in Frames
BY DEF FilterEditorTypeOK, Editors, Standing, Frames, Views, Drawn, Indexes

\* The frame that is gone has the type of a frame.
LEMMA NoFrameType == NoFrame \in Frames
<1>1. <<>> \in Seq(Drawn) /\ <<>> \in Seq(Seq(Chars)) /\ 0 \in Nat /\ {} \in SUBSET Entries OBVIOUS
<1>2. NoView \in Views BY <1>1 DEF NoView, Views
<1> QED BY <1>1, <1>2 DEF NoFrame, Frames

\* The editor is opened good.
LEMMA FilterEditorInitially == FilterEditorInit => FilterEditorTypeOK
<1> SUFFICES ASSUME FilterEditorInit PROVE FilterEditorTypeOK OBVIOUS
<1>1. PICK text \in Starts :
        editor = [text |-> text, cursor |-> Size(text),
                  suggestions |-> build_filter_suggestions(text, Size(text), NoIndex),
                  selected_suggestion |-> 0]
  BY DEF FilterEditorInit
<1>2. text \in Seq(Chars) BY FilterEditorAssumption
<1>3. Size(text) \in Nat BY <1>2, SizeType
<1>4. NoIndex \in Indexes BY NoIndexType
<1>5. build_filter_suggestions(text, Size(text), NoIndex) \in Seq(Seq(Chars))
  BY <1>2, <1>3, <1>4, SuggestionsType
<1>6. editor \in Editors BY <1>1, <1>2, <1>3, <1>5 DEF Editors
<1>7. Standing(editor)
  <2>1. Len(text) \in 0 .. Len(text) BY <1>2
  <2> QED BY <1>1, <2>1 DEF Standing, Size
<1> QED BY <1>4, <1>6, <1>7, NoFrameType, FilterEditorTypes DEF FilterEditorInit

\* What a frame shows is what the refreshed editor holds.
LEMMA DrawShows ==
  ASSUME FilterEditorTypeOK, Draw
  PROVE  /\ editor' = refresh(editor) /\ editor' \in Editors /\ Standing(editor')
         /\ frame'.view = visible_text(editor'.text, editor'.cursor) /\ frame' \in Frames
         /\ frame'.suggestions = editor'.suggestions /\ frame'.captured = captured
         /\ frame'.selected = editor'.selected_suggestion
         /\ pc' = IF frame'.view.panics THEN "panicked" ELSE "key"
         /\ pc = "draw" /\ UNCHANGED <<captured, index, width>>
<1> DEFINE e == refresh(editor)
           view == visible_text(e.text, e.cursor)
<1>1. editor \in Editors /\ index \in Indexes /\ width \in Nat \ {0} /\ captured \in SUBSET Entries
  BY FilterEditorTypes, FilterEditorAssumption
<1>2. e \in Editors /\ Standing(e) BY <1>1, Refreshed
<1> HIDE DEF e
<1>3. e.text \in Seq(Chars) /\ e.cursor \in Nat /\ e.suggestions \in Seq(Seq(Chars))
      /\ e.selected_suggestion \in Nat
  BY <1>2 DEF Editors
<1>4. view \in Views
  <2>1. /\ view.text \in Seq(Drawn) /\ view.cursor_column \in Nat /\ view.panics \in BOOLEAN
        /\ view = [text |-> view.text, cursor_column |-> view.cursor_column, panics |-> view.panics]
    BY <1>1, <1>3, ViewShows
  <2> HIDE DEF view
  <2> QED BY <2>1 DEF Views
<1>5. /\ editor' = e /\ pc = "draw" /\ pc' = IF view.panics THEN "panicked" ELSE "key"
      /\ frame' = [view |-> view, suggestions |-> e.suggestions,
                   selected |-> e.selected_suggestion, captured |-> captured]
      /\ UNCHANGED <<captured, index, width>>
  BY DEF Draw, e
<1> HIDE DEF view
<1>6. frame' \in Frames BY <1>1, <1>3, <1>4, <1>5 DEF Frames
<1>7. /\ frame'.view = view /\ frame'.suggestions = e.suggestions /\ frame'.captured = captured
      /\ frame'.selected = e.selected_suggestion
  BY <1>5
<1> QED BY <1>2, <1>5, <1>6, <1>7 DEF e, view

\* Every step leaves the editor good.
LEMMA FilterEditorTypeKept ==
  ASSUME FilterEditorTypeOK, [FilterEditorNext]_editorVars
  PROVE  FilterEditorTypeOK'
<1> SUFFICES /\ captured' \subseteq Entries /\ index' \in Indexes
             /\ editor' \in Editors /\ Standing(editor')
             /\ width' \in Widths /\ pc' \in {"draw", "key", "panicked"} /\ frame' \in Frames
  BY DEF FilterEditorTypeOK, Editors, Standing, Frames, Views, Drawn, Indexes
<1>0. /\ captured \subseteq Entries /\ index \in Indexes
      /\ editor \in Editors /\ Standing(editor)
      /\ width \in Widths /\ pc \in {"draw", "key", "panicked"} /\ frame \in Frames
  BY FilterEditorTypes
<1>1. CASE Capture
  <2>1. PICK e \in Entries \ captured :
          captured' = captured \cup {e} /\ index' = insert_entry(index, e)
    BY <1>1 DEF Capture
  <2>2. index' \in Indexes BY <1>0, <2>1, EntryInserted
  <2> QED BY <1>0, <1>1, <2>1, <2>2 DEF Capture
<1>2. CASE Draw BY <1>0, <1>2, DrawShows
<1>3. CASE NoKey BY <1>0, <1>3, NoFrameType DEF NoKey
<1>4. CASE Key BY <1>0, <1>4, KeyStands, NoFrameType
<1>5. CASE UNCHANGED editorVars BY <1>0, <1>5 DEF editorVars
<1> QED BY <1>1, <1>2, <1>3, <1>4, <1>5 DEF FilterEditorNext

\* For any characters, keys, hosts and widths, the cursor never stands inside a character,
\* where the text could not be cut (filter.rs 22-122, 136-148).
THEOREM FilterEditorTypeCorrect == FilterEditorSpec => []FilterEditorTypeOK
BY FilterEditorInitially, FilterEditorTypeKept, PTL DEF FilterEditorSpec

\* Only a frame changes what is seen, and it shows what ViewShows says.
LEMMA ViewKept ==
  ASSUME FilterEditorTypeOK, ViewFollowsCursor, [FilterEditorNext]_editorVars
  PROVE  ViewFollowsCursor'
<1>1. CASE Draw
  <2>1. /\ editor' \in Editors /\ frame'.view = visible_text(editor'.text, editor'.cursor)
        /\ width' = width
        /\ pc' = IF frame'.view.panics THEN "panicked" ELSE "key"
    BY <1>1, DrawShows
  <2>2. width \in Nat \ {0} BY FilterEditorTypes, FilterEditorAssumption
  <2>3. editor'.text \in Seq(Chars) /\ editor'.cursor \in Nat BY <2>1 DEF Editors
  <2> DEFINE view == visible_text(editor'.text, editor'.cursor)
             here == Count(editor'.text, editor'.cursor)
             column == view.cursor_column
  <2>4. /\ view.panics => \E i \in DOMAIN editor'.text : Bytes[editor'.text[i]] > 1
        /\ column < width /\ Len(view.text) <= width
        /\ ~(here = width /\ Len(editor'.text) = width) =>
             \A k \in 1 .. column : \/ view.text[k] = editor'.text[here - column + k]
                                    \/ k = 1 /\ view.text[k] = "<" /\ column < here
    BY <2>2, <2>3, ViewShows
  <2>5. view = frame'.view BY <2>1
  <2> HIDE DEF view
  <2> QED BY <2>1, <2>4, <2>5 DEF ViewFollowsCursor
<1>2. CASE Capture
  BY <1>2 DEF Capture, ViewFollowsCursor
<1>3. CASE NoKey BY <1>3 DEF NoKey, ViewFollowsCursor
<1>4. CASE Key
  <2>1. pc' = "draw" BY <1>4, FilterEditorTypes, KeyStands
  <2> QED BY <2>1 DEF ViewFollowsCursor
<1>5. CASE UNCHANGED editorVars BY <1>5 DEF editorVars, ViewFollowsCursor
<1> QED BY <1>1, <1>2, <1>3, <1>4, <1>5 DEF FilterEditorNext

\* For texts, characters and areas of any width, what is drawn left of the cursor is what
\* is left of the cursor, and only characters of several bytes can make the view panic
\* (filter.rs 150-186).
THEOREM FilterEditorView == FilterEditorSpec => []ViewFollowsCursor
<1>1. FilterEditorInit => ViewFollowsCursor BY DEF FilterEditorInit, ViewFollowsCursor
<1> QED BY <1>1, ViewKept, FilterEditorTypeCorrect, PTL DEF FilterEditorSpec

-------------------------------------------------------------------------------
(* The order of texts.                                                         *)

\* The order of what stands at a place, where the end comes before every character.
Place(s, i) == IF i <= Len(s) THEN Rank[s[i]] + 1 ELSE 0

\* Only behind its end a text has nothing at a place.
LEMMA PlaceType ==
  ASSUME NEW s \in Seq(Chars), NEW i \in Nat \ {0}
  PROVE  Place(s, i) \in Nat /\ (Place(s, i) > 0 <=> i <= Len(s))
<1>1. CASE i <= Len(s)
  <2>1. s[i] \in Chars BY <1>1
  <2>2. Rank[s[i]] \in Nat BY <2>1, FilterEditorAssumption
  <2> QED BY <1>1, <2>2 DEF Place
<1>2. CASE ~(i <= Len(s)) BY <1>2 DEF Place
<1> QED BY <1>1, <1>2

\* Texts with the same at all places are the same.
LEMMA SamePlaces ==
  ASSUME NEW s \in Seq(Chars), NEW t \in Seq(Chars), NEW i \in Nat \ {0}, Place(s, i) = Place(t, i)
  PROVE  (i <= Len(s) <=> i <= Len(t)) /\ (i <= Len(s) => s[i] = t[i])
<1>1. i <= Len(s) <=> i <= Len(t) BY PlaceType
<1>2. ASSUME i <= Len(s) PROVE s[i] = t[i]
  <2>1. s[i] \in Chars /\ t[i] \in Chars BY <1>1, <1>2
  <2>2. Rank[s[i]] \in Nat /\ Rank[t[i]] \in Nat BY <2>1, FilterEditorAssumption
  <2>3. Rank[s[i]] = Rank[t[i]] BY <1>1, <1>2, <2>2 DEF Place
  <2> QED BY <2>1, <2>3, FilterEditorAssumption
<1> QED BY <1>1, <1>2

\* A prefix has the same at each of its places.
LEMMA PrefixPlaces ==
  ASSUME NEW s \in Seq(Chars), NEW t \in Seq(Chars)
  PROVE  IsPrefix(s, t) <=> \A i \in 1 .. Len(s) : Place(s, i) = Place(t, i)
<1>1. IsPrefix(s, t) <=> Len(s) <= Len(t) /\ \A i \in 1 .. Len(s) : s[i] = t[i]
  BY DEF IsPrefix
<1>2. ASSUME IsPrefix(s, t), NEW i \in 1 .. Len(s) PROVE Place(s, i) = Place(t, i)
  BY <1>1, <1>2 DEF Place
<1>3. ASSUME \A i \in 1 .. Len(s) : Place(s, i) = Place(t, i) PROVE IsPrefix(s, t)
  <2>1. ASSUME NEW i \in 1 .. Len(s) PROVE i <= Len(t) /\ s[i] = t[i]
    <3>1. i \in Nat \ {0} /\ i <= Len(s) OBVIOUS
    <3> QED BY <1>3, <3>1, SamePlaces
  <2>2. Len(s) <= Len(t)
    <3>1. CASE Len(s) = 0 BY <3>1
    <3>2. CASE Len(s) # 0
      <4>1. Len(s) \in 1 .. Len(s) BY <3>2
      <4> QED BY <2>1, <4>1
    <3> QED BY <3>1, <3>2
  <2> QED BY <1>1, <2>1, <2>2
<1> QED BY <1>2, <1>3

\* One text is before another if it is at the first place where they differ.
LEMMA LessPlaces ==
  ASSUME NEW s \in Seq(Chars), NEW t \in Seq(Chars)
  PROVE  Less(s, t) <=> \E i \in Nat \ {0} : /\ Place(s, i) < Place(t, i)
                                            /\ \A j \in 1 .. i - 1 : Place(s, j) = Place(t, j)
<1>1. ASSUME s # t, IsPrefix(s, t)
      PROVE  \E i \in Nat \ {0} : /\ Place(s, i) < Place(t, i)
                                  /\ \A j \in 1 .. i - 1 : Place(s, j) = Place(t, j)
  <2>1. Len(s) <= Len(t) /\ \A i \in 1 .. Len(s) : s[i] = t[i] BY <1>1 DEF IsPrefix
  <2>2. Len(s) # Len(t) BY <1>1, <2>1
  <2> DEFINE i == Len(s) + 1
  <2>3. i \in Nat \ {0} /\ ~(i <= Len(s)) /\ i <= Len(t) BY <2>1, <2>2
  <2>4. Place(s, i) < Place(t, i)
    <3>1. Place(s, i) \in Nat /\ Place(t, i) \in Nat /\ ~(Place(s, i) > 0) /\ Place(t, i) > 0
      BY <2>3, PlaceType
    <3> QED BY <3>1
  <2>5. \A j \in 1 .. i - 1 : Place(s, j) = Place(t, j) BY <1>1, PrefixPlaces
  <2> QED BY <2>3, <2>4, <2>5
<1>2. ASSUME NEW i \in 1 .. Len(s), i <= Len(t), Rank[s[i]] < Rank[t[i]],
             \A j \in 1 .. i - 1 : s[j] = t[j]
      PROVE  /\ i \in Nat \ {0} /\ Place(s, i) < Place(t, i)
             /\ \A j \in 1 .. i - 1 : Place(s, j) = Place(t, j)
  <2>1. s[i] \in Chars /\ t[i] \in Chars BY <1>2
  <2>2. Rank[s[i]] \in Nat /\ Rank[t[i]] \in Nat BY <2>1, FilterEditorAssumption
  <2>3. i \in Nat \ {0} /\ i <= Len(s) OBVIOUS
  <2>4. Place(s, i) < Place(t, i) BY <1>2, <2>2, <2>3 DEF Place
  <2>5. \A j \in 1 .. i - 1 : Place(s, j) = Place(t, j) BY <1>2 DEF Place
  <2> QED BY <2>3, <2>4, <2>5
<1>3. ASSUME NEW i \in Nat \ {0}, Place(s, i) < Place(t, i),
             \A j \in 1 .. i - 1 : Place(s, j) = Place(t, j)
      PROVE  Less(s, t)
  <2>0. Place(s, i) \in Nat /\ Place(t, i) \in Nat BY PlaceType
  <2>1. i <= Len(t) BY <1>3, <2>0, PlaceType
  <2>2. ASSUME NEW j \in 1 .. i - 1 PROVE j <= Len(s) /\ s[j] = t[j]
    <3>1. j \in Nat \ {0} /\ j <= Len(t) BY <2>1
    <3> QED BY <1>3, <3>1, SamePlaces
  <2>3. CASE i <= Len(s)
    <3>1. s[i] \in Chars /\ t[i] \in Chars BY <2>1, <2>3
    <3>2. Rank[s[i]] \in Nat /\ Rank[t[i]] \in Nat BY <3>1, FilterEditorAssumption
    <3>3. Rank[s[i]] < Rank[t[i]] BY <1>3, <2>1, <2>3, <3>2 DEF Place
    <3>4. i \in 1 .. Len(s) BY <2>3
    <3> QED BY <2>1, <2>2, <3>3, <3>4 DEF Less
  <2>4. CASE ~(i <= Len(s))
    <3>1. i - 1 = Len(s)
      <4>1. CASE i = 1 BY <2>4, <4>1
      <4>2. CASE i # 1
        <5>1. i - 1 \in 1 .. i - 1 BY <4>2
        <5> QED BY <2>2, <2>4, <5>1
      <4> QED BY <4>1, <4>2
    <3>2. Len(s) <= Len(t) /\ Len(s) # Len(t) BY <2>1, <3>1
    <3>3. \A j \in 1 .. Len(s) : s[j] = t[j] BY <2>2, <3>1
    <3>4. IsPrefix(s, t) BY <3>2, <3>3 DEF IsPrefix
    <3> QED BY <3>2, <3>4 DEF Less
  <2> QED BY <2>3, <2>4
<1> QED BY <1>1, <1>2, <1>3 DEF Less

\* The order of texts is total, transitive and strict.
LEMMA LessTotal ==
  ASSUME NEW s \in Seq(Chars), NEW t \in Seq(Chars), s # t
  PROVE  Less(s, t) \/ Less(t, s)
<1> DEFINE K == {i \in Nat \ {0} : Place(s, i) # Place(t, i)}
<1>1. K # {}
  <2>1. SUFFICES ASSUME \A i \in Nat \ {0} : Place(s, i) = Place(t, i) PROVE FALSE OBVIOUS
  <2>2. \A i \in Nat \ {0} : (i <= Len(s) <=> i <= Len(t)) /\ (i <= Len(s) => s[i] = t[i])
    BY <2>1, SamePlaces
  <2>3. Len(s) = Len(t)
    <3>1. Len(s) \in Nat /\ Len(t) \in Nat OBVIOUS
    <3>2. Len(s) + 1 \in Nat \ {0} /\ Len(t) + 1 \in Nat \ {0} BY <3>1
    <3>3. ~(Len(s) + 1 <= Len(t)) /\ ~(Len(t) + 1 <= Len(s)) BY <2>2, <3>1, <3>2
    <3> QED BY <3>1, <3>3
  <2>4. \A i \in 1 .. Len(s) : s[i] = t[i] BY <2>2
  <2> QED BY <2>3, <2>4
<1>2. PICK i \in K : \A k \in K : i <= k
  <2> K \subseteq Nat OBVIOUS
  <2> HIDE DEF K
  <2> QED BY <1>1, LeastNatural
<1>3. i \in Nat \ {0} /\ Place(s, i) # Place(t, i) OBVIOUS
<1>4. ASSUME NEW j \in 1 .. i - 1 PROVE Place(s, j) = Place(t, j)
  <2>1. j \in Nat \ {0} /\ ~(i <= j) BY <1>3
  <2>2. j \notin K
    <3> HIDE DEF K
    <3> QED BY <1>2, <2>1
  <2> QED BY <2>1, <2>2
<1>5. Place(s, i) \in Nat /\ Place(t, i) \in Nat BY <1>3, PlaceType
<1>6. Place(s, i) < Place(t, i) \/ Place(t, i) < Place(s, i) BY <1>3, <1>5
<1> QED BY <1>3, <1>4, <1>6, LessPlaces

LEMMA LessTransitive ==
  ASSUME NEW s \in Seq(Chars), NEW t \in Seq(Chars), NEW u \in Seq(Chars), Less(s, t), Less(t, u)
  PROVE  Less(s, u)
<1>1. PICK i \in Nat \ {0} : /\ Place(s, i) < Place(t, i)
                             /\ \A j \in 1 .. i - 1 : Place(s, j) = Place(t, j)
  BY LessPlaces
<1>2. PICK k \in Nat \ {0} : /\ Place(t, k) < Place(u, k)
                             /\ \A j \in 1 .. k - 1 : Place(t, j) = Place(u, j)
  BY LessPlaces
<1> DEFINE m == IF i <= k THEN i ELSE k
<1>3. m \in Nat \ {0} OBVIOUS
<1>4. Place(s, m) \in Nat /\ Place(t, m) \in Nat /\ Place(u, m) \in Nat BY <1>3, PlaceType
<1>5. \A j \in 1 .. m - 1 : Place(s, j) = Place(u, j)
  <2>1. \A j \in 1 .. m - 1 : j \in 1 .. i - 1 /\ j \in 1 .. k - 1 OBVIOUS
  <2> QED BY <1>1, <1>2, <2>1
<1>6. Place(s, m) < Place(u, m)
  <2>1. CASE i < k
    <3>1. m = i /\ i \in 1 .. k - 1 BY <2>1
    <3> QED BY <1>1, <1>2, <1>4, <3>1
  <2>2. CASE i = k BY <1>1, <1>2, <1>4, <2>2
  <2>3. CASE k < i
    <3>1. m = k /\ k \in 1 .. i - 1 BY <2>3
    <3> QED BY <1>1, <1>2, <1>4, <3>1
  <2> QED BY <2>1, <2>2, <2>3
<1> HIDE DEF m
<1> QED BY <1>3, <1>5, <1>6, LessPlaces

LEMMA LessAsymmetric ==
  ASSUME NEW s \in Seq(Chars), NEW t \in Seq(Chars), Less(s, t)
  PROVE  ~Less(t, s) /\ s # t
<1>1. ASSUME NEW u \in Seq(Chars), Less(u, u) PROVE FALSE
  <2>1. PICK i \in Nat \ {0} : Place(u, i) < Place(u, i) BY <1>1, LessPlaces
  <2>2. Place(u, i) \in Nat BY PlaceType
  <2> QED BY <2>1, <2>2
<1> QED BY <1>1, LessTransitive

\* A text with a prefix is not before the prefix.
LEMMA NotBeforePrefix ==
  ASSUME NEW p \in Seq(Chars), NEW s \in Seq(Chars), IsPrefix(p, s)
  PROVE  ~Less(s, p)
<1>1. SUFFICES ASSUME NEW i \in Nat \ {0}, Place(s, i) < Place(p, i) PROVE FALSE
  BY LessPlaces
<1>2. Place(s, i) \in Nat /\ Place(p, i) \in Nat BY PlaceType
<1>3. i \in 1 .. Len(p) BY <1>1, <1>2, PlaceType
<1>4. Place(p, i) = Place(s, i) BY <1>3, PrefixPlaces
<1> QED BY <1>1, <1>2, <1>4

\* A text that is not before the prefix and does not have it is after all that have it.
LEMMA AfterPrefix ==
  ASSUME NEW p \in Seq(Chars), NEW s \in Seq(Chars), NEW t \in Seq(Chars),
         IsPrefix(p, s), ~IsPrefix(p, t), ~Less(t, p)
  PROVE  Less(s, t)
<1>1. IsPrefix(p, p) BY PrefixPlaces
<1>2. Less(p, t) BY <1>1, LessTotal
<1>3. PICK i \in Nat \ {0} : /\ Place(p, i) < Place(t, i)
                             /\ \A j \in 1 .. i - 1 : Place(p, j) = Place(t, j)
  BY <1>2, LessPlaces
<1>4. i <= Len(p)
  <2>1. SUFFICES ASSUME ~(i <= Len(p)) PROVE FALSE OBVIOUS
  <2>2. \A j \in 1 .. Len(p) : j \in 1 .. i - 1 BY <2>1
  <2> QED BY <1>3, <2>2, PrefixPlaces
<1>5. \A j \in 1 .. i : Place(s, j) = Place(p, j)
  <2>1. \A j \in 1 .. i : j \in 1 .. Len(p) BY <1>4
  <2> QED BY <2>1, PrefixPlaces
<1>6. Place(s, i) < Place(t, i)
  <2>1. i \in 1 .. i OBVIOUS
  <2> QED BY <1>3, <1>5, <2>1
<1>7. \A j \in 1 .. i - 1 : Place(s, j) = Place(t, j)
  <2>1. \A j \in 1 .. i - 1 : j \in 1 .. i OBVIOUS
  <2> QED BY <1>3, <1>5, <2>1
<1> QED BY <1>6, <1>7, LessPlaces

-------------------------------------------------------------------------------
(* The sorted index.                                                           *)

Sorted(values) == \A i, j \in 1 .. Len(values) : i < j => Less(values[i], values[j])

\* partition_point divides a sorted index into what is below the value and the rest.
LEMMA BelowFirst ==
  ASSUME NEW values \in Seq(Seq(Chars)), Sorted(values), NEW value \in Seq(Chars)
  PROVE  \A i \in 1 .. Len(values) : Less(values[i], value) <=> i <= FirstNotBelow(values, value)
<1> DEFINE D == {i \in DOMAIN values : Less(values[i], value)}
<1>1. \A i, j \in 1 .. Len(values) : j \in D /\ i < j => i \in D
  <2>1. ASSUME NEW i \in 1 .. Len(values), NEW j \in D, i < j PROVE i \in D
    <3>1. j \in 1 .. Len(values) /\ Less(values[j], value) OBVIOUS
    <3>2. Less(values[i], values[j]) BY <2>1, <3>1 DEF Sorted
    <3>3. values[i] \in Seq(Chars) /\ values[j] \in Seq(Chars) BY <3>1
    <3>4. Less(values[i], value) BY <3>1, <3>2, <3>3, LessTransitive
    <3> QED BY <3>4
  <2> QED BY <2>1
<1>2. \A i \in 1 .. Len(values) : Less(values[i], value) <=> i \in D OBVIOUS
<1>3. D \subseteq 1 .. Len(values) OBVIOUS
<1>4. FirstNotBelow(values, value) = Cardinality(D) BY DEF FirstNotBelow
<1> HIDE DEF D
<1>5. PICK m \in 0 .. Len(values) : D = 1 .. m
  <2> DEFINE Outs == {n \in 0 .. Len(values) : \A i \in 1 .. Len(values) : i \in D => i <= n}
  <2>1. PICK m \in Outs : \A n \in Outs : m <= n
    <3>1. Len(values) \in Outs /\ Outs \subseteq Nat OBVIOUS
    <3> HIDE DEF Outs
    <3> QED BY <3>1, LeastNatural
  <2>2. m \in 0 .. Len(values) /\ \A i \in 1 .. Len(values) : i \in D => i <= m OBVIOUS
  <2>3. m # 0 => m \in D
    <3>1. SUFFICES ASSUME m # 0, m \notin D PROVE FALSE OBVIOUS
    <3>2. m - 1 \in 0 .. Len(values) /\ ~(m <= m - 1) BY <2>2, <3>1
    <3>3. m - 1 \in Outs BY <2>2, <3>1, <3>2
    <3> HIDE DEF Outs
    <3> QED BY <2>1, <3>2, <3>3
  <2> HIDE DEF Outs
  <2>4. ASSUME NEW i \in 1 .. m PROVE i \in D
    <3>1. m \in 1 .. Len(values) /\ i \in 1 .. Len(values) /\ m # 0 /\ (i = m \/ i < m) BY <2>2
    <3> QED BY <1>1, <2>3, <3>1
  <2>5. \A i \in D : i \in 1 .. m
    <3>1. ASSUME NEW i \in D PROVE i \in 1 .. m
      <4>1. i \in 1 .. Len(values) BY <1>3
      <4>2. i <= m /\ i \in Int /\ 1 <= i /\ m \in Int BY <2>2, <4>1
      <4> QED BY <4>2
    <3> QED BY <3>1
  <2>6. D = 1 .. m BY <2>4, <2>5
  <2> QED BY <2>2, <2>6
<1>6. Cardinality(D) = m
  <2>1. m \in Nat OBVIOUS
  <2> QED BY <1>5, <2>1, Interval
<1> QED BY <1>2, <1>4, <1>5, <1>6

\* A value comes to its place, and the index stays sorted.
LEMMA InsertSorts ==
  ASSUME NEW values \in Seq(Seq(Chars)), Sorted(values), NEW value \in Seq(Chars)
  PROVE  LET all == insert_sorted_unique(values, value)
         IN  Sorted(all) /\ ToSet(all) = ToSet(values) \cup {value}
<1> DEFINE k == FirstNotBelow(values, value)
           p == k + 1
           all == insert_sorted_unique(values, value)
<1>1. k \in 0 .. Len(values)
  <2>1. Len(values) \in Nat /\ DOMAIN values = 1 .. Len(values) OBVIOUS
  <2> QED BY <2>1, FirstNotBelowType
<1>2. all = IF value \in ToSet(values) THEN values ELSE InsertAt(values, p, value)
  BY DEF insert_sorted_unique
<1>3. \A i \in 1 .. Len(values) : Less(values[i], value) <=> i <= k BY BelowFirst
<1>4. CASE value \in ToSet(values) BY <1>2, <1>4
<1>5. CASE value \notin ToSet(values)
  <2> HIDE DEF k
  <2>1. p \in 1 .. Len(values) + 1 /\ p = k + 1 BY <1>1
  <2> HIDE DEF p
  <2> DEFINE low == SubSeq(values, 1, p - 1)
             high == SubSeq(values, p, Len(values))
  <2>2. all = (low \o <<value>>) \o high BY <1>2, <1>5 DEF InsertAt
  <2>3. low \in Seq(Seq(Chars)) /\ high \in Seq(Seq(Chars)) /\ <<value>> \in Seq(Seq(Chars))
        /\ Len(low) = p - 1 /\ Len(high) = Len(values) - (p - 1) /\ Len(<<value>>) = 1
        /\ (\A i \in 1 .. p - 1 : low[i] = values[i])
        /\ \A i \in 1 .. Len(values) - (p - 1) : high[i] = values[p - 1 + i]
    BY <2>1, SMTT(30)
  <2> HIDE DEF low, high
  <2> DEFINE mid == low \o <<value>>
  <2>4. /\ mid \in Seq(Seq(Chars)) /\ Len(mid) = p /\ mid[p] = value
        /\ \A i \in 1 .. p - 1 : mid[i] = values[i]
    BY <2>1, <2>3, SMTT(30)
  <2>5. all = mid \o high BY <2>2
  <2> HIDE DEF mid, all
  <2>6. all \in Seq(Seq(Chars)) /\ Len(all) = Len(values) + 1 BY <2>1, <2>3, <2>4, <2>5, SMTT(30)
  <2>7. all[p] = value BY <2>1, <2>3, <2>4, <2>5
  <2>8. ASSUME NEW i \in 1 .. p - 1 PROVE all[i] = values[i] /\ i \in 1 .. Len(values)
    <3>1. i \in 1 .. Len(mid) /\ i \in 1 .. Len(values) BY <2>1, <2>4
    <3>2. all[i] = mid[i] BY <2>3, <2>4, <2>5, <3>1
    <3> QED BY <2>4, <3>1, <3>2
  <2>9. ASSUME NEW i \in p + 1 .. Len(values) + 1
        PROVE  all[i] = values[i - 1] /\ i - 1 \in 1 .. Len(values)
    <3>0. Len(values) \in Nat /\ p \in Nat /\ i \in Nat /\ p < i /\ i <= Len(values) + 1 /\ 1 <= p
      BY <2>1
    <3> DEFINE n == i - p
    <3>1. n \in 1 .. Len(values) - (p - 1) /\ i - 1 \in 1 .. Len(values) /\ p - 1 + n = i - 1
          /\ i = p + n
      BY <3>0
    <3> HIDE DEF n
    <3>2. all[p + n] = high[n]
      <4>1. n \in 1 .. Len(high) BY <2>3, <3>1
      <4>2. \A m \in 1 .. Len(high) : (mid \o high)[Len(mid) + m] = high[m]
        <5>1. mid \in Seq(Seq(Chars)) /\ high \in Seq(Seq(Chars)) BY <2>3, <2>4
        <5> QED BY <5>1, InSecond
      <4> QED BY <2>4, <2>5, <4>1, <4>2
    <3> QED BY <2>3, <3>1, <3>2
  <2>10. \A i \in 1 .. Len(values) : i > k => Less(value, values[i])
    <3>1. ASSUME NEW i \in 1 .. Len(values), i > k PROVE Less(value, values[i])
      <4>1. ~Less(values[i], value) BY <1>1, <1>3, <3>1
      <4>2. values[i] \in ToSet(values) BY DEF ToSet
      <4>3. values[i] # value BY <1>5, <4>2
      <4>4. values[i] \in Seq(Chars) OBVIOUS
      <4> QED BY <4>1, <4>3, <4>4, LessTotal
    <3> QED BY <3>1
  <2>11. ASSUME NEW i \in 1 .. Len(all), NEW j \in 1 .. Len(all), i < j
         PROVE  Less(all[i], all[j])
    <3>1. CASE j < p
      <4>1. i \in 1 .. p - 1 /\ j \in 1 .. p - 1 BY <2>1, <2>6, <2>11, <3>1, SMTT(30)
      <4> QED BY <2>8, <2>11, <4>1 DEF Sorted
    <3>2. CASE j = p
      <4>1. i \in 1 .. p - 1 /\ i <= k BY <1>1, <2>1, <2>6, <2>11, <3>2
      <4> QED BY <1>3, <2>7, <2>8, <3>2, <4>1
    <3>3. CASE j > p /\ i < p
      <4>1. i \in 1 .. p - 1 /\ j \in p + 1 .. Len(values) + 1 /\ i < j - 1
        BY <2>1, <2>6, <3>3, SMTT(30)
      <4> QED BY <2>8, <2>9, <4>1 DEF Sorted
    <3>4. CASE j > p /\ i = p
      <4>1. j \in p + 1 .. Len(values) + 1 /\ j - 1 > k BY <1>1, <2>1, <2>6, <3>4
      <4> QED BY <2>7, <2>9, <2>10, <3>4, <4>1
    <3>5. CASE i > p
      <4>1. i \in p + 1 .. Len(values) + 1 /\ j \in p + 1 .. Len(values) + 1 /\ i - 1 < j - 1
        BY <2>1, <2>6, <2>11, <3>5, SMTT(30)
      <4> QED BY <2>9, <4>1 DEF Sorted
    <3> QED BY <2>1, <2>6, <3>1, <3>2, <3>3, <3>4, <3>5, SMTT(30)
  <2>12. ToSet(all) = ToSet(values) \cup {value}
    <3>1. ASSUME NEW i \in 1 .. Len(all) PROVE all[i] \in ToSet(values) \cup {value}
      <4>1. i \in 1 .. p - 1 \/ i = p \/ i \in p + 1 .. Len(values) + 1 BY <2>1, <2>6
      <4>2. \A n \in 1 .. Len(values) : values[n] \in ToSet(values) BY DEF ToSet
      <4> QED BY <2>7, <2>8, <2>9, <4>1, <4>2
    <3>2. ASSUME NEW i \in 1 .. Len(values) PROVE \E n \in 1 .. Len(all) : all[n] = values[i]
      <4>1. CASE i < p
        <5>1. i \in 1 .. p - 1 /\ i \in 1 .. Len(all) BY <2>1, <2>6, <4>1
        <5> QED BY <2>8, <5>1
      <4>2. CASE ~(i < p)
        <5>1. i + 1 \in p + 1 .. Len(values) + 1 /\ i + 1 \in 1 .. Len(all) /\ i + 1 - 1 = i
          BY <2>1, <2>6, <4>2
        <5>2. all[i + 1] = values[i + 1 - 1] BY <2>9, <5>1
        <5> QED BY <5>1, <5>2
      <4> QED BY <4>1, <4>2
    <3>3. p \in 1 .. Len(all) BY <2>1, <2>6
    <3>4. ToSet(all) = {all[i] : i \in 1 .. Len(all)} /\ ToSet(values) = {values[i] : i \in 1 .. Len(values)}
      BY <2>6, ToSetIs
    <3> QED BY <2>7, <3>1, <3>2, <3>3, <3>4
  <2>13. Sorted(all) BY <2>11 DEF Sorted
  <2> QED BY <2>12, <2>13 DEF all
<1> QED BY <1>4, <1>5

\* The first values of a sorted index are as many as their places.
LEMMA SortedCount ==
  ASSUME NEW values \in Seq(Seq(Chars)), Sorted(values), NEW n \in 0 .. Len(values)
  PROVE  Cardinality({values[i] : i \in 1 .. n}) = n
<1> DEFINE T == {values[i] : i \in 1 .. n}
           f == [i \in 1 .. n |-> values[i]]
<1>1. ASSUME NEW i \in 1 .. n, NEW j \in 1 .. n, i # j PROVE values[i] # values[j]
  <2>1. i \in 1 .. Len(values) /\ j \in 1 .. Len(values) /\ (i < j \/ j < i) BY <1>1
  <2>2. values[i] \in Seq(Chars) /\ values[j] \in Seq(Chars) BY <2>1
  <2>3. Less(values[i], values[j]) \/ Less(values[j], values[i]) BY <2>1 DEF Sorted
  <2> QED BY <2>2, <2>3, LessAsymmetric
<1>2. f \in Bijection(1 .. n, T)
  <2>1. f \in [1 .. n -> T] /\ \A i \in 1 .. n : f[i] = values[i] OBVIOUS
  <2>2. \A t \in T : \E i \in 1 .. n : f[i] = t BY <2>1
  <2> HIDE DEF f, T
  <2> QED BY <1>1, <2>1, <2>2 DEF Bijection, Injection, Surjection, IsInjective
<1> HIDE DEF f, T
<1>3. ExistsBijection(1 .. n, T) BY <1>2 DEF ExistsBijection
<1>4. n \in Nat OBVIOUS
<1>5. Cardinality(T) = n BY <1>3, <1>4, Interval, FS_Bijection
<1> QED BY <1>5 DEF T

\* Of a sorted index, prefix_suggestions gives the first of the values with the prefix.
LEMMA FirstWithPrefix ==
  ASSUME NEW values \in Seq(Seq(Chars)), Sorted(values), NEW prefix \in Seq(Chars)
  PROVE  LET found == {v \in ToSet(values) : IsPrefix(prefix, v)}
             given == prefix_suggestions(values, prefix)
         IN  /\ Len(given) = Min({Cardinality(found), MaxOffered})
             /\ \A i \in 1 .. Len(given) :
                  given[i] \in found /\ Cardinality({v \in found : Less(v, given[i])}) = i - 1
<1> DEFINE start == FirstNotBelow(values, prefix)
           from == SubSeq(values, start + 1, Len(values))
           size == Min({Matching(from, prefix), MaxOffered})
           given == prefix_suggestions(values, prefix)
           found == {v \in ToSet(values) : IsPrefix(prefix, v)}
           m == Matching(from, prefix)
<1>1. /\ from \in Seq(Seq(Chars)) /\ Len(from) = Len(values) - start
      /\ \A i \in 1 .. Len(from) : from[i] = values[start + i]
      /\ size \in 0 .. Len(from) /\ given = SubSeq(from, 1, size)
  BY PrefixSuggestions
<1>2. start \in 0 .. Len(values)
  <2>1. Len(values) \in Nat /\ DOMAIN values = 1 .. Len(values) OBVIOUS
  <2> QED BY <2>1, FirstNotBelowType
<1>3. \A i \in 1 .. Len(values) : Less(values[i], prefix) <=> i <= start BY BelowFirst
<1>4. size = Min({m, MaxOffered}) OBVIOUS
<1>5. /\ m \in 0 .. Len(from) /\ \A i \in 1 .. m : IsPrefix(prefix, from[i])
      /\ \A n \in 0 .. Len(from) : (\A i \in 1 .. n : IsPrefix(prefix, from[i])) => n <= m
  BY <1>1, MatchingFinds
<1> HIDE DEF start, from, given
<1> HIDE DEF m, size
<1>6. Sorted(from)
  <2>1. \A i \in 1 .. Len(from) : start + i \in 1 .. Len(values) BY <1>1, <1>2
  <2>2. ASSUME NEW i \in 1 .. Len(from), NEW j \in 1 .. Len(from), i < j
        PROVE  Less(from[i], from[j])
    <3>1. start + i < start + j /\ start + i \in 1 .. Len(values) /\ start + j \in 1 .. Len(values)
      BY <1>2, <2>1, <2>2
    <3> QED BY <1>1, <3>1 DEF Sorted
  <2> QED BY <2>2 DEF Sorted
<1>7. found = {from[i] : i \in 1 .. m}
  <2>1. ASSUME NEW i \in 1 .. m PROVE from[i] \in found
    <3>1. i \in 1 .. Len(from) /\ start + i \in 1 .. Len(values) BY <1>1, <1>2, <1>5
    <3>2. from[i] = values[start + i] /\ IsPrefix(prefix, from[i]) BY <1>1, <1>5, <3>1
    <3> QED BY <3>1, <3>2 DEF ToSet
  <2>2. ASSUME NEW v \in found PROVE \E i \in 1 .. m : from[i] = v
    <3>1. PICK k \in 1 .. Len(values) : v = values[k] BY DEF ToSet
    <3>2. IsPrefix(prefix, v) /\ v \in Seq(Chars) BY <3>1
    <3>3. ~(k <= start) BY <1>3, <3>1, <3>2, NotBeforePrefix
    <3> DEFINE i == k - start
    <3>4. i \in 1 .. Len(from) /\ start + i = k BY <1>1, <1>2, <3>3
    <3>5. from[i] = v BY <1>1, <3>1, <3>4
    <3> HIDE DEF i
    <3>6. i <= m
      <4>1. SUFFICES ASSUME ~(i <= m) PROVE FALSE OBVIOUS
      <4> DEFINE n == m + 1
      <4>2. n \in 0 .. Len(from) /\ n \in 1 .. Len(from) /\ n <= i /\ ~(n <= m) /\ m \in Int
        BY <1>1, <1>5, <3>4, <4>1
      <4>3. \A j \in 1 .. n : j \in 1 .. m \/ j = n BY <4>2
      <4>4. start + n \in 1 .. Len(values) /\ ~(start + n <= start) BY <1>1, <1>2, <4>2
      <4> HIDE DEF n
      <4>5. ~IsPrefix(prefix, from[n]) BY <1>5, <4>2, <4>3
      <4>6. ~Less(from[n], prefix) BY <1>1, <1>3, <4>2, <4>4
      <4>7. from[n] \in Seq(Chars) BY <1>1, <4>2
      <4>8. Less(v, from[n]) BY <3>2, <4>5, <4>6, <4>7, AfterPrefix
      <4>9. n < i BY <3>2, <3>4, <3>5, <4>2, <4>5
      <4>10. Less(from[n], v) BY <1>6, <3>4, <3>5, <4>2, <4>9 DEF Sorted
      <4> QED BY <3>2, <4>7, <4>8, <4>10, LessAsymmetric
    <3>7. i \in 1 .. m BY <1>5, <3>4, <3>6
    <3> QED BY <3>5, <3>7
  <2> QED BY <2>1, <2>2
<1> HIDE DEF found
<1>8. Cardinality(found) = m BY <1>1, <1>5, <1>6, <1>7, SortedCount
<1>9. Len(given) = size /\ \A i \in 1 .. size : given[i] = from[i] BY <1>1
<1>10. size <= m
  <2>1. MaxOffered \in Int /\ m \in Int BY <1>5, FilterEditorAssumption
  <2>2. size = IF m <= MaxOffered THEN m ELSE MaxOffered BY <1>4, <2>1, MinOfTwo
  <2> QED BY <2>1, <2>2
<1>11. ASSUME NEW i \in 1 .. size
       PROVE  given[i] \in found /\ Cardinality({v \in found : Less(v, given[i])}) = i - 1
  <2>1. i \in 1 .. m /\ i \in 1 .. Len(from) /\ given[i] = from[i] BY <1>1, <1>5, <1>9, <1>10
  <2>2. ASSUME NEW j \in 1 .. m PROVE Less(from[j], from[i]) <=> j < i
    <3>1. j \in 1 .. Len(from) BY <1>5
    <3>2. from[i] \in Seq(Chars) /\ from[j] \in Seq(Chars) BY <1>1, <2>1, <3>1
    <3>3. j < i => Less(from[j], from[i]) BY <1>6, <2>1, <3>1 DEF Sorted
    <3>4. i < j => Less(from[i], from[j]) BY <1>6, <2>1, <3>1 DEF Sorted
    <3>5. i < j => ~Less(from[j], from[i]) BY <3>2, <3>4, LessAsymmetric
    <3>6. i = j => ~Less(from[j], from[i]) BY <3>2, LessAsymmetric
    <3>7. i < j \/ i = j \/ j < i BY <2>1
    <3>8. (i < j \/ i = j) => ~(j < i) BY <2>1
    <3> QED BY <3>3, <3>5, <3>6, <3>7, <3>8
  <2>3. {v \in found : Less(v, from[i])} = {from[j] : j \in 1 .. i - 1}
    <3>1. ASSUME NEW j \in 1 .. i - 1 PROVE from[j] \in found /\ Less(from[j], from[i])
      <4>1. j \in 1 .. m /\ j < i BY <1>5, <2>1
      <4> QED BY <1>7, <2>2, <4>1
    <3>2. ASSUME NEW v \in found, Less(v, from[i]) PROVE \E j \in 1 .. i - 1 : v = from[j]
      <4>1. PICK j \in 1 .. m : v = from[j] BY <1>7
      <4>2. j < i BY <2>2, <3>2, <4>1
      <4>3. j \in 1 .. i - 1 BY <2>1, <4>2
      <4> QED BY <4>1, <4>3
    <3> QED BY <3>1, <3>2
  <2>4. i - 1 \in 0 .. Len(from) BY <1>1, <2>1
  <2>5. Cardinality({from[j] : j \in 1 .. i - 1}) = i - 1
    <3> DEFINE n == i - 1
    <3>1. n \in 0 .. Len(from) BY <2>4
    <3> HIDE DEF n
    <3>2. Cardinality({from[j] : j \in 1 .. n}) = n BY <1>1, <1>6, <3>1, SortedCount
    <3> QED BY <3>2 DEF n
  <2> QED BY <1>7, <2>1, <2>3, <2>5
<1>12. Len(given) = Min({Cardinality(found), MaxOffered}) BY <1>4, <1>8, <1>9
<1> QED BY <1>9, <1>11, <1>12 DEF given, found

-------------------------------------------------------------------------------
(* The offer behind the host key.                                              *)

\* From a place of the text, the host key and n characters more end at the cursor, and
\* all this is one token.
Behind(text, here, n) ==
  LET start == here - Len(HostKey) - n IN
  /\ start = 0 \/ text[start] \in Space
  /\ ToSet(SubSeq(text, here - n + 1, here)) \cap Space = {}
  /\ SubSeq(text, start + 1, here - n) = HostKey

\* Behind the host key the suggestions are the hosts with the prefix.
LEMMA BehindHostKey ==
  ASSUME NEW text \in Seq(Chars), NEW cursor \in Nat, NEW known,
         NEW n \in 0 .. Count(text, cursor) - Len(HostKey), Behind(text, Count(text, cursor), n)
  PROVE  build_filter_suggestions(text, cursor, known)
           = value_suggestions(HostKey,
               prefix_suggestions(known.hosts,
                 Lowered(SubSeq(text, Count(text, cursor) - n + 1, Count(text, cursor)))))
<1> DEFINE here == Count(text, cursor)
           size == Len(HostKey)
           start == here - size - n
           token == current_token(text, cursor)
           prefix == SubSeq(text, here - n + 1, here)
<1>1. here \in 0 .. Len(text) BY CountFinds
<1>2. HostKey \in Seq(Chars) /\ size \in Nat \ {0}
  BY KeysType, FilterEditorAssumption
<1>3. \A k \in 1 .. size : HostKey[k] \notin Space /\ (HostKey[k] = ":" <=> k = size)
  BY FilterEditorAssumption
<1>4. n \in 0 .. here - size /\ Behind(text, here, n) OBVIOUS
<1>5. token = current_token(text, cursor) /\ token.start \in Nat BY TokenType
<1>6. PICK i \in 0 .. here, j \in here .. Len(text) :
        /\ token = [start |-> Offset(text, i), end |-> Offset(text, j)]
        /\ i = 0 \/ text[i] \in Space
        /\ \A k \in i + 1 .. j : text[k] \notin Space
  BY TokenStands
<1>7. build_filter_suggestions(text, cursor, known)
        = Offered(SubSeq(text, Count(text, token.start) + 1, here), known)
  BY OfferedIs DEF Slice
<1> HIDE DEF here, size, token
<1>8. start \in 0 .. here /\ start + size + n = here /\ start \in 0 .. Len(text)
  BY <1>1, <1>2, <1>4
<1>9. /\ start = 0 \/ text[start] \in Space
      /\ ToSet(prefix) \cap Space = {}
      /\ SubSeq(text, start + 1, here - n) = HostKey
  BY <1>4 DEF Behind, size
<1>10. /\ prefix \in Seq(Chars) /\ Len(prefix) = n
       /\ \A k \in 1 .. n : prefix[k] = text[start + size + k]
  <2>1. here - n = start + size /\ here - n \in 0 .. Len(text) /\ here - n + n = here
        /\ here \in 0 .. Len(text) /\ n \in Nat
    BY <1>1, <1>2, <1>4, <1>8
  <2> HIDE DEF start
  <2> DEFINE from == here - n
  <2>2. from \in 0 .. Len(text) /\ from + n = here BY <2>1
  <2> HIDE DEF from
  <2>3. /\ SubSeq(text, from + 1, here) \in Seq(Chars) /\ Len(SubSeq(text, from + 1, here)) = n
        /\ \A k \in 1 .. n : SubSeq(text, from + 1, here)[k] = text[from + k]
    BY <2>1, <2>2
  <2>4. from = start + size BY <2>1 DEF from
  <2> QED BY <2>3, <2>4 DEF from
<1> HIDE DEF prefix
<1>11. ASSUME NEW k \in 1 .. size PROVE HostKey[k] = text[start + k]
  <2> DEFINE to == here - n
  <2>1. to = start + size /\ to \in 0 .. Len(text) /\ start + k \in 1 .. Len(text)
    BY <1>1, <1>2, <1>4, <1>8
  <2> HIDE DEF to, start
  <2>2. SubSeq(text, start + 1, to)[k] = text[start + k]
    <3>1. start \in 0 .. Len(text) /\ to \in start .. Len(text) /\ to - start = size
      BY <1>2, <1>8, <2>1
    <3>2. k \in 1 .. to - start BY <3>1
    <3> QED BY <3>1, <3>2, Piece
  <2> QED BY <1>9, <2>2 DEF to
<1> HIDE DEF start
<1>12. ASSUME NEW k \in start + 1 .. here PROVE text[k] \notin Space
  <2>1. start \in Nat /\ size \in Nat /\ n \in Nat /\ here \in Nat /\ k \in Nat /\ start < k
        /\ k <= here
    BY <1>1, <1>2, <1>4, <1>8
  <2>2. CASE k <= start + size
    <3>1. k - start \in 1 .. size /\ start + (k - start) = k BY <2>1, <2>2
    <3> QED BY <1>3, <1>11, <3>1
  <2>3. CASE ~(k <= start + size)
    <3> DEFINE m == k - (start + size)
    <3>1. m \in 1 .. n /\ start + size + m = k BY <1>8, <2>1, <2>3
    <3> HIDE DEF m
    <3>2. prefix[m] \in ToSet(prefix) BY <1>10, <3>1 DEF ToSet
    <3> QED BY <1>9, <1>10, <3>1, <3>2
  <2> QED BY <2>2, <2>3
<1>13. i = start
  <2>0. i \in Nat /\ start \in Nat /\ here \in Nat /\ j \in Nat /\ i <= here /\ here <= j
        /\ start <= here
    BY <1>1, <1>8
  <2>1. ~(i > start)
    <3>1. SUFFICES ASSUME i > start PROVE FALSE OBVIOUS
    <3>2. i \in start + 1 .. here /\ i # 0 BY <2>0, <3>1
    <3> QED BY <1>6, <1>12, <3>2
  <2>2. ~(i < start)
    <3>1. SUFFICES ASSUME i < start PROVE FALSE OBVIOUS
    <3>2. start \in i + 1 .. j /\ start # 0 BY <2>0, <3>1
    <3> QED BY <1>6, <1>9, <3>2
  <2> QED BY <2>0, <2>1, <2>2
<1>14. Count(text, token.start) = start
  <2>1. token.start = Offset(text, start) BY <1>6, <1>13
  <2> QED BY <1>8, <2>1, CountOfOffset
<1> DEFINE before == SubSeq(text, start + 1, here)
<1>15. /\ before \in Seq(Chars) /\ Len(before) = size + n
       /\ \A k \in 1 .. size + n : before[k] = text[start + k]
  <2>1. start \in Nat /\ here \in 0 .. Len(text) /\ start <= here /\ here - start = size + n
    BY <1>1, <1>2, <1>4, <1>8
  <2> QED BY <2>1
<1> HIDE DEF before
<1>16. \A k \in 1 .. size : before[k] = HostKey[k] /\ k \in 1 .. Len(before)
  <2>1. \A k \in 1 .. size : k \in 1 .. size + n BY <1>2, <1>4
  <2> QED BY <1>11, <1>15, <2>1
<1>17. Colon(before) = size
  <2>0. Colon(before) \in 0 .. Len(before) /\ size \in 1 .. size /\ n \in Nat /\ size \in Nat
    BY <1>2, <1>4, <1>15, ColonFinds
  <2>1. before[size] = ":" /\ size \in 1 .. Len(before) BY <1>3, <1>16, <2>0
  <2>2. Colon(before) # 0 BY <1>15, <2>1, ColonFinds
  <2>3. before[Colon(before)] = ":" /\ \A k \in 1 .. Colon(before) - 1 : before[k] # ":"
    BY <1>15, <2>2, ColonFinds
  <2>4. ~(size < Colon(before))
    <3>1. size < Colon(before) => size \in 1 .. Colon(before) - 1 BY <2>0
    <3> QED BY <2>1, <2>3, <3>1
  <2>5. Colon(before) \in 1 .. size BY <2>0, <2>2, <2>4
  <2>6. HostKey[Colon(before)] = ":" BY <1>16, <2>3, <2>5
  <2> QED BY <1>3, <2>5, <2>6
<1>18. SubSeq(before, 1, size) = HostKey
  <2> DEFINE s == SubSeq(before, 1, size)
  <2>1. size \in 0 .. Len(before) BY <1>2, <1>4, <1>15
  <2>2. s \in Seq(Chars) /\ Len(s) = size /\ \A k \in 1 .. size : s[k] = before[k]
    BY <1>15, <2>1
  <2> HIDE DEF s
  <2>3. s = HostKey BY <1>2, <1>16, <2>2 DEF size
  <2> QED BY <2>3 DEF s
<1>19. SubSeq(before, size + 1, Len(before)) = prefix
  <2> DEFINE s == SubSeq(before, size + 1, Len(before))
  <2>1. size \in 0 .. Len(before) /\ Len(before) = size + n /\ size \in Nat /\ n \in Nat
    BY <1>2, <1>4, <1>15
  <2> DEFINE last == Len(before)
  <2>2. last \in size .. last /\ last - size = n BY <2>1
  <2>5. s \in Seq(Chars) /\ Len(s) = n /\ \A k \in 1 .. n : s[k] = before[size + k]
    BY <1>15, <2>1, <2>2, Piece
  <2> HIDE DEF s
  <2>3. ASSUME NEW k \in 1 .. n PROVE s[k] = prefix[k]
    <3>1. size + k \in 1 .. size + n /\ start + (size + k) = start + size + k
      BY <1>8, <2>1
    <3> QED BY <1>10, <1>15, <2>5, <3>1
  <2>4. s = prefix BY <1>10, <2>3, <2>5, SMTT(30)
  <2> QED BY <2>4 DEF s
<1>20. build_filter_suggestions(text, cursor, known)
         = value_suggestions(HostKey, prefix_suggestions(known.hosts, Lowered(prefix)))
  <2>1. build_filter_suggestions(text, cursor, known) = Offered(before, known)
    BY <1>7, <1>14 DEF before
  <2>2. size # 0 BY <1>2
  <2>3. HostKey \notin {StatusKey, TypeKey, DurationKey} /\ HostKey \notin DOMAIN Fixed
    BY FilterEditorAssumption
  <2>4. Offered(before, known)
          = value_suggestions(HostKey, prefix_suggestions(known.hosts, Lowered(prefix)))
    BY <1>17, <1>18, <1>19, <2>2, <2>3 DEF Offered
  <2> QED BY <2>1, <2>4
<1> QED BY <1>20 DEF prefix, here

\* What is offered for these hosts, of which found have the prefix.
Offers(offered, found) ==
  /\ Len(offered) = Min({Cardinality(found), MaxOffered})
  /\ \A i \in DOMAIN offered : \E h \in found :
       offered[i] = HostKey \o h /\ Cardinality({g \in found : Less(g, h)}) = i - 1

\* Of a sorted index the editor offers the hosts with the prefix.
LEMMA HostsOffered ==
  ASSUME NEW text \in Seq(Chars), NEW cursor \in Nat, NEW known \in Indexes,
         Sorted(known.hosts),
         NEW n \in 0 .. Count(text, cursor) - Len(HostKey), Behind(text, Count(text, cursor), n)
  PROVE  LET here == Count(text, cursor)
             prefix == SubSeq(text, here - n + 1, here)
         IN  Offers(build_filter_suggestions(text, cursor, known),
                    {h \in ToSet(known.hosts) : IsPrefix(Lowered(prefix), h)})
<1> DEFINE here == Count(text, cursor)
           prefix == SubSeq(text, here - n + 1, here)
           given == prefix_suggestions(known.hosts, Lowered(prefix))
           offered == build_filter_suggestions(text, cursor, known)
           found == {h \in ToSet(known.hosts) : IsPrefix(Lowered(prefix), h)}
<1>1. offered = value_suggestions(HostKey, given) BY BehindHostKey
<1>2. Lowered(prefix) \in Seq(Chars)
  <2>1. HostKey \in Seq(Chars) BY KeysType
  <2>2. here \in 0 .. Len(text) BY CountFinds
  <2>3. n \in 0 .. here /\ here - n \in 0 .. Len(text) /\ here \in here - n .. Len(text)
    BY <2>1, <2>2
  <2> HIDE DEF here
  <2> DEFINE from == here - n
  <2>4. from \in 0 .. Len(text) /\ here \in from .. Len(text) BY <2>3
  <2> HIDE DEF from
  <2>5. SubSeq(text, from + 1, here) \in Seq(Chars) BY <2>4, Piece
  <2> QED BY <2>5, LoweredType DEF from
<1>3. known.hosts \in Seq(Seq(Chars)) BY DEF Indexes
<1> HIDE DEF prefix, offered
<1>4. given \in Seq(Seq(Chars)) BY <1>3, PrefixSuggestions
<1>5. /\ Len(given) = Min({Cardinality(found), MaxOffered})
      /\ \A i \in 1 .. Len(given) :
           given[i] \in found /\ Cardinality({g \in found : Less(g, given[i])}) = i - 1
  BY <1>2, <1>3, FirstWithPrefix
<1> HIDE DEF found, given
<1>6. DOMAIN offered = 1 .. Len(given) /\ Len(offered) = Len(given)
      /\ \A i \in 1 .. Len(given) : offered[i] = HostKey \o given[i]
  <2>1. DOMAIN given = 1 .. Len(given) /\ Len(given) \in Nat BY <1>4
  <2>2. offered = [i \in 1 .. Len(given) |-> HostKey \o given[i]]
    BY <1>1, <2>1 DEF value_suggestions
  <2> QED BY <2>1, <2>2
<1>7. Offers(offered, found) BY <1>5, <1>6 DEF Offers
<1> QED BY <1>7 DEF offered, found, prefix, here

\* The index holds the captured hosts in small letters, in their order.
IndexInv == Sorted(index.hosts) /\ ToSet(index.hosts) = {Lowered(e.host) : e \in captured}

\* Every capture leaves the index sorted and complete.
LEMMA IndexKept ==
  ASSUME FilterEditorTypeOK, IndexInv, [FilterEditorNext]_editorVars
  PROVE  IndexInv'
<1>0. editor \in Editors /\ index \in Indexes BY FilterEditorTypes
<1>1. CASE Capture
  <2>1. PICK e \in Entries \ captured :
          captured' = captured \cup {e} /\ index' = insert_entry(index, e)
    BY <1>1 DEF Capture
  <2>2. index.hosts \in Seq(Seq(Chars)) /\ Lowered(e.host) \in Seq(Chars)
    <3>1. e.host \in Seq(Chars) BY FilterEditorAssumption
    <3> QED BY <1>0, <3>1, LoweredType DEF Indexes
  <2>3. index'.hosts = insert_sorted_unique(index.hosts, Lowered(e.host))
    BY <2>1 DEF insert_entry
  <2>4. Sorted(index'.hosts) /\ ToSet(index'.hosts) = ToSet(index.hosts) \cup {Lowered(e.host)}
    BY <2>2, <2>3, InsertSorts DEF IndexInv
  <2> QED BY <2>1, <2>4 DEF IndexInv
<1>2. CASE UNCHANGED <<captured, index>> BY <1>2 DEF IndexInv
<1>3. CASE Draw BY <1>2, <1>3 DEF Draw
<1>4. CASE NoKey BY <1>2, <1>4 DEF NoKey
<1>5. CASE Key BY <1>0, <1>2, <1>5, KeyStands
<1>6. CASE UNCHANGED editorVars BY <1>2, <1>6 DEF editorVars
<1> QED BY <1>1, <1>3, <1>4, <1>5, <1>6 DEF FilterEditorNext

\* The property of one frame.
FrameOffers(e, f) ==
  LET here == Count(e.text, e.cursor) IN
  \A n \in 0 .. here - Len(HostKey) :
    Behind(e.text, here, n) =>
      Offers(f.suggestions,
             {h \in {Lowered(x.host) : x \in f.captured} :
                IsPrefix(Lowered(SubSeq(e.text, here - n + 1, here)), h)})

\* OffersTheHosts is about the editor and its frame.
LEMMA OffersByFrame == OffersTheHosts <=> (pc = "key" => FrameOffers(editor, frame))
BY DEF OffersTheHosts, FrameOffers, Behind, Offers

\* Every frame offers the hosts captured before it.
LEMMA OffersKept ==
  ASSUME FilterEditorTypeOK, IndexInv, pc = "key" => FrameOffers(editor, frame),
         [FilterEditorNext]_editorVars
  PROVE  pc' = "key" => FrameOffers(editor', frame')
<1>0. editor \in Editors /\ index \in Indexes BY FilterEditorTypes
<1>1. CASE UNCHANGED <<editor, pc, frame>> BY <1>1
<1>2. CASE Capture BY <1>1, <1>2 DEF Capture
<1>3. CASE Draw
  <2>1. /\ editor' = refresh(editor) /\ editor' \in Editors
        /\ frame'.suggestions = editor'.suggestions /\ frame'.captured = captured
    BY <1>3, DrawShows
  <2> DEFINE text == editor'.text
             cursor == editor'.cursor
             here == Count(text, cursor)
  <2>2. text \in Seq(Chars) /\ cursor \in Nat BY <2>1 DEF Editors
  <2>3. editor'.suggestions = build_filter_suggestions(text, cursor, index)
    BY <1>0, <2>1, Refreshed
  <2>4. ASSUME NEW n \in 0 .. here - Len(HostKey), Behind(text, here, n)
        PROVE  Offers(frame'.suggestions,
                      {h \in {Lowered(x.host) : x \in frame'.captured} :
                         IsPrefix(Lowered(SubSeq(text, here - n + 1, here)), h)})
    <3>1. Sorted(index.hosts) /\ ToSet(index.hosts) = {Lowered(x.host) : x \in frame'.captured}
      BY <2>1 DEF IndexInv
    <3>2. frame'.suggestions = build_filter_suggestions(text, cursor, index) BY <2>1, <2>3
    <3> HIDE DEF text, cursor
    <3>3. Offers(build_filter_suggestions(text, cursor, index),
                 {h \in ToSet(index.hosts) :
                    IsPrefix(Lowered(SubSeq(text, here - n + 1, here)), h)})
      BY <1>0, <2>2, <2>4, <3>1, HostsOffered
    <3> QED BY <3>1, <3>2, <3>3
  <2> QED BY <2>4 DEF FrameOffers
<1>4. CASE NoKey BY <1>4 DEF NoKey
<1>5. CASE Key BY <1>0, <1>5, KeyStands
<1>6. CASE UNCHANGED editorVars BY <1>1, <1>6 DEF editorVars
<1> QED BY <1>2, <1>3, <1>4, <1>5, <1>6 DEF FilterEditorNext

\* In whatever order and case any hosts are captured, behind the host key the editor
\* offers in small letters those that begin with what is typed in either case, sorted, and
\* no others, up to the limit
\* (store.rs 65-66, 102-107, filter_suggestions.rs 56-104, 148-158, 246-254).
THEOREM FilterEditorOffers == FilterEditorSpec => []OffersTheHosts
<1> DEFINE Inv == IndexInv /\ (pc = "key" => FrameOffers(editor, frame))
<1>1. FilterEditorInit => Inv
  <2>1. Sorted(<<>>) /\ ToSet(<<>>) = {} BY DEF Sorted, ToSet
  <2> QED BY <2>1 DEF FilterEditorInit, IndexInv, NoIndex
<1>2. FilterEditorTypeOK /\ Inv /\ [FilterEditorNext]_editorVars => Inv'
  BY IndexKept, OffersKept
<1>3. Inv => OffersTheHosts BY OffersByFrame
<1> QED BY <1>1, <1>2, <1>3, FilterEditorTypeCorrect, PTL DEF FilterEditorSpec

-------------------------------------------------------------------------------
(* Accepting a suggestion.                                                     *)

\* A refresh with this index would change nothing.
Fresh(e, known) ==
  /\ e.suggestions = build_filter_suggestions(e.text, e.cursor, known)
  /\ e.suggestions = <<>> => e.selected_suggestion = 0

\* Until an exchange is recorded, the frame shows what the key will find.
ShownInv ==
  pc = "key" =>
    /\ frame.captured \subseteq captured
    /\ frame.captured = captured =>
         /\ Fresh(editor, index)
         /\ frame.suggestions = editor.suggestions
         /\ frame.selected = editor.selected_suggestion

\* Of an editor that is up to date a refresh makes the same.
LEMMA FreshStays ==
  ASSUME NEW e \in Editors, Standing(e), Fresh(e, index), index \in Indexes
  PROVE  refresh(e) = e
<1> DEFINE f == refresh(e)
<1>1. e.text \in Seq(Chars) /\ e.cursor \in Nat /\ e.suggestions \in Seq(Seq(Chars))
      /\ e.selected_suggestion \in Nat
  BY DEF Editors
<1>2. clamp_to_char_boundary(e.text, e.cursor) = e.cursor
  BY StandingCount DEF clamp_to_char_boundary
<1>3. /\ f.text = e.text /\ f.cursor = e.cursor /\ f.suggestions = e.suggestions
      /\ f.selected_suggestion
           = IF e.suggestions = <<>> THEN 0 ELSE Min({e.selected_suggestion, Len(e.suggestions) - 1})
      /\ f \in Editors
  BY <1>2, Refreshed DEF Fresh
<1> HIDE DEF f
<1>4. f.selected_suggestion = e.selected_suggestion
  <2>1. CASE e.suggestions = <<>> BY <1>3, <2>1 DEF Fresh
  <2>2. CASE e.suggestions # <<>>
    <3>1. Len(e.suggestions) \in Nat /\ Len(e.suggestions) # 0 BY <1>1, <2>2
    <3>2. e.selected_suggestion <= Len(e.suggestions) - 1 BY <1>1, <3>1 DEF Standing
    <3>3. e.selected_suggestion \in Int /\ Len(e.suggestions) - 1 \in Int BY <1>1, <3>1
    <3> QED BY <1>3, <2>2, <3>2, <3>3, MinOfTwo
  <2> QED BY <2>1, <2>2
<1>5. f = e BY <1>3, <1>4 DEF Editors
<1> QED BY <1>5 DEF f

\* A refresh leaves the editor up to date.
LEMMA RefreshedFresh ==
  ASSUME NEW e \in Editors, index \in Indexes
  PROVE  Fresh(refresh(e), index)
<1>1. /\ refresh(e).text = e.text /\ refresh(e).cursor = clamp_to_char_boundary(e.text, e.cursor)
      /\ refresh(e).suggestions = build_filter_suggestions(e.text, refresh(e).cursor, index)
      /\ refresh(e).suggestions = <<>> => refresh(e).selected_suggestion = 0
  BY Refreshed
<1> QED BY <1>1 DEF Fresh

\* Every step leaves what is shown up to date, or an exchange was recorded.
LEMMA ShownKept ==
  ASSUME FilterEditorTypeOK, ShownInv, [FilterEditorNext]_editorVars
  PROVE  ShownInv'
<1>0. editor \in Editors /\ index \in Indexes BY FilterEditorTypes
<1>1. CASE Capture
  <2>1. PICK e \in Entries \ captured : captured' = captured \cup {e} BY <1>1 DEF Capture
  <2>2. UNCHANGED <<editor, pc, frame>> BY <1>1 DEF Capture
  <2>3. pc = "key" => frame.captured \subseteq captured' /\ frame.captured # captured'
    BY <2>1 DEF ShownInv
  <2> QED BY <2>2, <2>3 DEF ShownInv
<1>2. CASE Draw
  <2>1. /\ editor' = refresh(editor) /\ frame'.suggestions = editor'.suggestions
        /\ frame'.captured = captured /\ frame'.selected = editor'.selected_suggestion
        /\ captured' = captured /\ index' = index
    BY <1>2, DrawShows
  <2>2. Fresh(editor', index') BY <1>0, <2>1, RefreshedFresh
  <2> QED BY <2>1, <2>2 DEF ShownInv
<1>3. CASE NoKey BY <1>3 DEF NoKey, ShownInv
<1>4. CASE Key
  <2>1. pc' = "draw" BY <1>0, <1>4, KeyStands
  <2> QED BY <2>1 DEF ShownInv
<1>5. CASE UNCHANGED editorVars BY <1>5 DEF editorVars, ShownInv
<1> QED BY <1>1, <1>2, <1>3, <1>4, <1>5 DEF FilterEditorNext

\* Two texts have the bytes of both.
LEMMA SizeOfTwo ==
  ASSUME NEW s \in Seq(Chars), NEW t \in Seq(Chars)
  PROVE  Size(s \o t) = Size(s) + Size(t)
<1>1. Len(t) \in 0 .. Len(t) /\ Len(s \o t) = Len(s) + Len(t) OBVIOUS
<1> QED BY <1>1, OffsetsInSecond DEF Size

\* An offset is the size of what is before it.
LEMMA OffsetOfHead ==
  ASSUME NEW text \in Seq(Chars), NEW i \in 0 .. Len(text)
  PROVE  SubSeq(text, 1, i) \in Seq(Chars) /\ Size(SubSeq(text, 1, i)) = Offset(text, i)
<1> DEFINE s == SubSeq(text, 1, i)
           t == SubSeq(text, i + 1, Len(text))
<1>1. s \in Seq(Chars) /\ t \in Seq(Chars) /\ Len(s) = i /\ i \in 0 .. Len(s) OBVIOUS
<1>2. text = s \o t
  <2>1. Len(t) = Len(text) - i /\ \A k \in 1 .. Len(t) : t[k] = text[i + k] OBVIOUS
  <2>2. \A k \in 1 .. i : s[k] = text[k] OBVIOUS
  <2> HIDE DEF s, t
  <2>3. Len(s \o t) = Len(text) /\ s \o t \in Seq(Chars) BY <1>1, <2>1
  <2>4. ASSUME NEW k \in 1 .. Len(text) PROVE (s \o t)[k] = text[k]
    <3>1. CASE k <= i BY <1>1, <2>1, <2>2, <3>1
    <3>2. CASE k > i
      <4>1. k - i \in 1 .. Len(t) /\ i + (k - i) = k BY <2>1, <3>2
      <4>2. (s \o t)[k] = t[k - i] BY <1>1, <2>1, <3>2
      <4> QED BY <2>1, <4>1, <4>2
    <3>3. k \in Int /\ i \in Int OBVIOUS
    <3>4. k <= i \/ k > i BY <3>3
    <3> QED BY <3>1, <3>2, <3>4, Zenon
  <2> DEFINE u == s \o t
  <2>5. u \in Seq(Chars) /\ Len(u) = Len(text) /\ \A k \in 1 .. Len(text) : u[k] = text[k]
    BY <2>3, <2>4
  <2> HIDE DEF u
  <2>6. u = text BY <2>5
  <2> QED BY <2>6 DEF u
<1> HIDE DEF s, t
<1>3. Offset(text, i) = Offset(s, i) BY <1>1, <1>2, OffsetsInFirst
<1> QED BY <1>1, <1>3 DEF Size, s

\* What accepting the highlighted suggestion makes of the text and of the cursor.
LEMMA Accepted ==
  ASSUME NEW e \in Editors, Standing(e), e.suggestions # <<>>, index \in Indexes,
         ApplySelectedSuggestion(e)
  PROVE  LET text == e.text
             here == Count(text, e.cursor)
             offer == e.suggestions[e.selected_suggestion + 1]
         IN  \E i \in 0 .. here, j \in here .. Len(text) :
               /\ i = 0 \/ text[i] \in Space
               /\ j = Len(text) \/ text[j + 1] \in Space
               /\ ToSet(SubSeq(text, i + 1, j)) \cap Space = {}
               /\ editor'.text = SubSeq(text, 1, i) \o offer \o SubSeq(text, j + 1, Len(text))
               /\ editor'.cursor = Size(SubSeq(text, 1, i) \o offer)
<1> DEFINE text == e.text
           here == Count(text, e.cursor)
           token == current_token(text, e.cursor)
           offer == e.suggestions[e.selected_suggestion + 1]
           new == replace_range(text, token.start, token.end, offer)
<1>1. text \in Seq(Chars) /\ e.cursor \in Nat /\ e.suggestions \in Seq(Seq(Chars))
      /\ e.selected_suggestion \in Nat
  BY DEF Editors
<1>2. offer \in Seq(Chars)
  <2>1. e.selected_suggestion + 1 \in 1 .. Len(e.suggestions) BY <1>1 DEF Standing
  <2> QED BY <1>1, <2>1
<1>3. editor' = refresh([e EXCEPT !.text = new, !.cursor = token.start + Size(offer)])
  BY DEF ApplySelectedSuggestion, Becomes, Retyped
<1> HIDE DEF text, offer
<1>4. here \in 0 .. Len(text) BY <1>1, CountFinds
<1>5. PICK i \in 0 .. here, j \in here .. Len(text) :
        /\ token = [start |-> Offset(text, i), end |-> Offset(text, j)]
        /\ i = 0 \/ text[i] \in Space
        /\ j = Len(text) \/ text[j + 1] \in Space
        /\ \A k \in i + 1 .. j : text[k] \notin Space
  BY <1>1, TokenStands
<1>6. i \in 0 .. Len(text) /\ j \in 0 .. Len(text) BY <1>4
<1>7. token.start = Offset(text, i) /\ token.end = Offset(text, j) BY <1>5
<1> HIDE DEF token
<1> DEFINE head == SubSeq(text, 1, i)
           tail == SubSeq(text, j + 1, Len(text))
<1>8. Offset(text, i) \in Nat /\ Offset(text, j) \in Nat BY <1>1, <1>6, OffsetType
<1>9. new = head \o offer \o tail /\ new \in Seq(Chars)
  <2>1. Count(text, Offset(text, i)) = i /\ Count(text, Offset(text, j)) = j
    BY <1>1, <1>6, CountOfOffset
  <2>2. new = replace_range(text, Offset(text, i), Offset(text, j), offer) BY <1>7
  <2> HIDE DEF new
  <2>3. /\ new = SubSeq(text, 1, Count(text, Offset(text, i))) \o offer
                    \o SubSeq(text, Count(text, Offset(text, j)) + 1, Len(text))
        /\ new \in Seq(Chars)
    BY <1>1, <1>2, <1>8, <2>2, Replaced
  <2> QED BY <2>1, <2>3
<1>10. head \in Seq(Chars) /\ Size(head) = Offset(text, i) BY <1>1, <1>6, OffsetOfHead
<1>11. tail \in Seq(Chars) BY <1>1, <1>6
<1> HIDE DEF head, tail, new
<1> DEFINE s == head \o offer
<1>12. s \in Seq(Chars) /\ new = s \o tail BY <1>2, <1>9, <1>10
<1>13. token.start + Size(offer) = Size(s) BY <1>2, <1>7, <1>10, SizeOfTwo
<1> HIDE DEF s
<1>14. Size(s) = Offset(new, Len(s)) /\ Len(s) \in 0 .. Len(new)
  <2>1. Len(s) \in 0 .. Len(s) /\ Len(s) \in 0 .. Len(s \o tail) BY <1>11, <1>12
  <2> QED BY <1>11, <1>12, <2>1, OffsetsInFirst DEF Size
<1>15. clamp_to_char_boundary(new, Size(s)) = Size(s)
  BY <1>9, <1>14, CountOfOffset DEF clamp_to_char_boundary
<1> DEFINE f == [e EXCEPT !.text = new, !.cursor = Size(s)]
<1>16. f \in Editors /\ f.text = new /\ f.cursor = Size(s)
  BY <1>9, <1>12, SizeType DEF Editors
<1>17. editor' = refresh(f) BY <1>3, <1>13
<1> HIDE DEF f
<1>18. editor'.text = new /\ editor'.cursor = Size(s) BY <1>15, <1>16, <1>17, Refreshed
<1>19. ToSet(SubSeq(text, i + 1, j)) \cap Space = {}
  <2>1. Len(SubSeq(text, i + 1, j)) = j - i /\ DOMAIN SubSeq(text, i + 1, j) = 1 .. j - i
    BY <1>1, <1>4, <1>6, SMTT(30)
  <2>2. ASSUME NEW k \in 1 .. j - i PROVE SubSeq(text, i + 1, j)[k] \notin Space
    <3>1. SubSeq(text, i + 1, j)[k] = text[i + k] /\ i + k \in i + 1 .. j
      BY <1>1, <1>4, <1>6, SMTT(30)
    <3> QED BY <1>5, <3>1
  <2> QED BY <2>1, <2>2 DEF ToSet
<1>20. /\ editor'.text = SubSeq(text, 1, i) \o offer \o SubSeq(text, j + 1, Len(text))
       /\ editor'.cursor = Size(SubSeq(text, 1, i) \o offer)
  BY <1>9, <1>18 DEF s, head, tail
<1> HIDE DEF here
<1>21. \E i0 \in 0 .. here, j0 \in here .. Len(text) :
         /\ i0 = 0 \/ text[i0] \in Space
         /\ j0 = Len(text) \/ text[j0 + 1] \in Space
         /\ ToSet(SubSeq(text, i0 + 1, j0)) \cap Space = {}
         /\ editor'.text = SubSeq(text, 1, i0) \o offer \o SubSeq(text, j0 + 1, Len(text))
         /\ editor'.cursor = Size(SubSeq(text, 1, i0) \o offer)
  BY <1>5, <1>19, <1>20
<1> QED BY <1>21 DEF here, text, offer

\* For any text and any suggestions, Tab puts what the frame highlighted in the place of
\* the token under the cursor, unless an exchange was recorded after the frame
\* (filter.rs 136-148, events.rs 81-82, 103-105).
THEOREM FilterEditorTab == FilterEditorSpec => TabTakesTheShown
<1> DEFINE Takes ==
       pc = "key" /\ captured = frame.captured /\ ApplySelectedSuggestion(refresh(editor)) =>
       LET text == editor.text
           here == Count(text, editor.cursor)
           taken == frame.suggestions[frame.selected + 1]
       IN \E i \in 0 .. here, j \in here .. Len(text) :
            /\ i = 0 \/ text[i] \in Space
            /\ j = Len(text) \/ text[j + 1] \in Space
            /\ ToSet(SubSeq(text, i + 1, j)) \cap Space = {}
            /\ editor'.text = SubSeq(text, 1, i) \o taken \o SubSeq(text, j + 1, Len(text))
            /\ editor'.cursor = Size(SubSeq(text, 1, i) \o taken)
<1>1. FilterEditorInit => ShownInv BY DEF FilterEditorInit, ShownInv
<1>2. FilterEditorTypeOK /\ ShownInv => Takes
  <2>1. SUFFICES ASSUME FilterEditorTypeOK, ShownInv, pc = "key", captured = frame.captured,
                        ApplySelectedSuggestion(refresh(editor))
                 PROVE  Takes
    OBVIOUS
  <2>2. editor \in Editors /\ Standing(editor) /\ index \in Indexes BY <2>1, FilterEditorTypes
  <2>3. /\ Fresh(editor, index) /\ frame.suggestions = editor.suggestions
        /\ frame.selected = editor.selected_suggestion
    BY <2>1 DEF ShownInv
  <2>4. refresh(editor) = editor BY <2>2, <2>3, FreshStays
  <2>5. ApplySelectedSuggestion(editor) BY <2>1, <2>4
  <2>6. editor.suggestions # <<>> BY <2>5 DEF ApplySelectedSuggestion
  <2> QED BY <2>2, <2>3, <2>5, <2>6, Accepted
<1>3. [FilterEditorNext]_editorVars /\ FilterEditorTypeOK /\ ShownInv => [Takes]_editorVars
  BY <1>2
<1> QED BY <1>1, <1>3, ShownKept, FilterEditorTypeCorrect, PTL DEF FilterEditorSpec, TabTakesTheShown
===============================================================================
