------------------------------- MODULE Launcher -------------------------------
(***************************************************************************)
(* The launcher of src/interactive.rs: the form (launcher_loop), its        *)
(* actions on the local authority, and the list of the files of a folder    *)
(* (also choose_launch_target_loop, which is the list alone).               *)
(*                                                                         *)
(* A filter is the set of options whose names contain it: one more character *)
(* leaves some of them, one less brings some back. Left out are the values   *)
(* that no other part depends on (the toggles and most texts of the form)   *)
(* and the messages. Whether settings parse and paths exist is a choice.    *)
(***************************************************************************)
EXTENDS Integers, Sequences, FiniteSets

CONSTANTS
  Kinds,     \* the format of each launch option of the folder, sorted by format
  Dirs,      \* what the field `CA directory' may hold
  MaxMade,   \* bound on the authorities that are created
  None       \* no authority

ASSUME LauncherAssumption ==
  /\ Kinds \in Seq(Nat) /\ \A i, j \in DOMAIN Kinds : i < j => Kinds[i] <= Kinds[j]
  /\ MaxMade \in Nat \ {0} /\ None \notin 1 .. MaxMade

VARIABLES
  screen,    \* "form", "select", and how the launcher ends: "launched", "cancelled"
  field,     \* the selected field, which is also the one that is edited
  editing,   \* Some(field)
  target,    \* what the target names: "nothing", "folder", "file"
  confirm_remove_ca,
  ca_dir,
  ca_trust_status,
  shown,     \* the launch options that the filter leaves
  chosen,    \* launch_selected
  alone,     \* choose_launch_target_loop: the list without a form
  cert,      \* the authority in each directory
  keys,      \* the directories that have a private key
  ours,      \* the directories that have the marker
  windows,   \* the platform that the program was built for
  roots,     \* the authorities that the system trusts; nobody else changes them
  made       \* authorities created so far

formVars == <<screen, field, editing, target, confirm_remove_ca, alone>>
caVars == <<ca_dir, ca_trust_status>>
listVars == <<shown, chosen>>
fileVars == <<cert, keys, ours, made>>
systemVars == <<fileVars, windows, roots>>
launcherVars == <<formVars, caVars, listVars, systemVars>>

FIELD_ROWS ==
  << <<"Target">>, <<"Arguments">>, <<"Workdir">>, <<"Listen", "CaDir">>,
     <<"MaxBody", "CaStatus">>, <<"Env", "CreateCa">>, <<"SaveSession", "InstallCaTrust">>,
     <<"HttpsInspection", "CaPath">>, <<"OnlyHttp1", "CaFingerprint">>,
     <<"ExtraCaEnv", "RemoveCa">>, <<"Redact">>, <<"ShowSecrets">>, <<"Start">> >>

Texts == {"Target", "Arguments", "Workdir", "Listen", "MaxBody", "Env", "SaveSession", "CaDir"}

Least(a, b) == IF a < b THEN a ELSE b
Most(a, b) == IF a > b THEN a ELSE b
Minus(a, b) == IF a > b THEN a - b ELSE 0

LauncherInit ==
  /\ alone \in BOOLEAN /\ screen = IF alone THEN "select" ELSE "form"
  /\ field = "Target" /\ target = "nothing"
  /\ editing = FALSE /\ confirm_remove_ca = FALSE
  /\ ca_dir \in Dirs /\ ca_trust_status = "not checked"
  /\ shown = DOMAIN Kinds /\ chosen = 0
  /\ cert \in [Dirs -> {None, 1}] /\ keys = {d \in Dirs : cert[d] = 1}
  /\ ours \in SUBSET keys
  /\ \A d, e \in Dirs : d # e => cert[d] = None \/ cert[e] = None
  /\ made = IF keys = {} THEN 0 ELSE 1
  /\ windows \in BOOLEAN /\ roots \in SUBSET (1 .. made)

-----------------------------------------------------------------------------
(* The form.                                                                 *)

OnForm == screen = "form" /\ ~editing /\ ~confirm_remove_ca

Position(f) == CHOOSE p \in (DOMAIN FIELD_ROWS) \X {1, 2} :
                 p[2] \in DOMAIN FIELD_ROWS[p[1]] /\ FIELD_ROWS[p[1]][p[2]] = f

MoveSelectionVertical(direction) ==
  LET p == Position(field)
      next == Most(1, Least(p[1] + direction, Len(FIELD_ROWS)))
  IN /\ OnForm
     /\ field' = FIELD_ROWS[next][Least(p[2], Len(FIELD_ROWS[next]))]
     /\ UNCHANGED <<screen, editing, target, confirm_remove_ca, alone, caVars, listVars, systemVars>>

MoveSelectionHorizontal(direction) ==
  LET p == Position(field)
      fields == FIELD_ROWS[p[1]]
  IN /\ OnForm
     /\ field' = fields[Most(1, Least(p[2] + direction, Len(fields)))]
     /\ UNCHANGED <<screen, editing, target, confirm_remove_ca, alone, caVars, listVars, systemVars>>

BeginEdit ==
  /\ OnForm /\ field \in Texts
  /\ editing' = TRUE
  /\ UNCHANGED <<screen, field, target, confirm_remove_ca, alone, caVars, listVars, systemVars>>

CancelEdit ==
  /\ editing /\ editing' = FALSE
  /\ UNCHANGED <<screen, field, target, confirm_remove_ca, alone, caVars, listVars, systemVars>>

\* The status of the old directory stays.
ApplyEditMutantKeepsStatus ==
  /\ editing /\ editing' = FALSE
  /\ IF field = "Target" THEN target' \in {"nothing", "folder", "file"} ELSE UNCHANGED target
  /\ IF field = "CaDir" THEN ca_dir' \in Dirs ELSE UNCHANGED ca_dir
  /\ UNCHANGED <<screen, field, confirm_remove_ca, alone, ca_trust_status, listVars, systemVars>>

\* apply_edit with whatever was typed.
ApplyEdit ==
  /\ editing /\ editing' = FALSE
  /\ IF field = "Target" THEN target' \in {"nothing", "folder", "file"} ELSE UNCHANGED target
  /\ IF field = "CaDir"
       THEN ca_dir' \in Dirs /\ ca_trust_status' = "not checked"
       ELSE UNCHANGED caVars
  /\ UNCHANGED <<screen, field, confirm_remove_ca, alone, listVars, systemVars>>

\* start_from_form, if something comes of it: a folder with launch options is
\* listed, a file is launched if all settings are good.
Start ==
  /\ OnForm /\ field = "Start"
  /\ \/ /\ target = "folder" /\ Len(Kinds) > 0
        /\ screen' = "select" /\ shown' = DOMAIN Kinds /\ chosen' = 0
     \/ /\ target = "file"
        /\ screen' = "launched" /\ UNCHANGED listVars
  /\ UNCHANGED <<field, editing, target, confirm_remove_ca, alone, caVars, systemVars>>

CancelLaunch ==
  /\ OnForm
  /\ screen' = "cancelled"
  /\ UNCHANGED <<field, editing, target, confirm_remove_ca, alone, caVars, listVars, systemVars>>

-----------------------------------------------------------------------------
(* The authority of the chosen directory.                                    *)

\* LocalAuthority::load_or_create: a pair that is there is loaded, unless it is
\* TLScope's own and outdated, or a new one takes its place; or an error, with
\* what was written until then.
Loads == cert[ca_dir] # None /\ ca_dir \in keys /\ UNCHANGED fileVars

NewCert ==
  /\ cert[ca_dir] = None \/ ca_dir \notin keys \/ ca_dir \in ours
  /\ made < MaxMade /\ made' = made + 1
  /\ cert' = [cert EXCEPT ![ca_dir] = made + 1]

Creates == NewCert /\ keys' = keys \cup {ca_dir} /\ ours' = ours \cup {ca_dir}

LoadFails ==
  \/ UNCHANGED fileVars
  \/ NewCert /\ keys' \in {keys, keys \cup {ca_dir}} /\ UNCHANGED ours
  \/ Creates

\* is_current_user_root_installed: certutil succeeds for a certificate in the store
\* only, its failure for any reason means that there is none, and it may not run at
\* all. Off Windows nothing is asked.
Installed(authority) ==
  {"not trusted"} \cup IF ~windows THEN {}
                      ELSE {"check failed"} \cup IF authority \in roots THEN {"trusted"} ELSE {}

CheckCaStatus ==
  /\ OnForm /\ field = "CaStatus"
  /\ \/ cert[ca_dir] = None /\ ca_trust_status' = "not created"
     \/ cert[ca_dir] # None /\ ca_trust_status' \in Installed(cert[ca_dir])
  /\ UNCHANGED <<formVars, ca_dir, listVars, systemVars>>

CreateCa ==
  /\ OnForm /\ field = "CreateCa"
  /\ \/ (Loads \/ Creates) /\ ca_trust_status' = "not checked"
     \/ LoadFails /\ ca_trust_status' = "CA error"
  /\ UNCHANGED <<formVars, ca_dir, listVars, windows, roots>>

\* install_current_user_root, unless it is installed already; it may fail, and does
\* off Windows.
InstallCaTrust ==
  /\ OnForm /\ field = "InstallCaTrust"
  /\ \/ /\ Loads \/ Creates
        /\ \/ /\ ca_trust_status' \in Installed(cert'[ca_dir]) \ {"not trusted"}
              /\ UNCHANGED roots
           \/ /\ windows
              /\ ca_trust_status' = "trusted" /\ roots' = roots \cup {cert'[ca_dir]}
           \/ ca_trust_status' = "install failed" /\ UNCHANGED roots
     \/ LoadFails /\ ca_trust_status' = "CA error" /\ UNCHANGED roots
  /\ UNCHANGED <<formVars, ca_dir, listVars, windows>>

BeginRemove ==
  /\ OnForm /\ field = "RemoveCa"
  /\ confirm_remove_ca' = TRUE
  /\ UNCHANGED <<screen, field, editing, target, alone, caVars, listVars, systemVars>>

RefuseRemove ==
  /\ confirm_remove_ca /\ confirm_remove_ca' = FALSE
  /\ UNCHANGED <<screen, field, editing, target, alone, caVars, listVars, systemVars>>

\* remove_created_files does nothing without the marker. It removes the
\* certificate, the key and the marker in this order, and may fail at any of them.
RemoveCaFiles ==
  /\ confirm_remove_ca /\ confirm_remove_ca' = FALSE
  /\ \/ /\ ca_dir \notin ours
        /\ ca_trust_status' = "not created" /\ UNCHANGED <<cert, keys, ours>>
     \/ /\ ca_dir \in ours /\ UNCHANGED <<cert, keys, ours>>
        /\ ca_trust_status' = "remove failed"
     \/ /\ ca_dir \in ours /\ cert' = [cert EXCEPT ![ca_dir] = None]
        /\ \/ /\ keys' = keys \ {ca_dir} /\ ours' = ours \ {ca_dir}
              /\ ca_trust_status' = "not created"
           \/ /\ keys' \in {keys, keys \ {ca_dir}} /\ UNCHANGED ours
              /\ ca_trust_status' = "remove failed"
  /\ UNCHANGED <<screen, field, editing, target, alone, ca_dir, listVars, windows, roots, made>>

-----------------------------------------------------------------------------
(* The list of launch options. Its entries are counted as launch_selected     *)
(* counts them, from 0, along the options that are shown.                    *)

Listed == 0 .. Cardinality(shown) - 1
OptionAt(i) == CHOOSE o \in shown : Cardinality({x \in shown : x < o}) = i
Column(i) == {j \in Listed : Kinds[OptionAt(j)] = Kinds[OptionAt(i)]}
Row(i) == Cardinality({j \in Column(i) : j < i})

\* The last entry of the column to the left, the first of the one to the right.
Beside(i) == Listed \cap {i - Row(i) - 1, i - Row(i) + Cardinality(Column(i))}

\* clamp_launch_selection, with what the new filter leaves.
ClampMutantOneMore(left) ==
  chosen' = IF chosen > Cardinality(left) THEN Minus(Cardinality(left), 1) ELSE chosen

Clamp(left) ==
  chosen' = IF chosen >= Cardinality(left) THEN Minus(Cardinality(left), 1) ELSE chosen

\* A character, Backspace and Delete.
FilterLaunch ==
  /\ screen = "select"
  /\ \/ shown' \in SUBSET shown
     \/ shown' \in SUBSET (DOMAIN Kinds) /\ shown \subseteq shown'
     \/ shown' = DOMAIN Kinds
  /\ Clamp(shown')
  /\ UNCHANGED <<formVars, caVars, systemVars>>

\* The neighbour above or below in the column of the file's format.
MoveLaunchVertical ==
  /\ screen = "select"
  /\ \/ chosen \notin Listed /\ chosen' = 0
     \/ /\ chosen \in Listed /\ chosen' \in Column(chosen)
        /\ Row(chosen') \in {Row(chosen) - 1, Row(chosen) + 1}
  /\ UNCHANGED <<formVars, caVars, shown, systemVars>>

\* The same row of the column to the left or right, or its last row.
MoveLaunchHorizontal ==
  /\ screen = "select"
  /\ \/ chosen \notin Listed /\ chosen' = 0
     \/ /\ chosen \in Listed
        /\ \E i \in Beside(chosen) :
             /\ chosen' \in Column(i)
             /\ Row(chosen') = Least(Row(chosen), Cardinality(Column(i)) - 1)
  /\ UNCHANGED <<formVars, caVars, shown, systemVars>>

\* Home and End.
JumpLaunch ==
  /\ screen = "select" /\ ~alone
  /\ chosen' \in {0, Minus(Cardinality(shown), 1)}
  /\ UNCHANGED <<formVars, caVars, shown, systemVars>>

\* Enter: the form's target becomes the file, whether or not it can be launched.
LaunchChosen ==
  /\ screen = "select" /\ chosen \in Listed
  /\ target' = IF alone THEN target ELSE "file"
  /\ screen' \in IF alone THEN {"launched"} ELSE {"launched", "select"}
  /\ UNCHANGED <<field, editing, confirm_remove_ca, alone, caVars, listVars, systemVars>>

CancelSelect ==
  /\ screen = "select"
  /\ screen' = IF alone THEN "cancelled" ELSE "form"
  /\ UNCHANGED <<field, editing, target, confirm_remove_ca, alone, caVars, listVars, systemVars>>

-----------------------------------------------------------------------------
LauncherNext ==
  \/ \E direction \in {-1, 1} :
       MoveSelectionVertical(direction) \/ MoveSelectionHorizontal(direction)
  \/ BeginEdit \/ CancelEdit \/ ApplyEdit \/ Start \/ CancelLaunch
  \/ CheckCaStatus \/ CreateCa \/ InstallCaTrust
  \/ BeginRemove \/ RefuseRemove \/ RemoveCaFiles
  \/ FilterLaunch \/ MoveLaunchVertical \/ MoveLaunchHorizontal
  \/ JumpLaunch \/ LaunchChosen \/ CancelSelect

LauncherSpec == LauncherInit /\ [][LauncherNext]_launcherVars

-----------------------------------------------------------------------------
\* As long as the filter leaves anything, Enter has a file to launch: the chosen
\* place is one that is drawn, however filters and columns change
\* (interactive.rs 1346-1425).
ChosenIsListed == screen = "select" /\ shown # {} => chosen \in Listed

\* What the remembered status claims is true of the directory that is drawn, through
\* edits of the directory, creation, replacement, installation and removal, also when
\* they fail half-way: an authority that is called trusted is the one in the directory
\* and in the store, and where none is said to be created TLScope has none of its own.
\* "Not trusted" only says that there is one: off Windows, and whenever certutil
\* fails, it is drawn for a trusted one too
\* (interactive.rs 711-793, 843-864, 1637-1640, trust_store.rs 4-17).
StatusIsOfThisAuthority ==
  /\ ca_trust_status = "trusted" => windows /\ cert[ca_dir] # None /\ cert[ca_dir] \in roots
  /\ ca_trust_status = "not trusted" => cert[ca_dir] # None
  /\ ca_trust_status = "not created" => cert[ca_dir] = None \/ ca_dir \notin ours
=============================================================================
