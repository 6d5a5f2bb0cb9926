--------------------------- MODULE ParameterStore --------------------------
(***************************************************************************)
(* The scoring parameters in memory and in PostgreSQL: the table           *)
(* scoring_parameters (internal/state/db.go), SaveScoringParameters and    *)
(* LoadActiveScoringParameters (internal/state/parameters_store.go), and   *)
(* the part of cmd/avm/main.go that calls them while the process starts.   *)
(*                                                                         *)
(* The parameters are two groups: those the table has a column for, and    *)
(* the two reduction factors it has none for, which are 0 once loaded.     *)
(* Only one configuration and one version of it is ever saved.             *)
(* Which statement fails, and when, is left to the module that uses this   *)
(* one.                                                                    *)
(***************************************************************************)
EXTENDS Naturals

VARIABLES
  rows,      \* the committed rows of scoring_parameters
  written,   \* the rows as the open transaction sees them
  saving,    \* the statement SaveScoringParameters is at, "none" outside of it
  params     \* the scoring parameters in memory

paramVars == <<rows, written, saving, params>>

Statements == {"none", "deactivate", "insert", "commit"}

Defaults == [columns |-> "default", factors |-> "default"]

\* Before the process has any.
NoParameters == [columns |-> "none", factors |-> "none"]

Parameters == {NoParameters} \union [columns : {"default"}, factors : {"default", "zero"}]

Row == [version : Nat, active : BOOLEAN, columns : {"default"}]

\* DEFAULT_SCORING_CONFIG_VERSION
DefaultVersion == 1

ParamTypeOK ==
  /\ rows \subseteq Row /\ written \subseteq Row
  /\ saving \in Statements
  /\ params \in Parameters

ParamInit ==
  /\ rows = {} /\ written = {}
  /\ saving = "none"
  /\ params = NoParameters

ActiveRows == {r \in rows : r.active}

\* The active row is found; what has no column keeps the zero value of Go.
LoadFound ==
  /\ saving = "none" /\ params = NoParameters
  /\ \E r \in ActiveRows : params' = [columns |-> r.columns, factors |-> "zero"]
  /\ UNCHANGED <<rows, written, saving>>

\* No row, or the query failed: main goes on with the defaults, to be saved.
SaveDefaults ==
  /\ saving = "none" /\ params = NoParameters
  /\ saving' = "deactivate"
  /\ written' = rows
  /\ UNCHANGED <<rows, params>>

LoadMissing == ActiveRows = {} /\ SaveDefaults

\* Mutant: the update is not part of the transaction.
Deactivate_AtOnce ==
  /\ saving = "deactivate"
  /\ saving' = "insert"
  /\ written' = {[r EXCEPT !.active = FALSE] : r \in written}
  /\ rows' = written'
  /\ UNCHANGED params

\* UPDATE ... SET is_active = FALSE WHERE ... is_active = TRUE
Deactivate ==
  /\ saving = "deactivate"
  /\ saving' = "insert"
  /\ written' = {[r EXCEPT !.active = FALSE] : r \in written}
  /\ UNCHANGED <<rows, params>>

\* The version of a configuration is unique.
VersionTaken == \E r \in written : r.version = DefaultVersion

Insert ==
  /\ saving = "insert"
  /\ ~VersionTaken
  /\ saving' = "commit"
  /\ written' = written \union
       {[version |-> DefaultVersion, active |-> TRUE, columns |-> Defaults.columns]}
  /\ UNCHANGED <<rows, params>>

Commit ==
  /\ saving = "commit"
  /\ saving' = "none"
  /\ rows' = written /\ written' = {}
  /\ params' = Defaults

\* The transaction is rolled back and main exits.
RollBack ==
  /\ saving' = "none"
  /\ written' = {}
  /\ UNCHANGED <<rows, params>>

InsertRefused == saving = "insert" /\ VersionTaken /\ RollBack

\* A statement or the commit fails, or the process is killed.
SaveFails == saving # "none" /\ RollBack

\* The commit takes effect although its answer is an error.
CommitUnanswered ==
  /\ saving = "commit"
  /\ saving' = "none"
  /\ rows' = written /\ written' = {}
  /\ UNCHANGED params

\* The process is gone, with what it had in memory and its transaction.
Forget ==
  /\ saving' = "none" /\ written' = {}
  /\ params' = NoParameters
  /\ UNCHANGED rows

\* Every table is dropped and created again.
DropRows ==
  /\ rows' = {}
  /\ UNCHANGED <<written, saving, params>>

\* A version that has been saved is the one the next start finds: no failed
\* start leaves a table from which main can neither load the parameters nor
\* save them again (parameters_store.go:24-37, 96-99, main.go:59-67).
Startable == rows # {} => \E r \in rows : r.active
=============================================================================
