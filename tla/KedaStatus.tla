----------------------------- MODULE KedaStatus -----------------------------
(***************************************************************************)
(* The status subresource of a Keda CR (api/v1alpha1/keda_types.go): the   *)
(* state, the "served" mark, the version and one entry per condition type, *)
(* with the helpers the state functions write it through.  Messages and    *)
(* transition times are left out: meta.SetStatusCondition replaces the     *)
(* entry of the condition's type, which is all that is modelled here.      *)
(***************************************************************************)

States == {"", "Ready", "Error", "Warning", "Processing", "Deleting"}
ServedMarks == {"", "True", "False"}

CondTypes == {"Installed", "Deleted", "DeploymentFailure", "AddonInstalled"}

Reasons ==
  {"Initialized", "Verification", "Verified", "KedaDuplicated", "ValidationErr",
   "ApplyObjError", "DeploymentReplicaFailure", "Deletion", "Deleted",
   "DeletionErr", "HTTPAddonInstalled", "HTTPAddonDeleted",
   "HTTPAddonInstallErr", "HTTPAddonDisabled", "HTTPAddonInUse"}

\* An absent condition is the record with empty fields.
Conds == [status : {"", "True", "False", "Unknown"}, reason : Reasons \cup {""}]
NoCond == [status |-> "", reason |-> ""]

\* "installed": status.kedaVersion has been filled in from the label of the
\* keda-operator Deployment.
Statuses == [state : States, served : ServedMarks, kedaVersion : {"", "installed"},
             conditions : [CondTypes -> Conds]]

EmptyStatus == [state |-> "", served |-> "", kedaVersion |-> "",
                conditions |-> [t \in CondTypes |-> NoCond]]

-----------------------------------------------------------------------------
SetCondition(st, type, status, reason) ==
  [st EXCEPT !.conditions[type] = [status |-> status, reason |-> reason]]

RemoveCondition(st, type) == [st EXCEPT !.conditions[type] = NoCond]

WithState(st, state, type, status, reason) ==
  [SetCondition(st, type, status, reason) EXCEPT !.state = state]

UpdateStateReplicaFailure(st, type, reason) == WithState(st, "Error", type, "True", reason)
UpdateStateFromErr(st, type, reason)        == WithState(st, "Error", type, "False", reason)
UpdateStateFromWarning(st, type, reason)    == WithState(st, "Warning", type, "False", reason)
UpdateStateReady(st, type, reason)          == WithState(st, "Ready", type, "True", reason)
UpdateStateProcessing(st, type, reason)     == WithState(st, "Processing", type, "Unknown", reason)
UpdateStateDeletion(st, type, reason)       == WithState(st, "Deleting", type, "Unknown", reason)
UpdateStateDeletionTrue(st, type, reason)   == WithState(st, "Deleting", type, "True", reason)

UpdateServed(st, served) == [st EXCEPT !.served = served]

\* Mutants of IsNotServed: the filter passes over a CR it has not decided on, or
\* one it has turned away before.
IsNotServedIgnoresNew(st) == st.served = "False"
IsNotServedIgnoresDuplicate(st) == st.served = ""

\* A CR the filter has not decided on yet, or has turned away.
IsNotServed(st) == st.served \in {"", "False"}

SetAddonCondition(st, status, reason) == SetCondition(st, "AddonInstalled", status, reason)

=============================================================================
