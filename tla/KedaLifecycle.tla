--------------------------- MODULE KedaLifecycle ---------------------------
(***************************************************************************)
(* What keda-manager promises about the life of its CRs and of KEDA, with  *)
(* no passes, caches, conflicts or retries: one CR at a time owns KEDA,    *)
(* only an owner with the finalizer gets KEDA installed, and the finalizer *)
(* goes when nothing of KEDA is left.  KedaManager implements it.          *)
(***************************************************************************)
CONSTANT Kedas

VARIABLES
  phase,      \* how far each CR is in its life
  owners,     \* the CRs marked as served
  installed   \* something of KEDA is in the cluster

vars == <<phase, owners, installed>>

\* absent; new: without the finalizer; held: with it; going: deleted, and held by
\* it; released: deleted, and kept by somebody else's finalizer.
Phases == {"absent", "new", "held", "going", "released"}

Init ==
  /\ phase = [k \in Kedas |-> "absent"]
  /\ owners = {}
  /\ installed = FALSE

\* A CR that goes takes its ownership with it.
Move(k, to) ==
  /\ phase' = [phase EXCEPT ![k] = to]
  /\ owners' = IF to = "absent" THEN owners \ {k} ELSE owners
  /\ UNCHANGED installed

Create(k) == phase[k] = "absent" /\ Move(k, "new")

\* sFnServedFilter: nobody owns KEDA, this CR will.
Acquire(k) ==
  /\ phase[k] # "absent" /\ owners = {}
  /\ owners' = {k}
  /\ UNCHANGED <<phase, installed>>

\* sFnInitialize: the owner gets the finalizer.
Take(k) == phase[k] = "new" /\ k \in owners /\ Move(k, "held")

Delete(k) ==
  \/ phase[k] = "new" /\ \E to \in {"absent", "released"} : Move(k, to)
  \/ phase[k] = "held" /\ Move(k, "going")

\* sFnRemoveFinalizer: only the owner, and only when nothing is left.
Release(k) ==
  /\ phase[k] = "going" /\ k \in owners /\ ~installed
  /\ \E to \in {"absent", "released"} : Move(k, to)

Drop(k) == phase[k] = "released" /\ Move(k, "absent")

\* Workloads come only through an owner with the finalizer.
Install(k) ==
  /\ k \in owners /\ phase[k] \in {"held", "going"}
  /\ ~installed /\ installed' = TRUE
  /\ UNCHANGED <<phase, owners>>

\* They go by uninstallation or at somebody else's hands.
Vanish == installed /\ installed' = FALSE /\ UNCHANGED <<phase, owners>>

Next ==
  \/ \E k \in Kedas :
       Create(k) \/ Acquire(k) \/ Take(k) \/ Delete(k) \/ Release(k) \/ Drop(k) \/ Install(k)
  \/ Vanish

Spec == Init /\ [][Next]_vars

TypeOK == phase \in [Kedas -> Phases] /\ owners \subseteq Kedas /\ installed \in BOOLEAN

\* One owner at most, and whatever is installed is his, under the finalizer.
Promise ==
  /\ \A j, k \in owners : j = k
  /\ \A k \in Kedas : phase[k] \in {"held", "going"} => k \in owners
  /\ installed => \E k \in owners : phase[k] \in {"held", "going"}

=============================================================================
