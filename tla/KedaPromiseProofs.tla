------------------------- MODULE KedaPromiseProofs -------------------------
(***************************************************************************)
(* What the life cycle that keda-manager implements promises.              *)
(***************************************************************************)
EXTENDS KedaLifecycle, TLAPS

Inv == TypeOK /\ Promise

\* A CR may move on if it keeps the finalizer or if nothing is installed.
LEMMA MoveKeeps ==
  ASSUME Inv, NEW k \in Kedas, NEW to \in Phases, Move(k, to),
         to \in {"held", "going"} => k \in owners,
         installed => to \in {"held", "going"} \/ phase[k] \notin {"held", "going"}
  PROVE  Inv'
<1> USE DEF Inv, TypeOK, Promise, Move
<1>1. TypeOK'
  OBVIOUS
<1>2. \A j \in Kedas : phase'[j] = IF j = k THEN to ELSE phase[j]
  OBVIOUS
<1>3. owners' \subseteq owners /\ \A j \in owners : j # k \/ to # "absent" => j \in owners'
  OBVIOUS
<1>4. \A j \in Kedas : phase'[j] \in {"held", "going"} => j \in owners'
  BY <1>2, <1>3
<1>5. installed' => \E j \in owners' : phase'[j] \in {"held", "going"}
  BY <1>2, <1>3
<1> QED
  BY <1>1, <1>3, <1>4, <1>5

\* One CR at most owns KEDA, a CR with the finalizer is the owner, and whatever is
\* installed belongs to an owner that has the finalizer.  KedaManager implements
\* this life cycle, so the same is true of the manager.
THEOREM PromiseKept == Spec => []Promise
<1>1. Init => Inv
  BY DEF Init, Inv, TypeOK, Promise, Phases
<1>2. Inv /\ [Next]_vars => Inv'
  <2> SUFFICES ASSUME Inv, [Next]_vars PROVE Inv'
    OBVIOUS
  <2>1. CASE UNCHANGED vars
    BY <2>1 DEF Inv, TypeOK, Promise, vars
  <2>2. CASE Vanish
    BY <2>2 DEF Inv, TypeOK, Promise, Vanish
  <2>3. ASSUME NEW k \in Kedas, Create(k) \/ Take(k) \/ Delete(k) \/ Release(k) \/ Drop(k)
        PROVE  Inv'
    <3>1. CASE Create(k)
      BY <3>1, MoveKeeps DEF Create, Phases, Inv, Promise
    <3>2. CASE Take(k)
      BY <3>2, MoveKeeps DEF Take, Phases, Inv, Promise
    <3>3. CASE Delete(k)
      BY <3>3, MoveKeeps DEF Delete, Phases, Inv, Promise
    <3>4. CASE Release(k)
      BY <3>4, MoveKeeps DEF Release, Phases, Inv, Promise
    <3>5. CASE Drop(k)
      BY <3>5, MoveKeeps DEF Drop, Phases, Inv, Promise
    <3> QED
      BY <2>3, <3>1, <3>2, <3>3, <3>4, <3>5
  <2>4. ASSUME NEW k \in Kedas, Acquire(k) PROVE Inv'
    BY <2>4 DEF Acquire, Inv, TypeOK, Promise
  <2>5. ASSUME NEW k \in Kedas, Install(k) PROVE Inv'
    BY <2>5 DEF Install, Inv, TypeOK, Promise
  <2> QED
    BY <2>1, <2>2, <2>3, <2>4, <2>5 DEF Next
<1>3. Inv => Promise
  BY DEF Inv
<1> QED
  BY <1>1, <1>2, <1>3, PTL DEF Spec

=============================================================================
