------------------------ MODULE ManagerProcessProofs ------------------------
(***************************************************************************)
(* What holds of any number of processes, any durations of the lease, any  *)
(* manifest and any specs.  Two managers lead together only briefly, and   *)
(* only after uninstallation has deleted the lease.  Start loads and       *)
(* watches the whole manifest.  Passes keep the logging flags in memory    *)
(* consistent, and repeating one changes nothing.  A leader without work   *)
(* has the Deployments as the spec says.                                   *)
(***************************************************************************)
EXTENDS ManagerProcess, SequenceTheorems, WellFoundedInduction, TLAPS

LeaderInv == ProcessTypeOK /\ LeaseInv

USE TimesAssumption, HolderAssumption

\* A lease that has run out is nobody's who still leads.
LEMMA FreeForAll ==
  ASSUME LeaderInv, lease # NoHolder, Free
  PROVE  Leading = {}
  BY DEF LeaderInv, ProcessTypeOK, LeaseInv, Free, Leading

\* At first nobody leads.
LEMMA LeaderInit == Init => LeaderInv
  BY DEF Init, LeaderInv, ProcessTypeOK, LeaseInv, Leading, Phases

\* The process that obtains the lease has it at its newest.
LEMMA ObtainKeeps ==
  ASSUME LeaderInv, NEW m \in Managers, Obtain(m), lease = m \/ Free,
         \/ phase' = phase
         \/ phase' = [phase EXCEPT ![m] = "leading"]
  PROVE  LeaderInv'
<1>1. ProcessTypeOK'
  BY DEF LeaderInv, ProcessTypeOK, Obtain, Phases
<1>2. ASSUME NEW n \in Managers, phase'[n] = "leading", n # m
      PROVE  sinceDel' <= renewed'[n] /\ age' <= renewed'[n] /\ renewed'[n] <= RenewDeadline
  <2>1. n \in Leading /\ renewed'[n] = renewed[n] /\ age' = 0 /\ sinceDel' = sinceDel
    BY <1>2 DEF Obtain, Leading, LeaderInv, ProcessTypeOK
  <2>2. lease # n
    BY <2>1, <1>2, FreeForAll DEF Leading
  <2>3. QED
    BY <2>1, <2>2, <1>1 DEF LeaderInv, LeaseInv, ProcessTypeOK
<1>3. lease' = m /\ renewed'[m] = 0 /\ age' = 0
  BY DEF Obtain, LeaderInv, ProcessTypeOK
<1>4. LeaseInv'
  BY <1>2, <1>3 DEF LeaseInv, Leading
<1>5. QED
  BY <1>1, <1>4 DEF LeaderInv

\* A process that ends is no leader any more.
LEMMA ExitKeeps ==
  ASSUME LeaderInv, NEW m \in Managers, Exit(m)
  PROVE  LeaderInv'
<1>1. ProcessTypeOK'
  BY DEF LeaderInv, ProcessTypeOK, Exit, Phases
<1>2. \A n \in Leading' : n \in Leading /\ renewed'[n] = renewed[n]
  BY DEF Exit, Leading, LeaderInv, ProcessTypeOK
<1>3. LeaseInv'
  BY <1>2 DEF LeaseInv, Exit, LeaderInv
<1>4. QED
  BY <1>1, <1>3 DEF LeaderInv

\* A period ages the lease and the leaders alike.
LEMMA TickKeeps == LeaderInv /\ Tick => LeaderInv'
<1> SUFFICES ASSUME LeaderInv, Tick
             PROVE  LeaderInv'
  OBVIOUS
<1>1. ProcessTypeOK'
  BY DEF LeaderInv, ProcessTypeOK, Tick, Upto
<1>2. \A m \in Leading' : m \in Leading /\ renewed[m] < RenewDeadline /\ renewed'[m] = renewed[m] + 1
  BY DEF Tick, Leading
<1>3. LeaseInv'
  BY <1>2 DEF LeaseInv, LeaderInv, ProcessTypeOK, Tick, Upto, Leading
<1>4. QED
  BY <1>1, <1>3 DEF LeaderInv

\* Uninstallation starts the count.
LEMMA UninstallKeeps ==
  ASSUME LeaderInv, NEW m \in Managers, Uninstall(m)
  PROVE  LeaderInv'
<1>1. ProcessTypeOK'
  BY DEF LeaderInv, ProcessTypeOK, Uninstall
<1>2. Leading' = Leading /\ renewed' = renewed /\ lease' = NoHolder /\ sinceDel' = 0
  BY DEF Uninstall, Leading
<1>3. LeaseInv'
  BY <1>2 DEF LeaseInv, LeaderInv, ProcessTypeOK, Leading
<1>4. QED
  BY <1>1, <1>3 DEF LeaderInv

\* Steps that leave the lease and the set of leaders alone.
LEMMA Unconcerned ==
  ASSUME LeaderInv, Leading' = Leading, phase' \in [Managers -> Phases],
         tried' \in [Managers -> BOOLEAN],
         UNCHANGED <<lease, age, renewed, sinceDel>>
  PROVE  LeaderInv'
  BY DEF LeaderInv, ProcessTypeOK, LeaseInv

\* LeaderInv is inductive: what each action does to the lease and to the leaders.
LEMMA LeaderStep == LeaderInv /\ [Next]_vars => LeaderInv'
<1> SUFFICES ASSUME LeaderInv, [Next]_vars
             PROVE  LeaderInv'
  OBVIOUS
<1>t. phase \in [Managers -> Phases] /\ tried \in [Managers -> BOOLEAN]
  BY DEF LeaderInv, ProcessTypeOK
<1>1. ASSUME NEW m \in Managers, Load(m) \/ SetupWithManager(m)
      PROVE  LeaderInv'
  <2>1. Leading' = Leading /\ phase' \in [Managers -> Phases]
    BY <1>1, <1>t DEF Load, SetupWithManager, Leading, Phases
  <2>2. QED
    BY <1>1, <1>t, <2>1, Unconcerned DEF Load, SetupWithManager, leaseVars
<1>2. ASSUME NEW m \in Managers, Crash(m) \/ LoseLease(m)
      PROVE  LeaderInv'
  BY <1>2, ExitKeeps DEF Crash, LoseLease
<1>3. ASSUME NEW m \in Managers, Lead(m) \/ Renew(m)
      PROVE  LeaderInv'
  BY <1>3, ObtainKeeps DEF Lead, Renew
<1>4. ASSUME NEW m \in Managers, RenewFails(m)
      PROVE  LeaderInv'
  <2>1. Leading' = Leading /\ phase' = phase /\ tried' \in [Managers -> BOOLEAN]
    BY <1>4, <1>t DEF RenewFails, Leading
  <2>2. QED
    BY <1>4, <1>t, <2>1, Unconcerned DEF RenewFails
<1>5. ASSUME NEW m \in Managers, Pass(m)
      PROVE  LeaderInv'
  <2>1. CASE Uninstall(m)
    BY <2>1, UninstallKeeps
  <2>2. CASE UpdateObjects(m) \/ ApplyObject(m) \/ ApplyObjectFails(m)
    <3>1. phase' = phase /\ UNCHANGED leaseVars
      BY <2>2 DEF UpdateObjects, ApplyObject, ApplyObjectFails
    <3>2. QED
      BY <3>1, <1>t, Unconcerned DEF leaseVars, Leading
  <2>3. QED
    BY <1>5, <2>1, <2>2 DEF Pass
<1>6. CASE EditKeda \/ UNCHANGED vars
  <2>1. phase' = phase /\ UNCHANGED leaseVars
    BY <1>6 DEF EditKeda, vars
  <2>2. QED
    BY <2>1, <1>t, Unconcerned DEF leaseVars, Leading
<1>7. QED
  BY <1>1, <1>2, <1>3, <1>4, <1>5, <1>6, TickKeeps DEF Next

\* The lease as the code uses it (main.go, with client-go's election), kept by every
\* step of every process.
THEOREM LeaseInvariant == Spec => []LeaderInv
  BY LeaderInit, LeaderStep, PTL DEF Spec

\* LeadersOverlapBriefly for any number of processes and any durations with
\* RenewDeadline < LeaseDuration: without an uninstallation, which deletes the lease
\* of the manager that runs it, there are never two leaders.
THEOREM LeadersOverlap == Spec => []LeadersOverlapBriefly
<1>1. LeaderInv => LeadersOverlapBriefly
  BY DEF LeaderInv, ProcessTypeOK, LeaseInv, LeadersOverlapBriefly, Leading
<1>2. QED
  BY <1>1, LeaseInvariant, PTL

-----------------------------------------------------------------------------
(* Loops.                                                                  *)

\* What holds before the first of n turns, and after each turn if it did before it,
\* holds all along.
LEMMA CountUp ==
  ASSUME NEW n \in Nat, NEW T, 0 \in T, \A i \in 1 .. n : i - 1 \in T => i \in T
  PROVE  0 .. n \subseteq T
<1> SUFFICES ASSUME (0 .. n) \ T # {} PROVE FALSE
  OBVIOUS
<1> DEFINE R == OpToRel(<, Nat)
           U == (0 .. n) \ T
<1>1. IsWellFoundedOn(R, Nat)
  BY NatLessThanWellFounded
<1>2. \A i, j \in Nat : i < j => <<i, j>> \in R
  BY DEF OpToRel
<1>3. U \subseteq Nat /\ U # {}
  OBVIOUS
<1> HIDE DEF R, U
<1>4. PICK x \in U : \A y \in U : ~(<<y, x>> \in R)
  BY <1>1, <1>3, WFMin
<1>5. x \in Nat /\ x - 1 \in Nat /\ x - 1 \in U /\ x - 1 < x
  BY DEF U
<1>6. QED
  BY <1>2, <1>4, <1>5

\* Loops of n turns over a state in S: turn i takes state s to F[s][i].
Turns(S, n) == [S -> [1 .. n -> S]]
Runs(S, n, F, b) ==
  {g \in [0 .. n -> S] : g[0] = b /\ \A i \in 1 .. n : g[i] = F[g[i - 1]][i]}

\* Every loop has its run: the states it goes through from b on.
LEMMA LoopRuns ==
  ASSUME NEW S, NEW n \in Nat, NEW F \in Turns(S, n), NEW b \in S
  PROVE  Runs(S, n, F, b) # {}
<1> USE DEF Turns
<1> DEFINE Good(k) == \E g \in [0 .. k -> S] : g[0] = b /\ \A i \in 1 .. k : g[i] = F[g[i - 1]][i]
           T == {k \in 0 .. n : Good(k)}
<1>1. Good(0)
  <2> DEFINE g == [i \in 0 .. 0 |-> b]
  <2>1. g \in [0 .. 0 -> S]
    OBVIOUS
  <2>2. g[0] = b /\ \A i \in 1 .. 0 : g[i] = F[g[i - 1]][i]
    OBVIOUS
  <2> HIDE DEF g
  <2>3. QED
    BY <2>1, <2>2
<1>2. ASSUME NEW k \in 1 .. n, Good(k - 1)
      PROVE  Good(k)
  <2>1. PICK g \in [0 .. k - 1 -> S] : g[0] = b /\ \A i \in 1 .. k - 1 : g[i] = F[g[i - 1]][i]
    BY <1>2
  <2> DEFINE h == [i \in 0 .. k |-> IF i = k THEN F[g[k - 1]][k] ELSE g[i]]
  <2>2. k \in Nat /\ k - 1 \in 0 .. k - 1 /\ F[g[k - 1]][k] \in S
    OBVIOUS
  <2>3. h \in [0 .. k -> S] /\ h[0] = b
    <3>1. \A i \in 0 .. k : i = k \/ i \in 0 .. k - 1
      BY <2>2
    <3>2. \A i \in 0 .. k : (IF i = k THEN F[g[k - 1]][k] ELSE g[i]) \in S
      BY <2>2, <3>1
    <3>3. h \in [0 .. k -> S]
      BY <3>2
    <3>4. h[0] = b
      BY <2>1, <2>2
    <3>5. QED
      BY <3>3, <3>4
  <2>4. ASSUME NEW i \in 1 .. k
        PROVE  h[i] = F[h[i - 1]][i]
    <3>1. h[i - 1] = g[i - 1] /\ i - 1 \in 0 .. k - 1
      BY <2>4
    <3>2. CASE i = k
      BY <3>1, <3>2
    <3>3. CASE i # k
      <4>1. i \in 1 .. k - 1 /\ h[i] = g[i]
        BY <3>3
      <4>2. QED
        BY <3>1, <4>1, <2>1
    <3>4. QED
      BY <3>2, <3>3
  <2> HIDE DEF h
  <2>5. QED
    BY <2>3, <2>4
<1>3. 0 \in T
  BY <1>1
<1>4. ASSUME NEW k \in 1 .. n, k - 1 \in T
      PROVE  k \in T
  <2> HIDE DEF Good
  <2>1. Good(k - 1) /\ k \in 0 .. n
    BY <1>4
  <2>2. Good(k)
    BY <2>1, <1>2
  <2>3. QED
    BY <2>1, <2>2
<1> HIDE DEF T
<1>5. n \in T
  <2>1. 0 .. n \subseteq T
    BY <1>3, <1>4, CountUp
  <2>2. QED
    BY <2>1
<1> HIDE DEF Good
<1>6. Good(n)
  BY <1>5 DEF T
<1>7. QED
  BY <1>6 DEF Good, Runs

-----------------------------------------------------------------------------
(* Start.                                                                  *)

\* One turn of LoadData keeps a list of objects one.
LEMMA LoadDocumentType ==
  ASSUME NEW results \in Seq(DocType), NEW doc \in DocType \cup {Nil}
  PROVE  LoadDocument(results, doc) \in Seq(DocType)
<1>1. CASE doc = Nil
  BY <1>1 DEF LoadDocument
<1>2. CASE doc # Nil /\ doc.kind = "CustomResourceDefinition"
  <2>1. LoadDocument(results, doc) = <<doc>> \o results
    BY <1>2 DEF LoadDocument
  <2>2. <<doc>> \in Seq(DocType)
    BY <1>2
  <2>3. QED
    BY <2>1, <2>2
<1>3. CASE doc # Nil /\ doc.kind # "CustomResourceDefinition"
  <2>1. LoadDocument(results, doc) = Append(results, doc)
    BY <1>3 DEF LoadDocument
  <2>2. QED
    BY <1>3, <2>1
<1>4. QED
  BY <1>1, <1>2, <1>3

\* ResultsSoFar is the loop of LoadData.
LEMMA ResultsTurn ==
  ASSUME NEW docs \in Seq(DocType \cup {Nil})
  PROVE  /\ ResultsSoFar(docs)[0] = <<>>
         /\ \A i \in 1 .. Len(docs) :
              ResultsSoFar(docs)[i] = LoadDocument(ResultsSoFar(docs)[i - 1], docs[i])
<1> DEFINE S == Seq(DocType)
           n == Len(docs)
           F == [r \in S |-> [i \in 1 .. n |-> LoadDocument(r, docs[i])]]
           Is(g) == g = [i \in 0 .. n |-> IF i = 0 THEN <<>> ELSE LoadDocument(g[i - 1], docs[i])]
           f == ResultsSoFar(docs)
<1>1. n \in Nat /\ \A i \in 1 .. n : docs[i] \in DocType \cup {Nil}
  OBVIOUS
<1>2. \A r \in S : \A i \in 1 .. n : LoadDocument(r, docs[i]) \in S
  BY <1>1, LoadDocumentType
<1>3. <<>> \in S
  OBVIOUS
<1>4. f = CHOOSE h : Is(h)
  BY DEF ResultsSoFar
<1> HIDE DEF S, n, f
<1>5. F \in Turns(S, n)
  BY <1>2 DEF Turns
<1>6. \A r \in S : \A i \in 1 .. n : F[r][i] = LoadDocument(r, docs[i])
  OBVIOUS
<1> HIDE DEF F, Is
<1>7. PICK g \in [0 .. n -> S] : g[0] = <<>> /\ \A i \in 1 .. n : g[i] = F[g[i - 1]][i]
  <2>1. Runs(S, n, F, <<>>) # {}
    BY <1>1, <1>3, <1>5, LoopRuns
  <2>2. QED
    BY <2>1 DEF Runs
<1>8. Is(g)
  <2>1. \A i \in 1 .. n : g[i - 1] \in S
    BY <1>1
  <2>2. \A i \in 1 .. n : g[i] = LoadDocument(g[i - 1], docs[i])
    BY <1>6, <1>7, <2>1
  <2>3. \A i \in 0 .. n : g[i] = IF i = 0 THEN <<>> ELSE LoadDocument(g[i - 1], docs[i])
    BY <1>1, <1>7, <2>2
  <2>4. g = [i \in 0 .. n |-> g[i]]
    OBVIOUS
  <2>5. QED
    BY <2>3, <2>4 DEF Is
<1>9. Is(f)
  BY <1>4, <1>8
<1>10. \A i \in 0 .. n : f[i] = IF i = 0 THEN <<>> ELSE LoadDocument(f[i - 1], docs[i])
  BY <1>9 DEF Is
<1>11. f[0] = <<>> /\ \A i \in 1 .. n : f[i] = LoadDocument(f[i - 1], docs[i])
  BY <1>1, <1>10
<1>12. QED
  BY <1>11 DEF f, n

\* Precedes, within one file.
InFileOrder(docs, a, b) ==
  \A j, l \in DOMAIN docs :
    docs[j] = a /\ docs[l] = b =>
      \/ IsCrd(a) /\ (IsCrd(b) => j > l)
      \/ ~IsCrd(a) /\ ~IsCrd(b) /\ j < l

NoneTwice(docs) ==
  \A j, l \in DOMAIN docs : docs[j] = docs[l] /\ docs[j] # Nil => j = l

\* What LoadData has after i documents: all of them, in order.
LoadedSoFar(docs, i, results) ==
  /\ results \in Seq(DocType)
  /\ Range(results) = {docs[j] : j \in 1 .. i} \ {Nil}
  /\ \A p, q \in DOMAIN results : p < q => InFileOrder(docs, results[p], results[q])

\* What a list is with an element in front.
LEMMA Prepend ==
  ASSUME NEW S, NEW x \in S, NEW list \in Seq(S)
  PROVE  /\ DOMAIN (<<x>> \o list) = 1 .. Len(list) + 1
         /\ (<<x>> \o list)[1] = x
         /\ \A p \in 1 .. Len(list) : (<<x>> \o list)[p + 1] = list[p]
  OBVIOUS

\* One turn of LoadData, for each of the three kinds of document.
LEMMA LoadDocumentKeeps ==
  ASSUME NEW docs \in Seq(DocType \cup {Nil}), NoneTwice(docs), NEW i \in 1 .. Len(docs),
         NEW results, LoadedSoFar(docs, i - 1, results)
  PROVE  LoadedSoFar(docs, i, LoadDocument(results, docs[i]))
<1> DEFINE doc == docs[i]
           new == LoadDocument(results, doc)
<1>1. /\ results \in Seq(DocType) /\ Len(results) \in Nat /\ DOMAIN results = 1 .. Len(results)
      /\ Range(results) = {docs[j] : j \in 1 .. i - 1} \ {Nil}
      /\ \A p, q \in DOMAIN results : p < q => InFileOrder(docs, results[p], results[q])
  BY DEF LoadedSoFar
<1>2. Len(docs) \in Nat /\ DOMAIN docs = 1 .. Len(docs) /\ i \in DOMAIN docs
  OBVIOUS
<1>3. \A p \in DOMAIN results : \E j \in 1 .. i - 1 : docs[j] = results[p] /\ docs[j] # Nil
  BY <1>1 DEF Range
<1>4. {docs[j] : j \in 1 .. i} = {docs[j] : j \in 1 .. i - 1} \cup {doc}
  BY <1>2
<1>5. CASE doc = Nil
  <2>1. new = results
    BY <1>5 DEF LoadDocument
  <2>2. QED
    BY <1>1, <1>4, <1>5, <2>1 DEF LoadedSoFar
<1>6. CASE doc # Nil
  <2>1. doc \in DocType /\ new \in Seq(DocType)
    BY <1>1, <1>2, <1>6, LoadDocumentType
  <2>2. ASSUME NEW p \in DOMAIN results, NEW j \in DOMAIN docs, NEW l \in DOMAIN docs,
               docs[j] = results[p], docs[l] = doc
        PROVE  j < l
    BY <1>2, <1>3, <1>6, <2>2 DEF NoneTwice
  <2>3. CASE IsCrd(doc)
    <3>1. new = <<doc>> \o results
      BY <1>6, <2>3 DEF LoadDocument, IsCrd
    <3>2. /\ DOMAIN new = 1 .. Len(results) + 1 /\ new[1] = doc
          /\ \A p \in DOMAIN results : new[p + 1] = results[p]
          /\ \A q \in DOMAIN new : q = 1 \/ q - 1 \in DOMAIN results
      <4>1. /\ DOMAIN new = 1 .. Len(results) + 1 /\ new[1] = doc
            /\ \A p \in 1 .. Len(results) : new[p + 1] = results[p]
        BY <1>1, <2>1, <3>1, Prepend
      <4> HIDE DEF new, doc
      <4>2. QED
        BY <1>1, <4>1
    <3> HIDE DEF new, doc
    <3>3. Range(new) = Range(results) \cup {doc}
      <4>1. \A q \in DOMAIN new : q = 1 \/ (q - 1 \in DOMAIN results /\ new[q] = results[q - 1])
        BY <1>1, <3>2
      <4>2. \A p \in DOMAIN results : p + 1 \in DOMAIN new /\ new[p + 1] = results[p]
        BY <1>1, <3>2
      <4>3. 1 \in DOMAIN new
        BY <1>1, <3>2
      <4>4. QED
        BY <3>2, <4>1, <4>2, <4>3 DEF Range
    <3>4. ASSUME NEW p \in DOMAIN new, NEW q \in DOMAIN new, p < q
          PROVE  InFileOrder(docs, new[p], new[q])
      <4>1. q - 1 \in DOMAIN results /\ new[q] = results[q - 1]
        BY <1>1, <3>2, <3>4
      <4>2. CASE p = 1
        BY <2>2, <2>3, <3>2, <4>1, <4>2, <1>2 DEF InFileOrder
      <4>3. CASE p # 1
        <5>1. p - 1 \in DOMAIN results /\ new[p] = results[p - 1] /\ p - 1 < q - 1
          BY <1>1, <3>2, <3>4, <4>3
        <5>2. QED
          BY <5>1, <4>1, <1>1
      <4>4. QED
        BY <4>2, <4>3
    <3>5. QED
      BY <1>1, <1>4, <1>6, <2>1, <3>3, <3>4 DEF LoadedSoFar, new, doc
  <2>4. CASE ~IsCrd(doc)
    <3>1. new = Append(results, doc)
      BY <1>6, <2>4 DEF LoadDocument, IsCrd
    <3>2. /\ DOMAIN new = 1 .. Len(results) + 1 /\ new[Len(results) + 1] = doc
          /\ \A p \in DOMAIN results : new[p] = results[p]
          /\ \A q \in DOMAIN new : q = Len(results) + 1 \/ q \in DOMAIN results
      BY <1>1, <3>1, <2>1
    <3> HIDE DEF new, doc
    <3>3. Range(new) = Range(results) \cup {doc}
      BY <1>1, <3>2 DEF Range
    <3>4. ASSUME NEW p \in DOMAIN new, NEW q \in DOMAIN new, p < q
          PROVE  InFileOrder(docs, new[p], new[q])
      <4>1. p \in DOMAIN results /\ new[p] = results[p]
        BY <1>1, <3>2, <3>4
      <4>2. CASE q = Len(results) + 1
        BY <2>2, <2>4, <3>2, <4>1, <4>2, <1>2 DEF InFileOrder
      <4>3. CASE q # Len(results) + 1
        BY <1>1, <3>2, <3>4, <4>1, <4>3
      <4>4. QED
        BY <4>2, <4>3
    <3>5. QED
      BY <1>1, <1>4, <1>6, <2>1, <3>3, <3>4 DEF LoadedSoFar, new, doc
  <2>5. QED
    BY <2>3, <2>4
<1>7. QED
  BY <1>5, <1>6

\* LoadData has every object of the file, where LoadDocument is to put it.
LEMMA LoadDataLoads ==
  ASSUME NEW docs \in Seq(DocType \cup {Nil}), NoneTwice(docs)
  PROVE  LoadedSoFar(docs, Len(docs), LoadData(docs))
<1> DEFINE n == Len(docs)
           f == ResultsSoFar(docs)
           T == {i \in 0 .. n : LoadedSoFar(docs, i, f[i])}
<1>1. n \in Nat
  OBVIOUS
<1>2. f[0] = <<>> /\ \A i \in 1 .. n : f[i] = LoadDocument(f[i - 1], docs[i])
  BY ResultsTurn
<1>3. 0 \in T
  <2>1. LoadedSoFar(docs, 0, <<>>)
    <3>1. 1 .. 0 = {}
      OBVIOUS
    <3>2. QED
      BY <3>1 DEF LoadedSoFar, Range
  <2>2. QED
    BY <1>1, <1>2, <2>1
<1>4. ASSUME NEW i \in 1 .. n, i - 1 \in T
      PROVE  i \in T
  BY <1>1, <1>2, <1>4, LoadDocumentKeeps
<1> HIDE DEF T
<1>5. 0 .. n \subseteq T
  BY <1>1, <1>3, <1>4, CountUp
<1>6. n \in T
  BY <1>1, <1>5
<1>7. QED
  BY <1>6 DEF T, LoadData

\* LoadFromPaths after i files.
FilesSoFar(i, loaded) ==
  /\ loaded \in Seq(DocType)
  /\ Range(loaded) = {doc \in Documents : \E k \in 1 .. i : doc \in Range(Paths[k])}
  /\ \A p, q \in DOMAIN loaded : p < q => Precedes(loaded[p], loaded[q])

\* The files, one by one.
LEMMA PathsTyped ==
  /\ Len(Paths) \in Nat /\ DOMAIN Paths = 1 .. Len(Paths)
  /\ \A i \in 1 .. Len(Paths) : Paths[i] \in Seq(DocType \cup {Nil}) /\ NoneTwice(Paths[i])
  BY PathsAssumption DEF NoneTwice

\* Documents, element by element.
LEMMA DocumentsAre ==
  \A doc : doc \in Documents <=> doc # Nil /\ \E k \in DOMAIN Paths : doc \in Range(Paths[k])
  BY DEF Documents

\* ObjsSoFar is the loop of LoadFromPaths.
LEMMA FilesTurn ==
  /\ ObjsSoFar[0] = <<>>
  /\ \A i \in 1 .. Len(Paths) : ObjsSoFar[i] = ObjsSoFar[i - 1] \o LoadData(Paths[i])
<1> DEFINE S == Seq(DocType)
           n == Len(Paths)
           Turn(r, i) == r \o LoadData(Paths[i])
           F == [r \in S |-> [i \in 1 .. n |-> Turn(r, i)]]
           Is(g) == g = [i \in 0 .. n |-> IF i = 0 THEN <<>> ELSE Turn(g[i - 1], i)]
<1>1. n \in Nat
  BY PathsTyped
<1>2. \A i \in 1 .. n : LoadData(Paths[i]) \in S
  BY PathsTyped, LoadDataLoads DEF LoadedSoFar
<1>3. \A r \in S : \A i \in 1 .. n : Turn(r, i) \in S
  BY <1>2
<1>4. <<>> \in S
  OBVIOUS
<1>5. ObjsSoFar = CHOOSE h : Is(h)
  BY DEF ObjsSoFar
<1> HIDE DEF S, n, Turn
<1>6. F \in Turns(S, n)
  BY <1>3 DEF Turns
<1>7. \A r \in S : \A i \in 1 .. n : F[r][i] = Turn(r, i)
  OBVIOUS
<1> HIDE DEF F, Is
<1>8. PICK g \in [0 .. n -> S] : g[0] = <<>> /\ \A i \in 1 .. n : g[i] = F[g[i - 1]][i]
  <2>1. Runs(S, n, F, <<>>) # {}
    BY <1>1, <1>4, <1>6, LoopRuns
  <2>2. QED
    BY <2>1 DEF Runs
<1>9. Is(g)
  <2>1. \A i \in 1 .. n : g[i - 1] \in S
    BY <1>1
  <2>2. \A i \in 1 .. n : g[i] = Turn(g[i - 1], i)
    BY <1>7, <1>8, <2>1
  <2>3. \A i \in 0 .. n : g[i] = IF i = 0 THEN <<>> ELSE Turn(g[i - 1], i)
    BY <1>1, <1>8, <2>2
  <2>4. g = [i \in 0 .. n |-> g[i]]
    OBVIOUS
  <2>5. QED
    BY <2>3, <2>4 DEF Is
<1>10. Is(ObjsSoFar)
  BY <1>5, <1>9
<1>11. \A i \in 0 .. n : ObjsSoFar[i] = IF i = 0 THEN <<>> ELSE Turn(ObjsSoFar[i - 1], i)
  BY <1>10 DEF Is
<1>12. ObjsSoFar[0] = <<>> /\ \A i \in 1 .. n : ObjsSoFar[i] = Turn(ObjsSoFar[i - 1], i)
  BY <1>1, <1>11
<1>13. QED
  BY <1>12 DEF n, Turn

\* One file more.
LEMMA FileKeeps ==
  ASSUME NEW i \in 1 .. Len(Paths), NEW loaded, FilesSoFar(i - 1, loaded)
  PROVE  FilesSoFar(i, loaded \o LoadData(Paths[i]))
<1> DEFINE docs == Paths[i]
           file == LoadData(docs)
           new == loaded \o file
<1>1. /\ Len(Paths) \in Nat /\ DOMAIN Paths = 1 .. Len(Paths) /\ i \in DOMAIN Paths /\ i \in Nat
      /\ docs \in Seq(DocType \cup {Nil}) /\ NoneTwice(docs)
  BY PathsTyped
<1>2. /\ loaded \in Seq(DocType) /\ Len(loaded) \in Nat /\ DOMAIN loaded = 1 .. Len(loaded)
      /\ Range(loaded) = {doc \in Documents : \E k \in 1 .. i - 1 : doc \in Range(Paths[k])}
      /\ \A p, q \in DOMAIN loaded : p < q => Precedes(loaded[p], loaded[q])
  BY DEF FilesSoFar
<1>3. /\ file \in Seq(DocType) /\ Len(file) \in Nat /\ DOMAIN file = 1 .. Len(file)
      /\ Range(file) = Range(docs) \ {Nil}
      /\ \A p, q \in DOMAIN file : p < q => InFileOrder(docs, file[p], file[q])
  <2>1. LoadedSoFar(docs, Len(docs), file)
    BY <1>1, LoadDataLoads
  <2>2. Range(docs) = {docs[j] : j \in 1 .. Len(docs)}
    BY <1>1 DEF Range
  <2> HIDE DEF file, docs
  <2>3. QED
    BY <2>1, <2>2 DEF LoadedSoFar
<1> HIDE DEF file
<1>4. /\ new \in Seq(DocType) /\ DOMAIN new = 1 .. Len(loaded) + Len(file)
      /\ \A p \in DOMAIN loaded : p \in DOMAIN new /\ new[p] = loaded[p]
      /\ \A q \in DOMAIN file : q + Len(loaded) \in DOMAIN new /\ new[q + Len(loaded)] = file[q]
      /\ \A p \in DOMAIN new :
           \/ p \in DOMAIN loaded
           \/ p > Len(loaded) /\ p - Len(loaded) \in DOMAIN file /\ new[p] = file[p - Len(loaded)]
  BY <1>2, <1>3
<1> HIDE DEF new, docs
<1>5. Range(new) = Range(loaded) \cup Range(file)
  BY <1>4 DEF Range
<1>6. Range(new) = {doc \in Documents : \E k \in 1 .. i : doc \in Range(Paths[k])}
  <2>1. \A k : k \in 1 .. i <=> k \in 1 .. i - 1 \/ k = i
    BY <1>1
  <2>2. \A doc : doc \in Range(file) <=> doc \in Documents /\ doc \in Range(Paths[i])
    BY <1>1, <1>3, DocumentsAre DEF docs
  <2>3. QED
    BY <1>2, <1>5, <2>1, <2>2
<1>7. \A q \in DOMAIN file : \E l \in DOMAIN docs : docs[l] = file[q] /\ docs[l] # Nil
  BY <1>3 DEF Range
<1>8. \A q \in DOMAIN loaded : \E k \in 1 .. i - 1 : \E l \in DOMAIN Paths[k] :
         Paths[k][l] = loaded[q] /\ Paths[k][l] # Nil
  <2>1. \A q \in DOMAIN loaded : loaded[q] \in Range(loaded)
    BY DEF Range
  <2>2. \A q \in DOMAIN loaded : loaded[q] # Nil /\ \E k \in 1 .. i - 1 : loaded[q] \in Range(Paths[k])
    BY <1>2, <2>1, DocumentsAre
  <2>3. QED
    BY <2>2 DEF Range
<1>9. ASSUME NEW p \in DOMAIN file, NEW q \in DOMAIN file, p < q
      PROVE  Precedes(file[p], file[q])
  <2>1. InFileOrder(docs, file[p], file[q])
    BY <1>3, <1>9
  <2>2. \A k \in DOMAIN Paths : \A l \in DOMAIN Paths[k] :
          Paths[k][l] \in {file[p], file[q]} => k = i
    BY <1>1, <1>7, PathsAssumption DEF docs
  <2>3. QED
    BY <2>1, <2>2 DEF InFileOrder, Precedes, docs
<1>10. ASSUME NEW p \in DOMAIN loaded, NEW q \in DOMAIN file
       PROVE  Precedes(loaded[p], file[q])
  <2>1. \A k \in DOMAIN Paths : \A l \in DOMAIN Paths[k] : Paths[k][l] = file[q] => k = i
    BY <1>1, <1>7, PathsAssumption DEF docs
  <2>2. \A k \in DOMAIN Paths : \A l \in DOMAIN Paths[k] : Paths[k][l] = loaded[p] => k < i
    <3>1. PICK h \in 1 .. i - 1 : \E l \in DOMAIN Paths[h] : Paths[h][l] = loaded[p] /\ Paths[h][l] # Nil
      BY <1>8
    <3>2. h \in DOMAIN Paths /\ h < i
      BY <1>1
    <3>3. QED
      BY <3>1, <3>2, PathsAssumption
  <2>3. QED
    BY <2>1, <2>2 DEF Precedes
<1>11. ASSUME NEW p \in DOMAIN new, NEW q \in DOMAIN new, p < q
       PROVE  Precedes(new[p], new[q])
  <2>1. CASE p \in DOMAIN loaded /\ q \in DOMAIN loaded
    BY <1>2, <1>4, <1>11, <2>1
  <2>2. CASE p \in DOMAIN loaded /\ q \notin DOMAIN loaded
    BY <1>4, <1>10, <2>2
  <2>3. CASE p \notin DOMAIN loaded
    <3>1. /\ p - Len(loaded) \in DOMAIN file /\ new[p] = file[p - Len(loaded)]
          /\ q - Len(loaded) \in DOMAIN file /\ new[q] = file[q - Len(loaded)]
          /\ p - Len(loaded) < q - Len(loaded)
      BY <1>2, <1>4, <1>11, <2>3
    <3>2. QED
      BY <3>1, <1>9
  <2>4. QED
    BY <2>1, <2>2, <2>3
<1>12. QED
  BY <1>4, <1>6, <1>11 DEF FilesSoFar, new, file, docs

\* LoadFromPaths has every object of every file, in order.
LEMMA LoadFromPathsLoads ==
  /\ LoadFromPaths \in Seq(DocType)
  /\ Range(LoadFromPaths) = Documents
  /\ \A p, q \in DOMAIN LoadFromPaths : p < q => Precedes(LoadFromPaths[p], LoadFromPaths[q])
<1> DEFINE n == Len(Paths)
           T == {i \in 0 .. n : FilesSoFar(i, ObjsSoFar[i])}
<1>1. n \in Nat
  BY PathsTyped
<1>2. 0 \in T
  <2>1. FilesSoFar(0, <<>>)
    <3>1. 1 .. 0 = {}
      OBVIOUS
    <3>2. QED
      BY <3>1 DEF FilesSoFar, Range
  <2>2. QED
    BY <1>1, <2>1, FilesTurn
<1>3. ASSUME NEW i \in 1 .. n, i - 1 \in T
      PROVE  i \in T
  <2>1. FilesSoFar(i - 1, ObjsSoFar[i - 1]) /\ i \in 0 .. n
    BY <1>3
  <2>2. FilesSoFar(i, ObjsSoFar[i])
    BY <2>1, FilesTurn, FileKeeps
  <2>3. QED
    BY <2>1, <2>2
<1> HIDE DEF T
<1>4. 0 .. n \subseteq T
  BY <1>1, <1>2, <1>3, CountUp
<1>5. n \in T
  BY <1>1, <1>4
<1>6. FilesSoFar(n, LoadFromPaths)
  BY <1>5 DEF T, LoadFromPaths
<1>7. QED
  BY <1>6, PathsTyped, DocumentsAre DEF FilesSoFar

\* WatchesSoFar is the loop of registerWatchDistinct.
LEMMA WatchesTurn ==
  ASSUME NEW docs \in Seq(DocType)
  PROVE  /\ WatchesSoFar(docs)[0] = <<>>
         /\ \A i \in 1 .. Len(docs) :
              WatchesSoFar(docs)[i] = RegisterWatch(WatchesSoFar(docs)[i - 1], docs[i])
<1> DEFINE S == Seq(DocType)
           n == Len(docs)
           F == [r \in S |-> [i \in 1 .. n |-> RegisterWatch(r, docs[i])]]
           Is(g) == g = [i \in 0 .. n |-> IF i = 0 THEN <<>> ELSE RegisterWatch(g[i - 1], docs[i])]
           f == WatchesSoFar(docs)
<1>1. n \in Nat /\ \A i \in 1 .. n : docs[i] \in DocType
  OBVIOUS
<1>2. \A r \in S : \A i \in 1 .. n : RegisterWatch(r, docs[i]) \in S
  BY <1>1 DEF RegisterWatch
<1>3. <<>> \in S
  OBVIOUS
<1>4. f = CHOOSE h : Is(h)
  BY DEF WatchesSoFar
<1> HIDE DEF S, n, f
<1>5. F \in Turns(S, n)
  BY <1>2 DEF Turns
<1>6. \A r \in S : \A i \in 1 .. n : F[r][i] = RegisterWatch(r, docs[i])
  OBVIOUS
<1> HIDE DEF F, Is
<1>7. PICK g \in [0 .. n -> S] : g[0] = <<>> /\ \A i \in 1 .. n : g[i] = F[g[i - 1]][i]
  <2>1. Runs(S, n, F, <<>>) # {}
    BY <1>1, <1>3, <1>5, LoopRuns
  <2>2. QED
    BY <2>1 DEF Runs
<1>8. Is(g)
  <2>1. \A i \in 1 .. n : g[i - 1] \in S
    BY <1>1
  <2>2. \A i \in 1 .. n : g[i] = RegisterWatch(g[i - 1], docs[i])
    BY <1>6, <1>7, <2>1
  <2>3. \A i \in 0 .. n : g[i] = IF i = 0 THEN <<>> ELSE RegisterWatch(g[i - 1], docs[i])
    BY <1>1, <1>7, <2>2
  <2>4. g = [i \in 0 .. n |-> g[i]]
    OBVIOUS
  <2>5. QED
    BY <2>3, <2>4 DEF Is
<1>9. Is(f)
  BY <1>4, <1>8
<1>10. \A i \in 0 .. n : f[i] = IF i = 0 THEN <<>> ELSE RegisterWatch(f[i - 1], docs[i])
  BY <1>9 DEF Is
<1>11. f[0] = <<>> /\ \A i \in 1 .. n : f[i] = RegisterWatch(f[i - 1], docs[i])
  BY <1>1, <1>10
<1>12. QED
  BY <1>11 DEF f, n

\* One watch for each sum among the first i documents.
WatchedSoFar(docs, i, kinds) ==
  /\ kinds \in Seq(DocType)
  /\ \A j \in 1 .. i : \E p \in DOMAIN kinds : CalculateSum(kinds[p]) = CalculateSum(docs[j])
  /\ \A p, q \in DOMAIN kinds : CalculateSum(kinds[p]) = CalculateSum(kinds[q]) => p = q

\* One turn of registerWatchDistinct: a watch that is there, or a new one.
LEMMA RegisterWatchKeeps ==
  ASSUME NEW docs \in Seq(DocType), NEW i \in 1 .. Len(docs),
         NEW kinds, WatchedSoFar(docs, i - 1, kinds)
  PROVE  WatchedSoFar(docs, i, RegisterWatch(kinds, docs[i]))
<1> DEFINE doc == docs[i]
           new == RegisterWatch(kinds, doc)
<1>1. /\ kinds \in Seq(DocType) /\ Len(kinds) \in Nat /\ DOMAIN kinds = 1 .. Len(kinds)
      /\ \A j \in 1 .. i - 1 : \E p \in DOMAIN kinds : CalculateSum(kinds[p]) = CalculateSum(docs[j])
      /\ \A p, q \in DOMAIN kinds : CalculateSum(kinds[p]) = CalculateSum(kinds[q]) => p = q
  BY DEF WatchedSoFar
<1>2. Len(docs) \in Nat /\ doc \in DocType /\ \A j \in 1 .. i : j = i \/ j \in 1 .. i - 1
  OBVIOUS
<1>3. CASE \E v \in Range(kinds) : CalculateSum(v) = CalculateSum(doc)
  <2>1. new = kinds
    BY <1>3 DEF RegisterWatch
  <2>2. \E p \in DOMAIN kinds : CalculateSum(kinds[p]) = CalculateSum(doc)
    BY <1>3 DEF Range
  <2> HIDE DEF new
  <2>3. QED
    BY <1>1, <1>2, <2>1, <2>2 DEF WatchedSoFar, new
<1>4. CASE ~\E v \in Range(kinds) : CalculateSum(v) = CalculateSum(doc)
  <2>1. new = Append(kinds, doc)
    BY <1>4 DEF RegisterWatch
  <2>2. \A p \in DOMAIN kinds : CalculateSum(kinds[p]) # CalculateSum(doc)
    BY <1>4 DEF Range
  <2>3. /\ new \in Seq(DocType) /\ DOMAIN new = 1 .. Len(kinds) + 1 /\ new[Len(kinds) + 1] = doc
        /\ Len(kinds) + 1 \in DOMAIN new
        /\ \A p \in DOMAIN kinds : p \in DOMAIN new /\ new[p] = kinds[p]
        /\ \A q \in DOMAIN new : q = Len(kinds) + 1 \/ q \in DOMAIN kinds
    BY <1>1, <1>2, <2>1
  <2> HIDE DEF new, doc
  <2>4. \A j \in 1 .. i : \E p \in DOMAIN new : CalculateSum(new[p]) = CalculateSum(docs[j])
    BY <1>1, <1>2, <2>3 DEF doc
  <2>5. \A p, q \in DOMAIN new : CalculateSum(new[p]) = CalculateSum(new[q]) => p = q
    BY <1>1, <2>2, <2>3
  <2>6. QED
    BY <2>3, <2>4, <2>5 DEF WatchedSoFar, new, doc
<1>5. QED
  BY <1>3, <1>4

\* registerWatchDistinct has one watch for each sum.
LEMMA RegisterWatchDistinctWatches ==
  ASSUME NEW docs \in Seq(DocType)
  PROVE  WatchedSoFar(docs, Len(docs), RegisterWatchDistinct(docs))
<1> DEFINE n == Len(docs)
           f == WatchesSoFar(docs)
           T == {i \in 0 .. n : WatchedSoFar(docs, i, f[i])}
<1>1. n \in Nat
  OBVIOUS
<1>2. f[0] = <<>> /\ \A i \in 1 .. n : f[i] = RegisterWatch(f[i - 1], docs[i])
  BY WatchesTurn
<1>3. 0 \in T
  <2>1. WatchedSoFar(docs, 0, <<>>)
    BY DEF WatchedSoFar
  <2>2. QED
    BY <1>1, <1>2, <2>1
<1>4. ASSUME NEW i \in 1 .. n, i - 1 \in T
      PROVE  i \in T
  BY <1>1, <1>2, <1>4, RegisterWatchKeeps
<1> HIDE DEF T
<1>5. 0 .. n \subseteq T
  BY <1>1, <1>3, <1>4, CountUp
<1>6. n \in T
  BY <1>1, <1>5
<1>7. QED
  BY <1>6 DEF T, RegisterWatchDistinct

\* What a process has in memory is what its start computes from the manifest.
StartInv ==
  /\ phase \in [Managers -> Phases]
  /\ objs \in [Managers -> {<<>>, LoadFromPaths}]
  /\ watched \in [Managers -> {<<>>, RegisterWatchDistinct(LoadFromPaths)}]
  /\ \A m \in Managers :
       /\ phase[m] # "down" => objs[m] = LoadFromPaths
       /\ phase[m] \in {"standby", "leading"} => watched[m] = RegisterWatchDistinct(LoadFromPaths)

\* At first no process has loaded anything.
LEMMA StartInit == Init => StartInv
  BY DEF Init, StartInv, Phases

\* Only start and end write the list of objects and the watches.
LEMMA StartStep == StartInv /\ [Next]_vars => StartInv'
<1> SUFFICES ASSUME StartInv, [Next]_vars
             PROVE  StartInv'
  OBVIOUS
<1> USE DEF StartInv
<1>1. ASSUME NEW m \in Managers, Load(m) PROVE StartInv'
  BY <1>1 DEF Load, Phases
<1>2. ASSUME NEW m \in Managers, SetupWithManager(m) PROVE StartInv'
  BY <1>2 DEF SetupWithManager, Phases
<1>3. ASSUME NEW m \in Managers, Crash(m) \/ LoseLease(m) PROVE StartInv'
  BY <1>3 DEF Crash, LoseLease, Exit, Phases
<1>4. ASSUME NEW m \in Managers, Lead(m) PROVE StartInv'
  BY <1>4 DEF Lead, memVars, Phases
<1>5. ASSUME NEW m \in Managers, Renew(m) \/ RenewFails(m) \/ Pass(m) PROVE StartInv'
  BY <1>5 DEF Renew, RenewFails, Pass, UpdateObjects, ApplyObject, ApplyObjectFails, Uninstall, memVars
<1>6. CASE Tick \/ EditKeda \/ UNCHANGED vars
  BY <1>6 DEF Tick, EditKeda, vars, memVars
<1>7. QED
  BY <1>1, <1>2, <1>3, <1>4, <1>5, <1>6 DEF Next

\* The manifest, loaded and watched, is complete.
LEMMA StartInvCompletes == StartInv => StartIsComplete
<1> SUFFICES ASSUME StartInv, NEW m \in Managers
             PROVE  /\ phase[m] # "down" =>
                         /\ Range(objs[m]) = Documents
                         /\ \A p, q \in DOMAIN objs[m] : p < q => <<objs[m][p], objs[m][q]>> \in Preceding
                    /\ phase[m] \in {"standby", "leading"} =>
                         \A doc \in Documents :
                           \E i \in DOMAIN watched[m] :
                             {j \in DOMAIN watched[m] : watched[m][j].kind = doc.kind
                                                        /\ watched[m][j].apiVersion = doc.apiVersion} = {i}
  BY DEF StartIsComplete
<1>1. ASSUME phase[m] # "down"
      PROVE  /\ Range(objs[m]) = Documents
             /\ \A p, q \in DOMAIN objs[m] : p < q => <<objs[m][p], objs[m][q]>> \in Preceding
  BY <1>1, LoadFromPathsLoads DEF StartInv, Preceding, Range
<1>2. ASSUME phase[m] \in {"standby", "leading"}, NEW doc \in Documents
      PROVE  \E i \in DOMAIN watched[m] :
               {j \in DOMAIN watched[m] : watched[m][j].kind = doc.kind
                                          /\ watched[m][j].apiVersion = doc.apiVersion} = {i}
  <2> DEFINE docs == LoadFromPaths
             kinds == watched[m]
  <2>1. docs \in Seq(DocType) /\ Range(docs) = Documents
    BY LoadFromPathsLoads
  <2>2. WatchedSoFar(docs, Len(docs), kinds)
    BY <1>2, <2>1, RegisterWatchDistinctWatches DEF StartInv
  <2> HIDE DEF docs, kinds
  <2>3. PICK j \in 1 .. Len(docs) : docs[j] = doc
    BY <2>1 DEF Range
  <2>4. PICK i \in DOMAIN kinds : CalculateSum(kinds[i]) = CalculateSum(doc)
    BY <2>2, <2>3 DEF WatchedSoFar
  <2>5. \A p \in DOMAIN kinds : CalculateSum(kinds[p]) = CalculateSum(doc) => p = i
    BY <2>2, <2>4 DEF WatchedSoFar
  <2>6. \A p : CalculateSum(kinds[p]) = CalculateSum(doc)
                 <=> kinds[p].kind = doc.kind /\ kinds[p].apiVersion = doc.apiVersion
    BY DEF CalculateSum
  <2>7. {p \in DOMAIN kinds : kinds[p].kind = doc.kind /\ kinds[p].apiVersion = doc.apiVersion} = {i}
    BY <2>4, <2>5, <2>6
  <2>8. QED
    BY <2>7 DEF kinds
<1>3. QED
  BY <1>1, <1>2

\* StartIsComplete for any number of processes and any manifest that has no object
\* twice, in whatever files and order: LoadData, LoadFromPaths and
\* registerWatchDistinct lose nothing, put each object where it belongs and watch
\* each kind exactly once, and no step of any process disturbs what start left.
THEOREM StartStaysComplete == Spec => []StartIsComplete
  BY StartInit, StartStep, StartInvCompletes, PTL DEF Spec

-----------------------------------------------------------------------------
(* The arguments in memory.                                                *)

\* Strings: the provers do not know of a literal that it is one.
Text == STRING \cup {"info", "console", "rfc3339", "true", "false", "logtostderr"}
Arg == [name : Text, value : Text]
Configured == [Range(LogFlags) -> Text \cup {Nil}]

\* The parts of LoggingConsistent about one list of arguments.
Flagged(args) == Once(args) /\ Range(LogFlags) \subseteq Names(args)
StderrFits(args) ==
  ArgOf(args, "logtostderr") = {"false"} <=> ArgOf(args, "zap-encoder") = {"json"}

ArgsFit(d, args) ==
  /\ args \in Seq(Arg)
  /\ Flagged(args)
  /\ d = MetricsServer /\ args # Shipped[d].args => StderrFits(args)

\* The flags of the list are these three, and --logtostderr is not one of them.
LEMMA Flags ==
  /\ LogFlags[1] = "zap-log-level" /\ LogFlags[2] = "zap-encoder"
  /\ LogFlags[3] = "zap-time-encoding"
  /\ Range(LogFlags) = {"zap-log-level", "zap-encoder", "zap-time-encoding"}
  BY DEF LogFlags, Range

\* A list that has the flags gets none from AppendMissingArgs.
LEMMA NoneMissing ==
  ASSUME NEW cfg, NEW args, Range(LogFlags) \subseteq Names(args)
  PROVE  MissingArgs(cfg, args) = <<>>
<1>1. \A f \in Range(LogFlags) : MissingArg(cfg, args, f) = <<>>
  BY DEF MissingArg
<1>2. MissingArgs(cfg, args) = <<>> \o <<>> \o <<>>
  BY <1>1, Flags DEF MissingArgs
<1>3. QED
  BY <1>2

\* updateDeploymentContainer0Args on such a list writes the flags where they are.
LEMMA UpdateArgsInPlace ==
  ASSUME NEW cfg \in Configured, NEW args \in Seq(Arg), Range(LogFlags) \subseteq Names(args)
  PROVE  /\ UpdateArgs(cfg, args) \in Seq(Arg)
         /\ DOMAIN UpdateArgs(cfg, args) = DOMAIN args
         /\ \A i \in DOMAIN args :
              /\ UpdateArgs(cfg, args)[i].name = args[i].name
              /\ UpdateArgs(cfg, args)[i].value =
                   IF args[i].name \in Range(LogFlags) THEN String(cfg, args[i].name)
                   ELSE args[i].value
<1> DEFINE Written(i) == IF args[i].name \in Range(LogFlags)
                         THEN Pair(args[i].name, String(cfg, args[i].name)) ELSE args[i]
           new == [i \in DOMAIN args |-> Written(i)]
<1>1. \A i \in DOMAIN args : args[i] \in Arg
  OBVIOUS
<1>2. \A f \in Range(LogFlags) : String(cfg, f) \in Text
  <2>1. \A f \in Range(LogFlags) : Zero(f) \in Text
    <3>1. Zero("zap-log-level") = "info"
      BY DEF Zero
    <3>2. Zero("zap-encoder") = "console"
      BY DEF Zero
    <3>3. Zero("zap-time-encoding") = "rfc3339"
      BY DEF Zero
    <3>4. QED
      BY <3>1, <3>2, <3>3, Flags DEF Text
  <2>2. \A f \in Range(LogFlags) : cfg[f] \in Text \cup {Nil}
    BY DEF Configured
  <2>3. QED
    BY <2>1, <2>2 DEF String
<1>3. \A i \in DOMAIN args : Written(i) \in Arg
  BY <1>1, <1>2 DEF Arg, Pair
<1>4. new \in Seq(Arg) /\ DOMAIN new = DOMAIN args
  <2>1. DOMAIN args = 1..Len(args) /\ Len(args) \in Nat
    OBVIOUS
  <2>2. QED
    BY <2>1, <1>3, IsASeq
<1>5. UpdateArgs(cfg, args) = new
  <2>1. UpdateArgs(cfg, args) = new \o <<>>
    BY NoneMissing DEF UpdateArgs
  <2> HIDE DEF new
  <2>2. QED
    BY <2>1, <1>4
<1>6. \A i \in DOMAIN args :
         /\ new[i].name = args[i].name
         /\ new[i].value = IF args[i].name \in Range(LogFlags) THEN String(cfg, args[i].name)
                           ELSE args[i].value
  BY DEF Pair
<1>7. QED
  BY <1>4, <1>5, <1>6

\* updateMetricsServerLogToStderr: the arguments are those there were, except that
\* --logtostderr is now among them, once, and has its value from the configuration.
LEMMA LogToStderrWritten ==
  ASSUME NEW cfg, NEW args \in Seq(Arg), Flagged(args)
  PROVE  /\ UpdateLogToStderr(cfg, args) \in Seq(Arg)
         /\ Flagged(UpdateLogToStderr(cfg, args))
         /\ \E i \in DOMAIN UpdateLogToStderr(cfg, args) :
              UpdateLogToStderr(cfg, args)[i] = Pair("logtostderr", LogToStderr(cfg))
<1> DEFINE at == {i \in DOMAIN args : args[i].name = "logtostderr"}
           pair == Pair("logtostderr", LogToStderr(cfg))
           new == UpdateLogToStderr(cfg, args)
<1>a. DOMAIN args = 1..Len(args) /\ Len(args) \in Nat /\ \A i \in DOMAIN args : args[i] \in Arg
  OBVIOUS
<1>p. pair \in Arg /\ pair.name = "logtostderr"
  BY DEF Pair, Arg, Text, LogToStderr
<1>1. CASE at = {}
  <2>1. new = Append(args, pair)
    BY <1>1 DEF UpdateLogToStderr
  <2> HIDE DEF pair, new
  <2>2. /\ new \in Seq(Arg) /\ DOMAIN new = 1..Len(args) + 1
        /\ new[Len(args) + 1] = pair
        /\ \A i \in DOMAIN args : i \in DOMAIN new /\ new[i] = args[i]
    BY <2>1, <1>a, <1>p
  <2>3. Once(new)
    <3>1. \A i \in DOMAIN new : i \in DOMAIN args \/ i = Len(args) + 1
      BY <2>2, <1>a
    <3>2. \A i \in DOMAIN args : new[i].name # "logtostderr"
      BY <2>2, <1>1
    <3>3. QED
      BY <3>1, <3>2, <2>2, <1>p DEF Once, Flagged
  <2>4. Names(args) \subseteq Names(new)
    BY <2>2 DEF Names, Range
  <2>5. Len(args) + 1 \in DOMAIN new
    BY <2>2, <1>a
  <2>6. QED
    BY <2>2, <2>3, <2>4, <2>5 DEF Flagged, new, pair
<1>2. CASE at # {}
  <2> DEFINE first == CHOOSE i \in at : \A j \in at : i <= j
  <2>1. PICK k \in DOMAIN args : args[k].name = "logtostderr"
    BY <1>2
  <2>2. at = {k}
    BY <2>1 DEF Flagged, Once
  <2>3. first = k
    BY <2>2, <1>a
  <2>4. new = [args EXCEPT ![first].value = LogToStderr(cfg)]
    BY <1>2 DEF UpdateLogToStderr
  <2>5. new = [args EXCEPT ![k].value = LogToStderr(cfg)]
    BY <2>3, <2>4
  <2> HIDE DEF new, pair, first, at
  <2>6. [args[k] EXCEPT !.value = LogToStderr(cfg)] = pair
    BY <2>1, <1>a DEF Arg, Pair, pair
  <2>7. new = [args EXCEPT ![k] = pair]
    BY <2>5, <2>6
  <2>8. new \in Seq(Arg) /\ DOMAIN new = DOMAIN args /\ new[k] = pair
        /\ \A i \in DOMAIN args : new[i].name = args[i].name
    BY <2>7, <1>p, <2>1, <1>a
  <2>9. Once(new)
    BY <2>8 DEF Once, Flagged
  <2>10. Names(args) \subseteq Names(new)
    BY <2>8 DEF Names, Range
  <2>11. QED
    BY <2>8, <2>9, <2>10, <2>1 DEF Flagged, pair, new
<1>3. QED
  BY <1>1, <1>2

\* What updateDeploymentContainer0Args makes of a list with the flags still has them.
LEMMA UpdateArgsFlagged ==
  ASSUME NEW cfg \in Configured, NEW args \in Seq(Arg), Flagged(args)
  PROVE  UpdateArgs(cfg, args) \in Seq(Arg) /\ Flagged(UpdateArgs(cfg, args))
<1> DEFINE new == UpdateArgs(cfg, args)
<1>1. /\ new \in Seq(Arg) /\ DOMAIN new = DOMAIN args
      /\ \A i \in DOMAIN args : new[i].name = args[i].name
  BY UpdateArgsInPlace DEF Flagged
<1> HIDE DEF new
<1>2. Once(new)
  BY <1>1 DEF Once, Flagged
<1>3. Names(new) = Names(args)
  BY <1>1 DEF Names, Range
<1>4. QED
  BY <1>1, <1>2, <1>3 DEF Flagged, new

\* In a list of distinct names the value of a flag is that of its one argument.
LEMMA ArgOfOne ==
  ASSUME NEW args, Once(args), NEW i \in DOMAIN args
  PROVE  ArgOf(args, args[i].name) = {args[i].value}
  BY DEF Once, ArgOf

\* The encoder written and --logtostderr agree, whatever the user left out.
LEMMA EncoderAgrees ==
  ASSUME NEW cfg \in Configured
  PROVE  LogToStderr(cfg) = "false" <=> String(cfg, "zap-encoder") = "json"
<1>1. Zero("zap-encoder") = "console"
  BY DEF Zero
<1>2. cfg["zap-encoder"] = "json" => cfg["zap-encoder"] # Nil
  BY SpecsAssumption
<1>3. QED
  BY <1>1, <1>2 DEF LogToStderr, String

\* One pass over the arguments of a Deployment keeps them as LoggingConsistent says.
LEMMA UpdatedArgsFit ==
  ASSUME NEW d \in Deployments, NEW cfg \in Configured \cup {Nil}, NEW args, ArgsFit(d, args)
  PROVE  ArgsFit(d, UpdatedArgs(d, cfg, args))
<1>1. CASE cfg = Nil
  BY <1>1 DEF UpdatedArgs
<1>2. CASE cfg # Nil
  <2> DEFINE clean == SanitizeLogging(cfg)
  <2>1. clean \in Configured
    BY <1>2, Flags DEF SanitizeLogging, Configured, Text
  <2> HIDE DEF clean
  <2>2. CASE d # MetricsServer
    <3>1. UpdatedArgs(d, cfg, args) = UpdateArgs(clean, args)
      BY <1>2, <2>2 DEF UpdatedArgs, clean
    <3>2. QED
      BY <3>1, <2>1, <2>2, UpdateArgsFlagged DEF ArgsFit
  <2>3. CASE d = MetricsServer
    <3> DEFINE mid == UpdateLogToStderr(clean, args)
               new == UpdateArgs(clean, mid)
    <3>1. UpdatedArgs(d, cfg, args) = new
      BY <1>2, <2>3 DEF UpdatedArgs, clean
    <3>2. /\ mid \in Seq(Arg) /\ Flagged(mid)
          /\ \E i \in DOMAIN mid : mid[i] = Pair("logtostderr", LogToStderr(clean))
      BY LogToStderrWritten DEF ArgsFit
    <3> HIDE DEF mid
    <3>3. new \in Seq(Arg) /\ Flagged(new)
      BY <3>2, <2>1, UpdateArgsFlagged
    <3>4. /\ DOMAIN new = DOMAIN mid
          /\ \A i \in DOMAIN mid :
               /\ new[i].name = mid[i].name
               /\ new[i].value = IF mid[i].name \in Range(LogFlags) THEN String(clean, mid[i].name)
                                 ELSE mid[i].value
      BY <3>2, <2>1, UpdateArgsInPlace DEF Flagged
    <3> HIDE DEF new
    <3>5. ArgOf(new, "logtostderr") = {LogToStderr(clean)}
      <4>1. PICK i \in DOMAIN mid : mid[i] = Pair("logtostderr", LogToStderr(clean))
        BY <3>2
      <4>2. mid[i].name = "logtostderr" /\ mid[i].value = LogToStderr(clean)
        BY <4>1 DEF Pair
      <4>3. "logtostderr" \notin Range(LogFlags)
        BY Flags
      <4>4. i \in DOMAIN new /\ new[i].name = "logtostderr" /\ new[i].value = LogToStderr(clean)
        BY <4>2, <4>3, <3>4
      <4>5. QED
        BY <4>4, <3>3, ArgOfOne DEF Flagged
    <3>6. ArgOf(new, "zap-encoder") = {String(clean, "zap-encoder")}
      <4>1. "zap-encoder" \in Range(LogFlags)
        BY Flags
      <4>2. PICK i \in DOMAIN mid : mid[i].name = "zap-encoder"
        BY <4>1, <3>2 DEF Flagged, Names, Range
      <4>3. /\ i \in DOMAIN new /\ new[i].name = "zap-encoder"
            /\ new[i].value = String(clean, "zap-encoder")
        BY <4>1, <4>2, <3>4
      <4>4. QED
        BY <4>3, <3>3, ArgOfOne DEF Flagged
    <3>7. StderrFits(new)
      BY <3>5, <3>6, <2>1, EncoderAgrees DEF StderrFits
    <3>8. QED
      BY <3>1, <3>3, <3>7 DEF ArgsFit
  <2>4. QED
    BY <2>2, <2>3
<1>3. QED
  BY <1>1, <1>2

\* updateDeploymentContainer0Args, done again, finds every flag as it wrote it.
LEMMA UpdateArgsTwice ==
  ASSUME NEW cfg \in Configured, NEW args \in Seq(Arg), Range(LogFlags) \subseteq Names(args)
  PROVE  UpdateArgs(cfg, UpdateArgs(cfg, args)) = UpdateArgs(cfg, args)
<1> DEFINE once == UpdateArgs(cfg, args)
           twice == UpdateArgs(cfg, once)
<1>1. /\ once \in Seq(Arg) /\ DOMAIN once = DOMAIN args
      /\ \A i \in DOMAIN args :
           /\ once[i].name = args[i].name
           /\ once[i].value = IF args[i].name \in Range(LogFlags) THEN String(cfg, args[i].name)
                              ELSE args[i].value
  BY UpdateArgsInPlace
<1> HIDE DEF once
<1>2. Range(LogFlags) \subseteq Names(once)
  <2>1. Names(once) = Names(args)
    BY <1>1 DEF Names, Range
  <2>2. QED
    BY <2>1
<1>3. /\ twice \in Seq(Arg) /\ DOMAIN twice = DOMAIN once
      /\ \A i \in DOMAIN once :
           /\ twice[i].name = once[i].name
           /\ twice[i].value = IF once[i].name \in Range(LogFlags) THEN String(cfg, once[i].name)
                               ELSE once[i].value
  BY <1>1, <1>2, UpdateArgsInPlace
<1> HIDE DEF twice
<1>4. \A i \in DOMAIN once : twice[i] = once[i]
  <2>1. \A i \in DOMAIN once : twice[i].name = once[i].name /\ twice[i].value = once[i].value
    BY <1>1, <1>3
  <2>2. \A i \in DOMAIN once : twice[i] \in Arg /\ once[i] \in Arg
    BY <1>1, <1>3
  <2>3. QED
    BY <2>1, <2>2 DEF Arg
<1>5. twice = once
  BY <1>1, <1>3, <1>4
<1>6. QED
  BY <1>5 DEF twice, once

\* updateMetricsServerLogToStderr, done again, finds the argument as it wrote it.
LEMMA LogToStderrTwice ==
  ASSUME NEW cfg, NEW args \in Seq(Arg), Once(args), NEW k \in DOMAIN args,
         args[k] = Pair("logtostderr", LogToStderr(cfg))
  PROVE  UpdateLogToStderr(cfg, args) = args
<1> DEFINE at == {i \in DOMAIN args : args[i].name = "logtostderr"}
           first == CHOOSE i \in at : \A j \in at : i <= j
<1>1. args[k].name = "logtostderr" /\ args[k].value = LogToStderr(cfg)
  BY DEF Pair
<1>2. at = {k}
  BY <1>1 DEF Once
<1>3. first = k
  BY <1>2
<1>4. UpdateLogToStderr(cfg, args) = [args EXCEPT ![first].value = LogToStderr(cfg)]
  BY <1>2 DEF UpdateLogToStderr
<1> HIDE DEF first, at
<1>5. [args[k] EXCEPT !.value = LogToStderr(cfg)] = args[k]
  <2>1. args[k] \in Arg
    OBVIOUS
  <2>2. QED
    BY <1>1, <2>1 DEF Arg
<1>6. [args EXCEPT ![k] = args[k]] = args
  OBVIOUS
<1>7. QED
  BY <1>3, <1>4, <1>5, <1>6

\* The arguments that updateDeploymentContainer0Args is given: for the metrics server
\* with --logtostderr.
Prepared(d, cfg, args) ==
  IF d = MetricsServer THEN UpdateLogToStderr(SanitizeLogging(cfg), args) ELSE args

\* They have the flags.
LEMMA PreparedFlagged ==
  ASSUME NEW d \in Deployments, NEW cfg \in Configured, cfg # Nil, NEW args, ArgsFit(d, args)
  PROVE  /\ UpdatedArgs(d, cfg, args) = UpdateArgs(SanitizeLogging(cfg), Prepared(d, cfg, args))
         /\ SanitizeLogging(cfg) \in Configured
         /\ Prepared(d, cfg, args) \in Seq(Arg)
         /\ Flagged(Prepared(d, cfg, args))
<1>1. UpdatedArgs(d, cfg, args) = UpdateArgs(SanitizeLogging(cfg), Prepared(d, cfg, args))
  BY DEF UpdatedArgs, Prepared
<1>2. SanitizeLogging(cfg) \in Configured
  BY Flags DEF SanitizeLogging, Configured, Text
<1>3. Prepared(d, cfg, args) \in Seq(Arg) /\ Flagged(Prepared(d, cfg, args))
  BY LogToStderrWritten DEF ArgsFit, Prepared
<1>4. QED
  BY <1>1, <1>2, <1>3

\* A pass done again with the same logging leaves the arguments as they are.
LEMMA UpdatedArgsTwice ==
  ASSUME NEW d \in Deployments, NEW cfg \in Configured \cup {Nil}, NEW args, ArgsFit(d, args)
  PROVE  UpdatedArgs(d, cfg, UpdatedArgs(d, cfg, args)) = UpdatedArgs(d, cfg, args)
<1>1. CASE cfg = Nil
  BY <1>1 DEF UpdatedArgs
<1>2. CASE cfg # Nil
  <2> DEFINE clean == SanitizeLogging(cfg)
             mid == Prepared(d, cfg, args)
             new == UpdateArgs(clean, mid)
  <2>1. /\ UpdatedArgs(d, cfg, args) = new /\ clean \in Configured
        /\ mid \in Seq(Arg) /\ Flagged(mid)
    BY <1>2, PreparedFlagged
  <2>2. ArgsFit(d, new)
    BY <2>1, UpdatedArgsFit
  <2>3. UpdatedArgs(d, cfg, new) = UpdateArgs(clean, Prepared(d, cfg, new))
    BY <1>2, <2>2, PreparedFlagged
  <2>4. Prepared(d, cfg, new) = new
    <3>1. CASE d # MetricsServer
      BY <3>1 DEF Prepared
    <3>2. CASE d = MetricsServer
      <4>1. PICK i \in DOMAIN mid : mid[i] = Pair("logtostderr", LogToStderr(clean))
        BY <3>2, LogToStderrWritten DEF Prepared, ArgsFit
      <4> HIDE DEF mid, clean
      <4>2. mid[i].name = "logtostderr" /\ mid[i].value = LogToStderr(clean)
        BY <4>1 DEF Pair
      <4>3. i \in DOMAIN new /\ new[i].name = "logtostderr" /\ new[i].value = LogToStderr(clean)
        BY <2>1, <4>2, UpdateArgsInPlace, Flags DEF Flagged
      <4> HIDE DEF new
      <4>4. new \in Seq(Arg) /\ Once(new)
        BY <2>2 DEF ArgsFit, Flagged
      <4>5. new[i] = Pair("logtostderr", LogToStderr(clean))
        <5>1. new[i] \in Arg
          BY <4>3, <4>4
        <5>2. QED
          BY <5>1, <4>3 DEF Arg, Pair
      <4>6. UpdateLogToStderr(clean, new) = new
        BY <4>3, <4>4, <4>5, LogToStderrTwice
      <4>7. QED
        BY <3>2, <4>6 DEF Prepared, clean
    <3>3. QED
      BY <3>1, <3>2
  <2>5. UpdateArgs(clean, new) = new
    BY <2>1, UpdateArgsTwice DEF Flagged
  <2>6. QED
    BY <2>1, <2>3, <2>4, <2>5
<1>3. QED
  BY <1>1, <1>2

\* What is written for a flag is what the user means by it.
LEMMA SanitizedMeant ==
  ASSUME NEW cfg \in Configured, NEW f \in Range(LogFlags)
  PROVE  String(SanitizeLogging(cfg), f) = Meant(cfg, f)
<1>1. Zero("zap-encoder") = "console"
  BY DEF Zero
<1>2. DOMAIN cfg = Range(LogFlags)
  BY DEF Configured
<1>3. CASE f = "zap-encoder"
  <2>1. SanitizeLogging(cfg)[f] = IF cfg[f] = "text" THEN "console" ELSE cfg[f]
    BY <1>2, <1>3 DEF SanitizeLogging
  <2>2. QED
    BY <1>1, <1>3, <2>1 DEF String, Meant
<1>4. CASE f # "zap-encoder"
  <2>1. SanitizeLogging(cfg)[f] = cfg[f]
    BY <1>2, <1>4 DEF SanitizeLogging
  <2>2. QED
    BY <1>4, <2>1 DEF String, Meant
<1>5. QED
  BY <1>3, <1>4

\* After a pass each flag has the value the user means, and no other.
LEMMA UpdatedArgsMeant ==
  ASSUME NEW d \in Deployments, NEW cfg \in Configured, cfg # Nil, NEW args, ArgsFit(d, args),
         NEW f \in Range(LogFlags)
  PROVE  ArgOf(UpdatedArgs(d, cfg, args), f) = {Meant(cfg, f)}
<1> DEFINE clean == SanitizeLogging(cfg)
           mid == Prepared(d, cfg, args)
           new == UpdateArgs(clean, mid)
<1>1. /\ UpdatedArgs(d, cfg, args) = new /\ clean \in Configured
      /\ mid \in Seq(Arg) /\ Flagged(mid)
  BY PreparedFlagged
<1>2. String(clean, f) = Meant(cfg, f)
  BY SanitizedMeant
<1> HIDE DEF clean, mid
<1>3. PICK i \in DOMAIN mid : mid[i].name = f
  BY <1>1 DEF Flagged, Names, Range
<1>4. i \in DOMAIN new /\ new[i].name = f /\ new[i].value = String(clean, f)
  BY <1>1, <1>3, UpdateArgsInPlace DEF Flagged
<1>5. Once(new)
  BY <1>1, UpdateArgsFlagged DEF Flagged
<1> HIDE DEF new
<1>6. ArgOf(new, new[i].name) = {new[i].value}
  BY <1>4, <1>5, ArgOfOne
<1>7. QED
  BY <1>1, <1>2, <1>4, <1>6

-----------------------------------------------------------------------------
(* The environment.                                                        *)

\* The required variables: six of them, with six names.
LEMMA Required ==
  /\ Len(RequiredEnv) = 6 /\ DOMAIN RequiredEnv = 1 .. 6
  /\ \A i, j \in 1 .. 6 : RequiredEnv[i].name = RequiredEnv[j].name => i = j
<1>1. Len(RequiredEnv) = 6 /\ DOMAIN RequiredEnv = 1 .. 6
  BY DEF RequiredEnv
<1>2. /\ RequiredEnv[1].name = "WATCH_NAMESPACE" /\ RequiredEnv[2].name = "POD_NAME"
      /\ RequiredEnv[3].name = "POD_NAMESPACE" /\ RequiredEnv[4].name = "OPERATOR_NAME"
      /\ RequiredEnv[5].name = "KEDA_HTTP_DEFAULT_TIMEOUT"
      /\ RequiredEnv[6].name = "KEDA_HTTP_MIN_TLS_VERSION"
  BY DEF RequiredEnv, Pair
<1>3. QED
  BY <1>1, <1>2

\* RequiredSoFar is the loop of EnvVars.Sanitize.
LEMMA RequiredTurn ==
  ASSUME NEW env
  PROVE  /\ RequiredSoFar(env)[0] = <<>>
         /\ \A i \in 1 .. 6 :
              RequiredSoFar(env)[i] =
                IF RequiredEnv[i].name \in Names(env) THEN RequiredSoFar(env)[i - 1]
                ELSE Append(RequiredSoFar(env)[i - 1], RequiredEnv[i])
<1> DEFINE S == Seq(Range(RequiredEnv))
           n == 6
           Turn(r, i) == IF RequiredEnv[i].name \in Names(env) THEN r ELSE Append(r, RequiredEnv[i])
           F == [r \in S |-> [i \in 1 .. n |-> Turn(r, i)]]
           Is(g) == g = [i \in 0 .. n |-> IF i = 0 THEN <<>> ELSE Turn(g[i - 1], i)]
           f == RequiredSoFar(env)
<1>1. n \in Nat /\ \A i \in 1 .. n : RequiredEnv[i] \in Range(RequiredEnv)
  BY Required DEF Range
<1>2. \A r \in S : \A i \in 1 .. n : Turn(r, i) \in S
  BY <1>1
<1>3. <<>> \in S
  OBVIOUS
<1>4. f = CHOOSE h : Is(h)
  <2> DEFINE Was(h) == h = [i \in 0 .. Len(RequiredEnv) |->
               CASE i = 0 -> <<>>
                 [] i > 0 /\ RequiredEnv[i].name \in Names(env) -> h[i - 1]
                 [] OTHER -> Append(h[i - 1], RequiredEnv[i])]
  <2>1. f = CHOOSE h : Was(h)
    BY DEF RequiredSoFar
  <2>2. ASSUME NEW h, NEW i \in 0 .. 6
        PROVE  (CASE i = 0 -> <<>>
                 [] i > 0 /\ RequiredEnv[i].name \in Names(env) -> h[i - 1]
                 [] OTHER -> Append(h[i - 1], RequiredEnv[i]))
               = (IF i = 0 THEN <<>> ELSE Turn(h[i - 1], i))
    OBVIOUS
  <2>3. \A h : Was(h) <=> Is(h)
    BY <2>2, Required
  <2> HIDE DEF Was, Is
  <2>4. QED
    BY <2>1, <2>3
<1> HIDE DEF S, n, f, Turn
<1>5. F \in Turns(S, n)
  BY <1>2 DEF Turns
<1>6. \A r \in S : \A i \in 1 .. n : F[r][i] = Turn(r, i)
  OBVIOUS
<1> HIDE DEF F, Is
<1>7. PICK g \in [0 .. n -> S] : g[0] = <<>> /\ \A i \in 1 .. n : g[i] = F[g[i - 1]][i]
  <2>1. Runs(S, n, F, <<>>) # {}
    BY <1>1, <1>3, <1>5, LoopRuns
  <2>2. QED
    BY <2>1 DEF Runs
<1>8. Is(g)
  <2>1. \A i \in 1 .. n : g[i - 1] \in S
    BY <1>1
  <2>2. \A i \in 1 .. n : g[i] = Turn(g[i - 1], i)
    BY <1>6, <1>7, <2>1
  <2>3. \A i \in 0 .. n : g[i] = IF i = 0 THEN <<>> ELSE Turn(g[i - 1], i)
    BY <1>1, <1>7, <2>2
  <2>4. g = [i \in 0 .. n |-> g[i]]
    OBVIOUS
  <2>5. QED
    BY <2>3, <2>4 DEF Is
<1>9. Is(f)
  BY <1>4, <1>8
<1>10. \A i \in 0 .. n : f[i] = IF i = 0 THEN <<>> ELSE Turn(f[i - 1], i)
  BY <1>9 DEF Is
<1>11. f[0] = <<>> /\ \A i \in 1 .. n : f[i] = Turn(f[i - 1], i)
  BY <1>1, <1>10
<1>12. QED
  BY <1>11 DEF f, n, Turn

\* The required variables among the first i that the user did not name, once each.
RequiredAt(env, i, picked) ==
  /\ picked \in Seq(Range(RequiredEnv))
  /\ Names(picked) = {RequiredEnv[j].name : j \in 1 .. i} \ Names(env)
  /\ Once(picked)

\* One required variable more.
LEMMA RequiredKeeps ==
  ASSUME NEW env, NEW i \in 1 .. 6, NEW old, RequiredAt(env, i - 1, old)
  PROVE  RequiredAt(env, i, IF RequiredEnv[i].name \in Names(env) THEN old
                            ELSE Append(old, RequiredEnv[i]))
<1> DEFINE pair == RequiredEnv[i]
           new == Append(old, pair)
<1>1. /\ old \in Seq(Range(RequiredEnv)) /\ Len(old) \in Nat /\ DOMAIN old = 1 .. Len(old)
      /\ Names(old) = {RequiredEnv[j].name : j \in 1 .. i - 1} \ Names(env)
      /\ Once(old)
  BY DEF RequiredAt
<1>2. {RequiredEnv[j].name : j \in 1 .. i} = {RequiredEnv[j].name : j \in 1 .. i - 1} \cup {pair.name}
  OBVIOUS
<1>3. pair \in Range(RequiredEnv)
  BY Required DEF Range
<1>4. CASE pair.name \in Names(env)
  BY <1>1, <1>2, <1>4 DEF RequiredAt
<1>5. CASE pair.name \notin Names(env)
  <2>1. /\ new \in Seq(Range(RequiredEnv)) /\ DOMAIN new = 1 .. Len(old) + 1
        /\ new[Len(old) + 1] = pair /\ Len(old) + 1 \in DOMAIN new
        /\ \A p \in DOMAIN old : p \in DOMAIN new /\ new[p] = old[p]
        /\ \A q \in DOMAIN new : q = Len(old) + 1 \/ q \in DOMAIN old
    BY <1>1, <1>3
  <2> HIDE DEF new, pair
  <2>2. Range(new) = Range(old) \cup {pair}
    BY <2>1 DEF Range
  <2>3. Names(new) = Names(old) \cup {pair.name}
    BY <2>2 DEF Names
  <2>4. pair.name \notin Names(old)
    BY <1>1, Required DEF pair
  <2>5. \A p \in DOMAIN old : old[p].name \in Names(old)
    BY DEF Names, Range
  <2>6. Once(new)
    BY <1>1, <2>1, <2>4, <2>5 DEF Once
  <2>7. QED
    BY <1>1, <1>2, <1>5, <2>1, <2>3, <2>6 DEF RequiredAt, new, pair
<1>6. QED
  BY <1>4, <1>5

\* The loop adds what the user did not name, once each.
LEMMA RequiredAll ==
  ASSUME NEW env
  PROVE  RequiredAt(env, 6, RequiredSoFar(env)[6])
<1> DEFINE f == RequiredSoFar(env)
           T == {i \in 0 .. 6 : RequiredAt(env, i, f[i])}
<1>1. 0 \in T
  <2>1. RequiredAt(env, 0, <<>>)
    <3>1. 1 .. 0 = {}
      OBVIOUS
    <3>2. QED
      BY <3>1 DEF RequiredAt, Names, Range, Once
  <2>2. QED
    BY <2>1, RequiredTurn
<1>2. ASSUME NEW i \in 1 .. 6, i - 1 \in T
      PROVE  i \in T
  <2>1. RequiredAt(env, i - 1, f[i - 1]) /\ i \in 0 .. 6
    BY <1>2
  <2>2. RequiredAt(env, i, f[i])
    <3>1. f[i] = IF RequiredEnv[i].name \in Names(env) THEN f[i - 1]
                 ELSE Append(f[i - 1], RequiredEnv[i])
      BY RequiredTurn
    <3> HIDE DEF f
    <3>2. QED
      BY <2>1, <3>1, RequiredKeeps
  <2>3. QED
    BY <2>1, <2>2
<1> HIDE DEF T
<1>3. 0 .. 6 \subseteq T
  BY <1>1, <1>2, CountUp
<1>4. 6 \in T
  BY <1>3
<1>5. QED
  BY <1>4 DEF T

\* EnvVars.Sanitize: all that the user wrote and all that is required, and no name
\* twice unless the user wrote it twice.
LEMMA SanitizedEnvFits ==
  ASSUME NEW env \in Seq(Args)
  PROVE  /\ Range(env) \subseteq Range(SanitizedEnv(env))
         /\ Names(RequiredEnv) \subseteq Names(SanitizedEnv(env))
         /\ Once(env) => Once(SanitizedEnv(env))
<1> DEFINE more == RequiredSoFar(env)[6]
           new == env \o more
<1>1. SanitizedEnv(env) = new
  BY Required DEF SanitizedEnv
<1>2. RequiredAt(env, 6, more)
  BY RequiredAll
<1> HIDE DEF more
<1>3. /\ more \in Seq(Range(RequiredEnv)) /\ Len(more) \in Nat /\ DOMAIN more = 1 .. Len(more)
      /\ Names(more) = {RequiredEnv[j].name : j \in 1 .. 6} \ Names(env)
      /\ Once(more)
  BY <1>2 DEF RequiredAt
<1>4. Len(env) \in Nat /\ DOMAIN env = 1 .. Len(env)
  OBVIOUS
<1>5. /\ DOMAIN new = 1 .. Len(env) + Len(more)
      /\ \A p \in DOMAIN env : p \in DOMAIN new /\ new[p] = env[p]
      /\ \A q \in DOMAIN more : q + Len(env) \in DOMAIN new /\ new[q + Len(env)] = more[q]
      /\ \A p \in DOMAIN new :
           \/ p \in DOMAIN env
           \/ p - Len(env) \in DOMAIN more /\ new[p] = more[p - Len(env)]
  BY <1>3, <1>4
<1> HIDE DEF new
<1>6. Range(new) = Range(env) \cup Range(more)
  BY <1>5 DEF Range
<1>7. Names(new) = Names(env) \cup Names(more)
  BY <1>6 DEF Names
<1>8. Names(RequiredEnv) = {RequiredEnv[j].name : j \in 1 .. 6}
  BY Required DEF Names, Range
<1>9. ASSUME Once(env), NEW p \in DOMAIN new, NEW q \in DOMAIN new, new[p].name = new[q].name
      PROVE  p = q
  <2>1. \A k \in DOMAIN env : env[k].name \in Names(env)
    BY DEF Names, Range
  <2>2. \A k \in DOMAIN more : more[k].name \in Names(more) /\ more[k].name \notin Names(env)
    BY <1>3 DEF Names, Range
  <2>3. CASE p \in DOMAIN env /\ q \in DOMAIN env
    BY <1>5, <1>9, <2>3 DEF Once
  <2>4. CASE p \notin DOMAIN env /\ q \notin DOMAIN env
    <3>1. /\ p - Len(env) \in DOMAIN more /\ new[p] = more[p - Len(env)]
          /\ q - Len(env) \in DOMAIN more /\ new[q] = more[q - Len(env)]
      BY <1>5, <2>4
    <3>2. p - Len(env) = q - Len(env)
      BY <1>3, <1>9, <3>1 DEF Once
    <3>3. QED
      BY <1>3, <1>4, <1>5, <3>2
  <2>5. CASE ~(p \in DOMAIN env <=> q \in DOMAIN env)
    BY <1>5, <1>9, <2>1, <2>2, <2>5
  <2>6. QED
    BY <2>3, <2>4, <2>5
<1>10. QED
  BY <1>1, <1>3, <1>6, <1>7, <1>8, <1>9 DEF Once

-----------------------------------------------------------------------------
(* Deployments in memory.                                                  *)

\* The parts of a template that a pass writes.
Fields == {"args", "sidecar", "annotations", "priorityClass", "resources", "env", "image"}

\* A template in memory.
TemplateOK(d, u) ==
  /\ Fields \subseteq DOMAIN u
  /\ ArgsFit(d, u.args)
  /\ u.image = Shipped[d].image

\* What a spec gives the chain.
SpecOK(s) ==
  /\ \A d \in Deployments : s.logging[d] \in Configured \cup {Nil}
  /\ s.env \in Seq(Args)

\* updateDeploymentAnnotations, done again, changes nothing.
LEMMA MergeTwice ==
  ASSUME NEW old, NEW new
  PROVE  MergeAnnotations(MergeAnnotations(old, new), new) = MergeAnnotations(old, new)
  BY DEF MergeAnnotations

\* The chain, field by field.
LEMMA UpdateDeploymentFields ==
  ASSUME NEW d \in Deployments, NEW s, NEW u, Fields \subseteq DOMAIN u
  PROVE  LET new == UpdateDeployment(d, u, s) IN
         /\ DOMAIN new = DOMAIN u /\ new = [x \in DOMAIN u |-> new[x]]
         /\ new.args = UpdatedArgs(d, s.logging[d], u.args)
         /\ new.sidecar = SidecarInjection(d, s)
         /\ new.annotations = MergeAnnotations(u.annotations, PodAnnotations(d, s))
         /\ new.priorityClass = "keda-priority-class"
         /\ new.resources = (IF s.resources[d] = Nil THEN u.resources ELSE s.resources[d])
         /\ new.env = UpdatedEnv(d, u.env, s)
         /\ \A x \in DOMAIN u \ (Fields \ {"image"}) : new[x] = u[x]
  BY DEF UpdateDeployment, Fields

\* The chain, run again with the same spec, changes nothing.
LEMMA UpdateDeploymentTwice ==
  ASSUME NEW d \in Deployments, NEW s, SpecOK(s), NEW u, TemplateOK(d, u)
  PROVE  UpdateDeployment(d, UpdateDeployment(d, u, s), s) = UpdateDeployment(d, u, s)
<1> DEFINE once == UpdateDeployment(d, u, s)
           twice == UpdateDeployment(d, once, s)
<1>1. /\ DOMAIN once = DOMAIN u /\ once = [x \in DOMAIN u |-> once[x]]
      /\ once.args = UpdatedArgs(d, s.logging[d], u.args)
      /\ once.sidecar = SidecarInjection(d, s)
      /\ once.annotations = MergeAnnotations(u.annotations, PodAnnotations(d, s))
      /\ once.priorityClass = "keda-priority-class"
      /\ once.resources = (IF s.resources[d] = Nil THEN u.resources ELSE s.resources[d])
      /\ once.env = UpdatedEnv(d, u.env, s)
  BY UpdateDeploymentFields DEF TemplateOK
<1>2. Fields \subseteq DOMAIN once
  BY <1>1 DEF TemplateOK
<1> HIDE DEF once
<1>3. /\ DOMAIN twice = DOMAIN once /\ twice = [x \in DOMAIN once |-> twice[x]]
      /\ twice.args = UpdatedArgs(d, s.logging[d], once.args)
      /\ twice.sidecar = SidecarInjection(d, s)
      /\ twice.annotations = MergeAnnotations(once.annotations, PodAnnotations(d, s))
      /\ twice.priorityClass = "keda-priority-class"
      /\ twice.resources = (IF s.resources[d] = Nil THEN once.resources ELSE s.resources[d])
      /\ twice.env = UpdatedEnv(d, once.env, s)
      /\ \A x \in DOMAIN once \ (Fields \ {"image"}) : twice[x] = once[x]
  BY <1>2, UpdateDeploymentFields
<1> HIDE DEF twice
<1>4. twice.args = once.args
  BY <1>1, <1>3, UpdatedArgsTwice DEF TemplateOK, SpecOK
<1>5. twice.annotations = once.annotations
  BY <1>1, <1>3, MergeTwice
<1>6. twice.env = once.env
  BY <1>1, <1>3 DEF UpdatedEnv
<1>7. twice.resources = once.resources
  BY <1>1, <1>3
<1>8. \A x \in DOMAIN once : twice[x] = once[x]
  BY <1>1, <1>3, <1>4, <1>5, <1>6, <1>7 DEF Fields
<1>9. twice = once
  BY <1>1, <1>3, <1>8
<1>10. QED
  BY <1>9 DEF once, twice

\* The chain leaves a template as it is to be.
LEMMA UpdateDeploymentOK ==
  ASSUME NEW d \in Deployments, NEW s, SpecOK(s), NEW u, TemplateOK(d, u)
  PROVE  TemplateOK(d, UpdateDeployment(d, u, s))
<1> DEFINE new == UpdateDeployment(d, u, s)
<1>1. /\ DOMAIN new = DOMAIN u /\ new.args = UpdatedArgs(d, s.logging[d], u.args)
      /\ \A x \in DOMAIN u \ (Fields \ {"image"}) : new[x] = u[x]
  BY UpdateDeploymentFields DEF TemplateOK
<1> HIDE DEF new
<1>2. ArgsFit(d, new.args)
  BY <1>1, UpdatedArgsFit DEF TemplateOK, SpecOK
<1>3. new.image = u.image
  BY <1>1 DEF TemplateOK, Fields
<1>4. QED
  BY <1>1, <1>2, <1>3 DEF TemplateOK, new

\* What is sent after the chain fits the spec.
LEMMA UpdateDeploymentFits ==
  ASSUME NEW d \in Deployments, NEW s, SpecOK(s), NEW u, TemplateOK(d, u)
  PROVE  Fits(d, Sent(d, UpdateDeployment(d, u, s)), s)
<1> DEFINE new == UpdateDeployment(d, u, s)
           sent == Sent(d, new)
<1>1. /\ DOMAIN new = DOMAIN u
      /\ new.args = UpdatedArgs(d, s.logging[d], u.args)
      /\ new.sidecar = SidecarInjection(d, s)
      /\ new.annotations = MergeAnnotations(u.annotations, PodAnnotations(d, s))
      /\ new.resources = (IF s.resources[d] = Nil THEN u.resources ELSE s.resources[d])
      /\ new.env = UpdatedEnv(d, u.env, s)
  BY UpdateDeploymentFields DEF TemplateOK
<1>2. new.image = Shipped[d].image
  BY UpdateDeploymentOK DEF TemplateOK
<1>3. Fields \subseteq DOMAIN new
  BY <1>1 DEF TemplateOK
<1> HIDE DEF new
<1>4. /\ sent.args = new.args /\ sent.sidecar = new.sidecar /\ sent.annotations = new.annotations
      /\ sent.resources = new.resources /\ sent.env = new.env
      /\ sent.image = Image(d, new.image, Overrides, Fips)
  BY <1>3 DEF Sent, Fields
<1> HIDE DEF sent
<1>5. ASSUME s.logging[d] # Nil, NEW f \in Range(LogFlags)
      PROVE  ArgOf(sent.args, f) = {Meant(s.logging[d], f)}
  <2>1. s.logging[d] \in Configured
    BY <1>5 DEF SpecOK
  <2>2. QED
    BY <1>1, <1>4, <1>5, <2>1, UpdatedArgsMeant DEF TemplateOK
<1>6. sent.sidecar = (d # AdmissionWebhooks /\ s.istio[d])
  BY <1>1, <1>4 DEF SidecarInjection
<1>7. ASSUME NEW k \in DOMAIN s.annotations[d]
      PROVE  k \in DOMAIN sent.annotations /\ sent.annotations[k] = s.annotations[d][k]
  <2>1. k \in DOMAIN PodAnnotations(d, s) /\ PodAnnotations(d, s)[k] = s.annotations[d][k]
    BY DEF PodAnnotations
  <2>2. QED
    BY <1>1, <1>4, <2>1 DEF MergeAnnotations
<1>8. s.resources[d] # Nil => sent.resources = s.resources[d]
  BY <1>1, <1>4
<1>9. d # AdmissionWebhooks =>
        /\ Range(s.env) \subseteq Range(sent.env)
        /\ Names(RequiredEnv) \subseteq Names(sent.env)
        /\ Once(s.env) => Once(sent.env)
  <2>1. d # AdmissionWebhooks => sent.env = SanitizedEnv(s.env)
    BY <1>1, <1>4 DEF UpdatedEnv
  <2>2. QED
    BY <2>1, SanitizedEnvFits DEF SpecOK
<1>10. sent.image = Image(d, Shipped[d].image, Overrides, Fips)
  BY <1>2, <1>4
<1>11. Fits(d, sent, s)
  BY <1>5, <1>6, <1>7, <1>8, <1>9, <1>10 DEF Fits
<1>12. QED
  BY <1>11 DEF sent, new

\* What users write is of these types.
LEMMA SpecsOK == \A s \in Specs : s # Nil => SpecOK(s)
<1>1. Logging \subseteq Configured
  BY DEF Logging, Configured, Text
<1>2. QED
  BY <1>1, SpecsAssumption DEF SpecOK

\* What the memory of each process holds: templates of Deployments.
MemoryInv ==
  /\ spec \in Specs \cup {Nil}
  /\ held = [m \in Managers |-> held[m]]
  /\ \A m \in Managers : \A d \in Deployments \cap ObjNames : TemplateOK(d, held[m][d])

\* What is loaded fits.
LEMMA ShippedFits == \A d \in Deployments \cap ObjNames : TemplateOK(d, Shipped[d])
<1>1. Args \subseteq Arg
  BY DEF Args, Arg, Text
<1>2. Seq(Args) \subseteq Seq(Arg)
  BY <1>1, SeqMonotonic
<1>3. \A d \in Deployments \cap ObjNames : ArgsFit(d, Shipped[d].args)
  BY <1>2, ShippedAssumption DEF ArgsFit, Flagged
<1>4. QED
  BY <1>3, ShippedAssumption DEF TemplateOK, Fields

\* The chain of update functions leaves Deployments that fit.
LEMMA UpdatedObjsFit ==
  ASSUME MemoryInv, spec # Nil, NEW m \in Managers, NEW d \in Deployments \cap ObjNames
  PROVE  /\ UpdatedObjs(held[m])[d] = UpdateDeployment(d, held[m][d], spec)
         /\ TemplateOK(d, UpdatedObjs(held[m])[d])
<1>1. UpdatedObjs(held[m])[d] = UpdateDeployment(d, held[m][d], spec)
  BY PolicyAssumption DEF UpdatedObjs
<1>2. SpecOK(spec) /\ TemplateOK(d, held[m][d])
  BY SpecsOK DEF MemoryInv
<1>3. QED
  BY <1>1, <1>2, UpdateDeploymentOK

\* Only start, end and the chain of update functions write the memory.
LEMMA MemoryStep == MemoryInv /\ [Next]_vars => MemoryInv'
<1> SUFFICES ASSUME MemoryInv, [Next]_vars
             PROVE  MemoryInv'
  OBVIOUS
<1>1. ASSUME NEW m \in Managers, held' = [held EXCEPT ![m] = Shipped], UNCHANGED spec
      PROVE  MemoryInv'
  BY <1>1, ShippedFits DEF MemoryInv
<1>2. ASSUME held' = held, spec' \in Specs \cup {Nil}
      PROVE  MemoryInv'
  BY <1>2 DEF MemoryInv
<1>3. ASSUME NEW m \in Managers, UpdateObjects(m)
      PROVE  MemoryInv'
  <2>1. spec # Nil /\ UNCHANGED spec /\ held' = [held EXCEPT ![m] = UpdatedObjs(held[m])]
    BY <1>3 DEF UpdateObjects, crVars
  <2>2. QED
    BY <2>1, UpdatedObjsFit DEF MemoryInv
<1>4. ASSUME NEW m \in Managers, Load(m) \/ Crash(m) \/ LoseLease(m)
      PROVE  MemoryInv'
  BY <1>1, <1>4 DEF Load, Crash, LoseLease, Exit, crVars
<1>5. ASSUME NEW m \in Managers,
             \/ SetupWithManager(m) \/ Lead(m) \/ Renew(m) \/ RenewFails(m)
             \/ ApplyObject(m) \/ ApplyObjectFails(m) \/ Uninstall(m)
      PROVE  MemoryInv'
  <2>1. held' = held /\ (spec' = spec \/ spec' = Nil)
    BY <1>5 DEF SetupWithManager, Lead, Renew, RenewFails, ApplyObject, ApplyObjectFails,
                Uninstall, crVars, memVars
  <2>2. QED
    BY <1>2, <2>1 DEF MemoryInv
<1>6. CASE Tick \/ EditKeda \/ UNCHANGED vars
  <2>1. held' = held /\ (spec' = spec \/ spec' \in Specs)
    BY <1>6 DEF Tick, EditKeda, vars, crVars, memVars
  <2>2. QED
    BY <1>2, <2>1 DEF MemoryInv
<1>7. QED
  BY <1>3, <1>4, <1>5, <1>6 DEF Next, Pass

\* Each process starts with what is shipped.
LEMMA MemoryInit == Init => MemoryInv
<1>1. ASSUME Init
      PROVE  held = [m \in Managers |-> Shipped] /\ spec \in Specs
  BY <1>1 DEF Init
<1>2. QED
  BY <1>1, ShippedFits DEF MemoryInv

\* However many passes with whatever specs write into the objects in memory, and
\* whoever starts, ends or leads: their arguments fit.
THEOREM MemoryInvariant == Spec => []MemoryInv
  BY MemoryInit, MemoryStep, PTL DEF Spec

\* LoggingConsistent for any number of processes, any manifest whose Deployments
\* ship each logging flag once (as keda.yaml does) and any specs users write:
\* updateDeploymentContainer0Args and updateMetricsServerLogToStderr never double
\* or lose a flag, and --logtostderr never contradicts the encoder they wrote.
THEOREM LoggingStaysConsistent == Spec => []LoggingConsistent
<1>1. MemoryInv => LoggingConsistent
  BY DEF MemoryInv, TemplateOK, ArgsFit, Flagged, StderrFits, LoggingConsistent
<1>2. QED
  BY <1>1, MemoryInvariant, PTL

-----------------------------------------------------------------------------
(* The work of a leader.                                                   *)

\* What a pass has left to do is part of the manifest.
WorkInv ==
  /\ dirty \in [Managers -> BOOLEAN]
  /\ todo \in [Managers -> Seq(Documents)]
  /\ failed = [m \in Managers |-> failed[m]]

\* The objects loaded, as a list of documents.
LEMMA LoadedDocuments == LoadFromPaths \in Seq(Documents)
<1>1. LoadFromPaths \in Seq(DocType) /\ Range(LoadFromPaths) = Documents
  BY LoadFromPathsLoads
<1>2. \A i \in 1 .. Len(LoadFromPaths) : LoadFromPaths[i] \in Documents
  BY <1>1 DEF Range
<1>3. QED
  BY <1>1, <1>2

\* A pass has the loaded objects to apply, or the rest of them.
LEMMA WorkStep == StartInv /\ WorkInv /\ [Next]_vars => WorkInv'
<1> SUFFICES ASSUME StartInv, WorkInv, [Next]_vars
             PROVE  WorkInv'
  OBVIOUS
<1>1. <<>> \in Seq(Documents)
  OBVIOUS
<1> DEFINE Lists == Seq(Documents)
<1>2. \A list \in Lists : list # <<>> => Tail(list) \in Lists
  OBVIOUS
<1>3. dirty \in [Managers -> BOOLEAN] /\ todo \in [Managers -> Lists]
  BY DEF WorkInv
<1>4. <<>> \in Lists /\ LoadFromPaths \in Lists
  BY LoadedDocuments
<1>f. failed' = [m \in Managers |-> failed'[m]]
  BY DEF WorkInv, Next, Pass, vars, workVars, Load, SetupWithManager, Crash, LoseLease, Exit, Lead,
         Renew, RenewFails, UpdateObjects, ApplyObject, ApplyObjectFails, Uninstall, Tick, EditKeda
<1> SUFFICES dirty' \in [Managers -> BOOLEAN] /\ todo' \in [Managers -> Lists]
  BY <1>f DEF WorkInv
<1> HIDE DEF Lists
<1>5. ASSUME NEW m \in Managers, Load(m) \/ SetupWithManager(m) \/ Renew(m) \/ RenewFails(m)
      PROVE  UNCHANGED workVars
  BY <1>5 DEF Load, SetupWithManager, Renew, RenewFails
<1>6. ASSUME NEW m \in Managers, Crash(m) \/ LoseLease(m)
      PROVE  dirty' \in [Managers -> BOOLEAN] /\ todo' \in [Managers -> Lists]
  BY <1>3, <1>4, <1>6 DEF Crash, LoseLease, Exit
<1>7. ASSUME NEW m \in Managers, Lead(m)
      PROVE  dirty' \in [Managers -> BOOLEAN] /\ todo' \in [Managers -> Lists]
  BY <1>3, <1>7 DEF Lead
<1>8. ASSUME NEW m \in Managers, UpdateObjects(m)
      PROVE  dirty' \in [Managers -> BOOLEAN] /\ todo' \in [Managers -> Lists]
  <2>1. objs[m] = LoadFromPaths
    BY <1>8 DEF StartInv, UpdateObjects
  <2>2. QED
    BY <1>3, <1>4, <1>8, <2>1 DEF UpdateObjects
<1>9. ASSUME NEW m \in Managers, ApplyObject(m)
      PROVE  dirty' \in [Managers -> BOOLEAN] /\ todo' \in [Managers -> Lists]
  <2>1. Tail(todo[m]) \in Lists /\ todo' = [todo EXCEPT ![m] = Tail(todo[m])]
    BY <1>2, <1>3, <1>9 DEF ApplyObject
  <2>2. todo' \in [Managers -> Lists]
    BY <1>3, <2>1
  <2>3. \E news : dirty' = [n \in Managers |-> dirty[n] \/ n \in news]
    <3> DEFINE doc == Head(todo[m])
               new == Sent(doc.name, held[m][doc.name])
               news == {n \in Noticing(doc) : ~Deployed(doc.name, new)}
    <3>1. dirty' = [n \in Managers |-> dirty[n] \/ (~Deployed(doc.name, new) /\ n \in Noticing(doc))]
      BY <1>9 DEF ApplyObject
    <3>2. \A n : n \in news <=> ~Deployed(doc.name, new) /\ n \in Noticing(doc)
      OBVIOUS
    <3> HIDE DEF doc, new, news
    <3>3. dirty' = [n \in Managers |-> dirty[n] \/ n \in news]
      BY <3>1, <3>2
    <3>4. QED
      BY <3>3
  <2>4. QED
    BY <1>3, <2>2, <2>3
<1>a. ASSUME NEW m \in Managers, ApplyObjectFails(m)
      PROVE  dirty' \in [Managers -> BOOLEAN] /\ todo' \in [Managers -> Lists]
  <2>1. Tail(todo[m]) \in Lists /\ todo' = [todo EXCEPT ![m] = Tail(todo[m])]
    BY <1>2, <1>3, <1>a DEF ApplyObjectFails
  <2>2. QED
    BY <1>3, <1>a, <2>1 DEF ApplyObjectFails
<1>10. ASSUME NEW m \in Managers, Uninstall(m)
       PROVE  UNCHANGED workVars
  BY <1>10 DEF Uninstall, workVars
<1>11. CASE EditKeda
  BY <1>3, <1>11 DEF EditKeda
<1>12. CASE Tick \/ UNCHANGED vars
  BY <1>3, <1>12 DEF Tick, vars, workVars
<1>13. QED
  BY <1>3, <1>5, <1>6, <1>7, <1>8, <1>9, <1>a, <1>10, <1>11, <1>12 DEF Next, Pass, workVars

\* The leader has taken the spec in.
Current(m) == m \in Leading /\ spec # Nil /\ ~deleting /\ ~dirty[m]

\* Its pass is still to apply object o.
Pending(m, o) == \E i \in DOMAIN todo[m] : todo[m][i].name = o

\* Its memory is what a pass with the spec leaves, and what is not in the cluster as
\* it has it, it is still to apply or failed to.
RestInv ==
  \A m \in Managers : Current(m) =>
    \A d \in Deployments \cap ObjNames :
      /\ UpdateDeployment(d, held[m][d], spec) = held[m][d]
      /\ Pending(m, d) \/ d \in failed[m] \/ Deployed(d, Sent(d, held[m][d]))

\* Steps that leave alone what concerns a leader, or have it look again.
LEMMA RestKept ==
  ASSUME RestInv,
         \A m \in Managers : Current(m)' =>
           /\ Current(m) /\ held'[m] = held[m] /\ todo'[m] = todo[m] /\ failed'[m] = failed[m]
           /\ spec' = spec /\ cluster' = cluster
  PROVE  RestInv'
  BY DEF RestInv, Pending, Deployed

\* A pass takes the spec in and has all objects to apply.
LEMMA UpdateObjectsRests ==
  ASSUME StartInv, MemoryInv, WorkInv, RestInv, NEW n \in Managers, UpdateObjects(n)
  PROVE  RestInv'
<1> SUFFICES ASSUME NEW m \in Managers, Current(m)', NEW d \in Deployments \cap ObjNames
             PROVE  /\ UpdateDeployment(d, held'[m][d], spec') = held'[m][d]
                    /\ Pending(m, d)' \/ d \in failed'[m] \/ Deployed(d, Sent(d, held[m][d]))'
  BY DEF RestInv
<1>1. /\ spec' = spec /\ spec # Nil /\ deleting' = deleting /\ phase' = phase /\ cluster' = cluster
      /\ held' = [held EXCEPT ![n] = UpdatedObjs(held[n])]
      /\ todo' = [todo EXCEPT ![n] = objs[n]]
      /\ dirty' = [dirty EXCEPT ![n] = FALSE]
      /\ failed' = [failed EXCEPT ![n] = {}]
      /\ phase[n] = "leading"
  BY DEF UpdateObjects, crVars
<1>2. CASE m # n
  <2>1. held'[m] = held[m] /\ todo'[m] = todo[m] /\ dirty'[m] = dirty[m] /\ failed'[m] = failed[m]
    BY <1>1, <1>2 DEF MemoryInv, WorkInv
  <2>2. Current(m)
    BY <1>1, <2>1 DEF Current, Leading
  <2>3. QED
    BY <1>1, <2>1, <2>2 DEF RestInv, Pending, Deployed
<1>3. CASE m = n
  <2>1. held'[m] = UpdatedObjs(held[m]) /\ todo'[m] = LoadFromPaths
    BY <1>1, <1>3 DEF MemoryInv, WorkInv, StartInv
  <2>2. held'[m][d] = UpdateDeployment(d, held[m][d], spec)
    BY <2>1, PolicyAssumption DEF UpdatedObjs
  <2>3. SpecOK(spec) /\ TemplateOK(d, held[m][d])
    BY <1>1, SpecsOK DEF MemoryInv
  <2>4. UpdateDeployment(d, held'[m][d], spec) = held'[m][d]
    BY <2>2, <2>3, UpdateDeploymentTwice
  <2>5. PICK doc \in Documents : doc.name = d
    BY DEF ObjNames
  <2>6. PICK i \in DOMAIN LoadFromPaths : LoadFromPaths[i] = doc
    BY LoadFromPathsLoads DEF Range
  <2>7. Pending(m, d)'
    BY <2>1, <2>5, <2>6 DEF Pending
  <2>8. QED
    BY <1>1, <2>4, <2>7
<1>4. QED
  BY <1>2, <1>3

\* A Patch that changes an object has every leader look again; one that changes none
\* leaves the cluster as it is.
LEMMA ApplyObjectRests ==
  ASSUME StartInv, WorkInv, RestInv, NEW n \in Managers, ApplyObject(n)
  PROVE  RestInv'
<1> SUFFICES ASSUME NEW m \in Managers, Current(m)', NEW d \in Deployments \cap ObjNames
             PROVE  /\ UpdateDeployment(d, held'[m][d], spec') = held'[m][d]
                    /\ Pending(m, d)' \/ d \in failed'[m] \/ Deployed(d, Sent(d, held[m][d]))'
  BY DEF RestInv
<1> DEFINE doc == Head(todo[n])
           new == Sent(doc.name, held[n][doc.name])
<1>1. /\ spec' = spec /\ deleting' = deleting /\ phase' = phase /\ held' = held /\ failed' = failed
      /\ todo[n] # <<>> /\ todo' = [todo EXCEPT ![n] = Tail(todo[n])]
      /\ cluster' = Put(doc.name, new)
      /\ dirty' = [k \in Managers |-> dirty[k] \/ (~Deployed(doc.name, new) /\ k \in Noticing(doc))]
  BY DEF ApplyObject, crVars, memVars
<1>2. todo[n] \in Seq(Documents) /\ todo \in [Managers -> Seq(Documents)]
  BY DEF WorkInv
<1>3. doc \in Documents
  BY <1>1, <1>2
<1>4. \A i \in DOMAIN todo[n] : i = 1 \/ (i - 1 \in DOMAIN Tail(todo[n]) /\ Tail(todo[n])[i - 1] = todo[n][i])
  BY <1>1, <1>2
<1>5. todo[n][1] = doc
  BY <1>1, <1>2
<1> HIDE DEF doc
<1>6. dirty'[m] <=> dirty[m] \/ (~Deployed(doc.name, new) /\ m \in Noticing(doc))
  BY <1>1
<1> HIDE DEF new
<1>7. ~dirty'[m] /\ m \in Leading /\ spec # Nil /\ ~deleting
  BY <1>1 DEF Current, Leading
<1>8. m \in Noticing(doc)
  <2>1. StartIsComplete
    BY StartInvCompletes
  <2>2. PICK i \in DOMAIN watched[m] :
          {j \in DOMAIN watched[m] : watched[m][j].kind = doc.kind
                                     /\ watched[m][j].apiVersion = doc.apiVersion} = {i}
    BY <1>3, <1>7, <2>1 DEF StartIsComplete, Leading
  <2>3. watched[m][i].kind = doc.kind /\ watched[m][i].apiVersion = doc.apiVersion
    BY <2>2
  <2>4. QED
    BY <1>7, <2>3 DEF Noticing, Range
<1>9. Current(m) /\ Deployed(doc.name, new)
  BY <1>6, <1>7, <1>8 DEF Current
<1>10. \A o \in DOMAIN cluster : o \in DOMAIN cluster' /\ cluster'[o] = cluster[o]
  BY <1>1, <1>9 DEF Put, Deployed
<1>11. UpdateDeployment(d, held[m][d], spec) = held[m][d]
  BY <1>9 DEF RestInv
<1>12. CASE d \in failed[m] \/ Deployed(d, Sent(d, held[m][d]))
  BY <1>1, <1>10, <1>11, <1>12 DEF Deployed
<1>13. CASE d \notin failed[m] /\ ~Deployed(d, Sent(d, held[m][d]))
  <2>1. PICK i \in DOMAIN todo[m] : todo[m][i].name = d
    BY <1>9, <1>13 DEF RestInv, Pending
  <2>2. CASE m # n
    <3>1. todo'[m] = todo[m]
      BY <1>1, <1>2, <2>2
    <3>2. QED
      BY <1>1, <1>11, <2>1, <3>1 DEF Pending
  <2>3. CASE m = n
    <3>1. i # 1
      BY <1>5, <1>9, <1>13, <2>1, <2>3 DEF new
    <3>2. todo'[m] = Tail(todo[n])
      BY <1>1, <1>2, <2>3
    <3>3. i - 1 \in DOMAIN todo'[m] /\ todo'[m][i - 1].name = d
      BY <1>4, <2>1, <2>3, <3>1, <3>2
    <3>4. QED
      BY <1>1, <1>11, <3>3 DEF Pending
  <2>4. QED
    BY <2>2, <2>3
<1>14. QED
  BY <1>12, <1>13

\* A Patch that fails: what it was to apply is among the failed ones.
LEMMA ApplyObjectFailsRests ==
  ASSUME WorkInv, RestInv, NEW n \in Managers, ApplyObjectFails(n)
  PROVE  RestInv'
<1> SUFFICES ASSUME NEW m \in Managers, Current(m)', NEW d \in Deployments \cap ObjNames
             PROVE  /\ UpdateDeployment(d, held'[m][d], spec') = held'[m][d]
                    /\ Pending(m, d)' \/ d \in failed'[m] \/ Deployed(d, Sent(d, held[m][d]))'
  BY DEF RestInv
<1>1. /\ UNCHANGED <<spec, deleting, phase, held, dirty, cluster>>
      /\ todo[n] # <<>> /\ todo' = [todo EXCEPT ![n] = Tail(todo[n])]
      /\ failed' = [failed EXCEPT ![n] = failed[n] \cup {Head(todo[n]).name}]
  BY DEF ApplyObjectFails, crVars, memVars
<1>2. todo \in [Managers -> Seq(Documents)] /\ failed = [k \in Managers |-> failed[k]]
  BY DEF WorkInv
<1>3. Current(m)
  BY <1>1 DEF Current, Leading
<1>4. UpdateDeployment(d, held[m][d], spec) = held[m][d]
  BY <1>3 DEF RestInv
<1>5. CASE d \in failed[m] \/ Deployed(d, Sent(d, held[m][d]))
  <2>1. failed[m] \subseteq failed'[m]
    BY <1>1, <1>2
  <2>2. QED
    BY <1>1, <1>4, <1>5, <2>1 DEF Deployed
<1>6. CASE Pending(m, d)
  <2>1. PICK i \in DOMAIN todo[m] : todo[m][i].name = d
    BY <1>6 DEF Pending
  <2>2. CASE m # n
    <3>1. todo'[m] = todo[m]
      BY <1>1, <1>2, <2>2
    <3>2. QED
      BY <1>1, <1>4, <2>1, <3>1 DEF Pending
  <2>3. CASE m = n /\ i = 1
    <3>1. Head(todo[n]) = todo[n][1]
      BY <1>1, <1>2
    <3>2. d \in failed'[m]
      BY <1>1, <1>2, <2>1, <2>3, <3>1
    <3>3. QED
      BY <1>1, <1>4, <3>2
  <2>4. CASE m = n /\ i # 1
    <3>1. todo'[m] = Tail(todo[m]) /\ todo[m] \in Seq(Documents) /\ todo[m] # <<>>
      BY <1>1, <1>2, <2>4
    <3>2. i - 1 \in DOMAIN Tail(todo[m]) /\ Tail(todo[m])[i - 1] = todo[m][i]
      BY <2>1, <2>4, <3>1
    <3>3. QED
      BY <1>1, <1>4, <2>1, <3>1, <3>2 DEF Pending
  <2>5. QED
    BY <2>2, <2>3, <2>4
<1>7. QED
  BY <1>3, <1>5, <1>6 DEF RestInv

\* RestInv is kept by every step.
LEMMA RestStep ==
  ASSUME StartInv, MemoryInv, WorkInv, RestInv, [Next]_vars
  PROVE  RestInv'
<1>t. phase \in [Managers -> Phases] /\ dirty \in [Managers -> BOOLEAN]
      /\ todo \in [Managers -> Seq(Documents)] /\ held = [m \in Managers |-> held[m]]
      /\ failed = [m \in Managers |-> failed[m]]
  BY DEF StartInv, WorkInv, MemoryInv
<1>1. ASSUME NEW n \in Managers, Load(n) \/ SetupWithManager(n) \/ Crash(n) \/ LoseLease(n)
      PROVE  RestInv'
  <2>1. /\ spec' = spec /\ deleting' = deleting /\ cluster' = cluster /\ phase'[n] # "leading"
        /\ \A m \in Managers \ {n} :
             /\ phase'[m] = phase[m] /\ held'[m] = held[m]
             /\ todo'[m] = todo[m] /\ dirty'[m] = dirty[m] /\ failed'[m] = failed[m]
    BY <1>1, <1>t DEF Load, SetupWithManager, Crash, LoseLease, Exit, crVars, workVars
  <2>2. QED
    BY <2>1, RestKept DEF Current, Leading
<1>2. ASSUME NEW n \in Managers, Lead(n)
      PROVE  RestInv'
  <2>1. /\ spec' = spec /\ deleting' = deleting /\ cluster' = cluster /\ dirty'[n]
        /\ held' = held /\ todo' = todo /\ failed' = failed
        /\ \A m \in Managers \ {n} : phase'[m] = phase[m] /\ dirty'[m] = dirty[m]
    BY <1>2, <1>t DEF Lead, crVars, memVars
  <2>2. QED
    BY <2>1, RestKept DEF Current, Leading
<1>3. ASSUME NEW n \in Managers, Renew(n) \/ RenewFails(n)
      PROVE  UNCHANGED <<spec, deleting, cluster, phase, held, workVars>>
  BY <1>3 DEF Renew, RenewFails, crVars, memVars
<1>4. ASSUME Tick \/ UNCHANGED vars
      PROVE  UNCHANGED <<spec, deleting, cluster, phase, held, workVars>>
  BY <1>4 DEF Tick, vars, crVars, memVars
<1>5. ASSUME UNCHANGED <<spec, deleting, cluster, phase, held, workVars>>
      PROVE  RestInv'
  BY <1>5, RestKept DEF Current, Leading, workVars
<1>6. ASSUME NEW n \in Managers, Uninstall(n)
      PROVE  RestInv'
  <2>1. spec' = Nil \/ deleting'
    BY <1>6 DEF Uninstall
  <2>2. QED
    BY <2>1 DEF RestInv, Current
<1>7. CASE EditKeda
  <2>1. phase' = phase /\ dirty' = [m \in Managers |-> dirty[m] \/ m \in Leading]
    BY <1>7 DEF EditKeda
  <2>2. \A m \in Managers : ~Current(m)'
    BY <2>1 DEF Current, Leading
  <2>3. QED
    BY <2>2 DEF RestInv
<1>8. QED
  BY <1>1, <1>2, <1>3, <1>4, <1>5, <1>6, <1>7, UpdateObjectsRests, ApplyObjectRests,
     ApplyObjectFailsRests DEF Next, Pass

\* All of it together.
ProcessInv == StartInv /\ MemoryInv /\ WorkInv /\ RestInv

\* A leader that has taken the spec in has in memory what a pass with it leaves, and
\* what it has in memory is in the cluster, or still to apply, or failed in this pass:
\* with any number of leaders that apply over each other, whatever each had in memory
\* before and whichever Patch fails.
THEOREM ProcessInvariant == Spec => []ProcessInv
<1>1. Init => StartInv /\ MemoryInv
  BY StartInit, MemoryInit
<1>2. Init => WorkInv /\ RestInv
  BY DEF Init, WorkInv, RestInv, Current, Leading
<1>3. ProcessInv /\ [Next]_vars => ProcessInv'
  BY StartStep, MemoryStep, WorkStep, RestStep DEF ProcessInv
<1>4. QED
  BY <1>1, <1>2, <1>3, PTL DEF Spec, ProcessInv

\* PassRepeats for any number of processes, any manifest and any specs: the chain of
\* update_objects.go is idempotent on every memory that passes and restarts can
\* leave, so repeated passes cannot grow the arguments or the environment.
THEOREM PassesRepeat == Spec => []PassRepeats
<1>1. ProcessInv => PassRepeats
  BY UpdatedObjsFit DEF ProcessInv, RestInv, Current, Leading, PassRepeats
<1>2. QED
  BY <1>1, ProcessInvariant, PTL

\* RestMeansFit for any number of processes, any manifest, any specs and any number of
\* failures: a leader without work has in the cluster, as the spec says, every
\* Deployment but those whose Patch failed in its last pass.  It rests on
\* StartIsComplete, as a kind without a watch would let a change go unnoticed, and on
\* what the chain writes being what the user means.
THEOREM LeadersRestOnFit == Spec => []RestMeansFit
<1>1. ProcessInv => RestMeansFit
  <2> SUFFICES ASSUME ProcessInv, NEW m \in Managers, AtRest(m),
                      NEW d \in (Deployments \cap ObjNames) \ failed[m]
               PROVE  d \in DOMAIN cluster /\ Fits(d, cluster[d], spec)
    BY DEF RestMeansFit, FitsHere
  <2>1. Current(m) /\ spec # Nil /\ todo[m] = <<>>
    BY DEF AtRest, Current
  <2>2. ~Pending(m, d)
    BY <2>1 DEF Pending
  <2>3. /\ UpdateDeployment(d, held[m][d], spec) = held[m][d]
        /\ d \in DOMAIN cluster /\ cluster[d] = Sent(d, held[m][d])
    BY <2>1, <2>2 DEF ProcessInv, RestInv, Deployed
  <2>4. SpecOK(spec) /\ TemplateOK(d, held[m][d])
    BY <2>1, SpecsOK DEF ProcessInv, MemoryInv
  <2>5. Fits(d, Sent(d, UpdateDeployment(d, held[m][d], spec)), spec)
    BY <2>4, UpdateDeploymentFits
  <2>6. QED
    BY <2>3, <2>5
<1>2. QED
  BY <1>1, ProcessInvariant, PTL

=============================================================================
