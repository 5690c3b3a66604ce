----------------------- MODULE ResourceMonitorProofs -----------------------
(* What goroutines, and requests that come late, can do to the targets: for *)
(* any bindings, specs, targets and Profiles.                               *)
EXTENDS ResourceMonitor, FiniteSetTheorems, TLAPS

(* Facts about the operators *)

\* The namespaces a goroutine goes through are those of its spec.
LEMMA NamespacesOfSpec ==
    ASSUME NEW spec \in Specs
    PROVE  NamespacesInOrder(spec) \in Seq(Namespaces)
<1>1. TargetNamespaces(spec, OwnNamespace) \subseteq Namespaces
  BY DEF Namespaces
<1>2. CASE spec.namespaces = <<>>
  BY <1>1, <1>2 DEF NamespacesInOrder, TargetNamespaces
<1>3. CASE spec.namespaces # <<>>
  <2>1. Range(spec.namespaces) \subseteq Namespaces
    BY <1>1, <1>3 DEF TargetNamespaces
  <2>2. spec.namespaces \in Seq(Namespaces)
    BY <2>1, SpecsNameAProfile
  <2>3. QED
    BY <1>3, <2>2 DEF NamespacesInOrder
<1>4. QED
  BY <1>2, <1>3

\* A List returns objects of the cluster as they are.
LEMMA ListedAreCurrent ==
    ASSUME TypeOK, NEW m \in Monitors, NEW n, NEW i \in Listed(m, n)
    PROVE  /\ i \in Item
           /\ i.version = version[i.target]
           /\ i.object = cluster[i.target]
<1>1. PICK t \in Targets : cluster[t] # Absent
              /\ i = [target |-> t, version |-> version[t], object |-> cluster[t]]
  BY DEF Listed, getResourcesInNamespace, Existing, Described
<1>2. cluster[t] \in Object /\ version[t] \in Nat
  BY <1>1 DEF TypeOK
<1>3. QED
  BY <1>1, <1>2 DEF Item


\* A List puts them in a sequence, every one of them.
LEMMA PageOfListed ==
    ASSUME TypeOK, NEW m \in Monitors, NEW n, NEW page \in SetToSeqs(Listed(m, n))
    PROVE  page \in Seq(Item) /\ Range(page) = Listed(m, n)
<1> DEFINE S == Listed(m, n)
           f == [i \in S |-> i.target]
<1>1. \A i \in S : i \in Item /\ i.version = version[i.target] /\ i.object = cluster[i.target]
  BY ListedAreCurrent
<1>2. \A i, j \in S : i.target = j.target => i = j
  BY <1>1 DEF Item
<1>3. f \in Injection(S, Targets)
  BY <1>1, <1>2 DEF Injection, IsInjective, Item
<1>4. IsFiniteSet(S)
  BY <1>3, FS_Injection, TargetsAreFinite
<1>5. Cardinality(S) \in Nat
  BY <1>4, FS_CardinalityType
<1> HIDE DEF S
<1>6. page \in [1..Cardinality(S) -> S]
  BY DEF SetToSeqs, S
<1>7. page \in Seq(S)
  BY <1>5, <1>6
<1>8. Range(page) = S
  <2>1. page \in Injection(1..Cardinality(S), S)
    BY <1>6 DEF SetToSeqs, Injection, IsInjective, S
  <2>2. IsFiniteSet(1..Cardinality(S)) /\ Cardinality(1..Cardinality(S)) = Cardinality(S)
    BY <1>5, FS_Interval
  <2>3. page \in Surjection(1..Cardinality(S), S)
    BY <1>4, <2>1, <2>2, FS_Injection
  <2>4. QED
    BY <1>6, <2>3 DEF Surjection, Range
<1>9. S \subseteq Item
  BY <1>1
<1>10. QED
  BY <1>7, <1>8, <1>9 DEF S

LEMMA RangeOfConcat ==
    ASSUME NEW S, NEW s \in Seq(S), NEW t \in Seq(S)
    PROVE  s \o t \in Seq(S) /\ Range(s \o t) = Range(s) \cup Range(t)
<1>1. s \o t \in Seq(S) /\ Len(s \o t) = Len(s) + Len(t)
  OBVIOUS
<1>2. \A k \in 1..Len(s) : (s \o t)[k] = s[k]
  OBVIOUS
<1>3. \A k \in 1..Len(t) : (s \o t)[Len(s) + k] = t[k]
  OBVIOUS
<1>4. Range(s \o t) \subseteq Range(s) \cup Range(t)
  <2>1. ASSUME NEW k \in 1..(Len(s) + Len(t)) PROVE (s \o t)[k] \in Range(s) \cup Range(t)
    <3>1. CASE k <= Len(s)
      BY <1>2, <3>1 DEF Range
    <3>2. CASE ~ (k <= Len(s))
      <4>1. k - Len(s) \in 1..Len(t) /\ k = Len(s) + (k - Len(s))
        BY <3>2
      <4>2. (s \o t)[k] = t[k - Len(s)]
        BY <1>3, <4>1
      <4>3. QED
        BY <4>1, <4>2 DEF Range
    <3>3. QED
      BY <3>1, <3>2
  <2>2. QED
    BY <1>1, <2>1 DEF Range
<1>5. Range(s) \cup Range(t) \subseteq Range(s \o t)
  <2>1. ASSUME NEW k \in 1..Len(s) PROVE s[k] \in Range(s \o t)
    BY <1>1, <1>2 DEF Range
  <2>2. ASSUME NEW k \in 1..Len(t) PROVE t[k] \in Range(s \o t)
    <3>1. Len(s) + k \in 1..(Len(s) + Len(t))
      OBVIOUS
    <3>2. QED
      BY <1>1, <1>3, <3>1 DEF Range
  <2>3. \A x \in Range(s) : x \in Range(s \o t)
    BY <2>1 DEF Range
  <2>4. \A x \in Range(t) : x \in Range(s \o t)
    BY <2>2 DEF Range
  <2>5. QED
    BY <2>3, <2>4
<1>6. QED
  BY <1>1, <1>4, <1>5

\* The elements of allResources.
LEMMA ItemsAreTyped ==
    ASSUME TypeOK, NEW m \in Monitors, NEW i \in Range(allResources[m])
    PROVE  /\ i \in Item /\ i.target \in Targets /\ i.version \in Nat
           /\ i.object \in Object /\ version[i.target] \in Nat
<1>1. allResources[m] \in Seq(Item)
  BY DEF TypeOK
<1>2. i \in Item
  BY <1>1 DEF Range
<1>3. QED
  BY <1>2 DEF Item, TypeOK

\* A List adds objects as they are to what was listed before.
LEMMA ListAddsCurrentObjects ==
    ASSUME TypeOK, NEW m \in Monitors, ListNamespace(m)
    PROVE  /\ allResources' \in [Monitors -> Seq(Item)]
           /\ \A k \in Monitors : k # m => allResources'[k] = allResources[k]
           /\ \A i \in Range(allResources'[m]) :
                  \/ i \in Range(allResources[m])
                  \/ i \in Item /\ i.version = version[i.target] /\ i.object = cluster[i.target]
           /\ Range(allResources'[m]) =
                  Range(allResources[m]) \cup Listed(m, Head(namespaces[m]))
<1>1. PICK page \in SetToSeqs(Listed(m, Head(namespaces[m]))) :
          allResources' = [allResources EXCEPT ![m] = @ \o page]
  BY DEF ListNamespace
<1>2. /\ page \in Seq(Item) /\ Range(page) = Listed(m, Head(namespaces[m]))
      /\ \A i \in Range(page) :
             i \in Item /\ i.version = version[i.target] /\ i.object = cluster[i.target]
  BY PageOfListed, ListedAreCurrent
<1>3. allResources \in [Monitors -> Seq(Item)]
  BY DEF TypeOK
<1>4. /\ allResources[m] \o page \in Seq(Item)
      /\ Range(allResources[m] \o page) = Range(allResources[m]) \cup Range(page)
  BY <1>2, <1>3, RangeOfConcat
<1>5. QED
  BY <1>1, <1>2, <1>3, <1>4

\* What the server stores is an object with the labels it had.
LEMMA ResultKeepsLabels ==
    ASSUME IInv, NEW r \in inFlight, Accepts(r)
    PROVE  /\ r.monitor \in Monitors /\ ItemOf(r) \in Range(allResources[r.monitor])
           /\ Target(r) \in Targets
           /\ cluster[Target(r)] \in Object
           /\ Result(r) \in Object
           /\ Result(r).labels = cluster[Target(r)].labels
           /\ Result(r).overlay = profile[r.monitor].patch
<1>1. r.monitor \in Monitors
  BY DEF IInv, TypeOK, Request
<1>2. ItemOf(r) \in Range(allResources[r.monitor])
  BY DEF IInv, ProgressInv, ItemOf, Range
<1>3. Target(r) \in Targets
  BY <1>1, <1>2, ItemsAreTyped DEF Target, IInv
<1>4. cluster[Target(r)] \in Object
  BY <1>3 DEF Accepts, IInv, TypeOK
<1>5. profile[r.monitor].patch \in Patches
  <2>1. profile[r.monitor] \in ProfileStates /\ profile[r.monitor].patch # NoPatch
    BY <1>1 DEF IInv, TypeOK, ProgressInv
  <2>2. QED
    BY <2>1 DEF Patches
<1>6. profile[r.monitor].strategy = "SSA" => cluster[Target(r)] = ItemOf(r).object
  BY <1>1, <1>2 DEF Accepts, IInv, SnapshotInv, Target
<1>7. Result(r) = [cluster[Target(r)] EXCEPT !.overlay = profile[r.monitor].patch]
  BY <1>6 DEF Result
<1>8. QED
  BY <1>1, <1>2, <1>3, <1>4, <1>5, <1>7 DEF Object

\* A request that is handled writes its target, or changes nothing.
LEMMA HandleStores ==
    ASSUME NEW r, Handle(r)
    PROVE  \/ UNCHANGED clusterVars /\ Result(r) = cluster[Target(r)]
           \/ Store(Target(r), Result(r), r.monitor)
BY DEF Handle

\* One more call counted.
LEMMA CountIsTyped ==
    ASSUME TypeOK, NEW m \in Monitors, NEW result \in {"updated", "failed"}, Count(m, result)
    PROVE  /\ results' \in [Monitors -> Seq({"updated", "failed"})]
           /\ \A k \in Monitors : k # m => results'[k] = results[k]
           /\ Len(results'[m]) = Turn(m)
           /\ \A k \in 1..Len(results[m]) : results'[m][k] = results[m][k]
           /\ results'[m][Turn(m)] = result
BY DEF TypeOK, Count, Turn

(* What a goroutine has listed and what it has yet to list *)

\* A namespace the goroutine has yet to go through is the next one or one after it.
LEMMA RangeOfTail ==
    ASSUME NEW S, NEW s \in Seq(S), s # <<>>
    PROVE  /\ \A n : n \in Range(s) <=> n = Head(s) \/ n \in Range(Tail(s))
           /\ Len(s) <= 1 => Tail(s) = <<>>
<1>1. /\ Len(s) \in Nat \ {0} /\ Len(Tail(s)) = Len(s) - 1 /\ Head(s) = s[1]
      /\ \A k \in 1..(Len(s) - 1) : Tail(s)[k] = s[k + 1]
      /\ DOMAIN s = 1..Len(s) /\ DOMAIN Tail(s) = 1..(Len(s) - 1)
      /\ Tail(s) \in Seq(S)
  OBVIOUS
<1>2. \A n : n \in Range(s) => n = Head(s) \/ n \in Range(Tail(s))
  <2> SUFFICES ASSUME NEW j \in 1..Len(s), j # 1 PROVE s[j] \in Range(Tail(s))
    BY <1>1 DEF Range
  <2>1. j - 1 \in 1..(Len(s) - 1) /\ s[j] = Tail(s)[j - 1]
    BY <1>1
  <2>2. QED
    BY <1>1, <2>1 DEF Range
<1>3. Head(s) \in Range(s)
  BY <1>1 DEF Range
<1>4. ASSUME NEW k \in 1..(Len(s) - 1) PROVE Tail(s)[k] \in Range(s)
  <2>1. k + 1 \in 1..Len(s) /\ Tail(s)[k] = s[k + 1]
    BY <1>1
  <2>2. QED
    BY <1>1, <2>1 DEF Range
<1>5. \A n : n \in Range(Tail(s)) => n \in Range(s)
  BY <1>1, <1>4 DEF Range
<1>6. Len(s) <= 1 => Tail(s) = <<>>
  BY <1>1
<1>7. QED
  BY <1>2, <1>3, <1>5, <1>6

\* A List of the namespace returns the target
Lists(m, n, t) ==
    /\ cluster[t] # Absent
    /\ SelectorIsValid(SpecOf(m).objectSelector)
    /\ KindOf[t] = m.gvk
    /\ n \in {NamespaceOf[t], EmptyValue}
    /\ SelectorMatches(SpecOf(m).objectSelector, cluster[t].labels)

\* The goroutine has the target, or has yet to list it
Covered(m, t) ==
    pc[m] \in {"list", "apply"} /\ ~IsCancelled(m) =>
        \A n \in TargetNamespaces(SpecOf(m), OwnNamespace) \ unlisted[m] :
            Lists(m, n, t) => \/ n \in Range(namespaces[m])
                              \/ \E i \in Range(allResources[m]) : i.target = t

\* Being listed is a matter of the target's own kind, namespace and labels.
LEMMA ReachedIsListed ==
    ASSUME NEW m \in Monitors, NEW t \in Targets
    PROVE  /\ \A searched : Reaches(m, t, searched) <=> \E n \in searched : Lists(m, n, t)
           /\ \A n : (\E i \in Listed(m, n) : i.target = t) <=> Lists(m, n, t)
<1>1. cluster[t] # Absent => Described(t) \in Existing
  BY DEF Existing
<1>2. /\ Described(t).name = t /\ Described(t).gvk = KindOf[t]
      /\ Described(t).namespace = NamespaceOf[t] /\ Described(t).labels = cluster[t].labels
  BY DEF Described
<1>3. \A o \in Existing : o = Described(o.name) /\ cluster[o.name] # Absent
  BY DEF Existing, Described
<1>4. \A n : cluster[t] # Absent =>
                 (Described(t) \in getResourcesInNamespace(Existing, m.gvk, n, SpecOf(m))
                      <=> Lists(m, n, t))
  BY <1>1, <1>2 DEF getResourcesInNamespace, InNamespace, Lists
<1>5. \A searched : Reaches(m, t, searched) <=> \E n \in searched : Lists(m, n, t)
  BY <1>4 DEF Reaches, Lists
<1>6. ASSUME NEW n PROVE (\E i \in Listed(m, n) : i.target = t) <=> Lists(m, n, t)
  <2> DEFINE found == getResourcesInNamespace(Existing, m.gvk, n, SpecOf(m))
             ItemFor(o) ==
                 [target |-> o.name, version |-> version[o.name], object |-> cluster[o.name]]
  <2>1. \A o \in found : o \in Existing
    BY DEF getResourcesInNamespace
  <2>2. Listed(m, n) = { ItemFor(o) : o \in found }
    BY DEF Listed
  <2>3. (\E o \in found : o.name = t) <=> Lists(m, n, t)
    BY <1>2, <1>3, <1>4, <2>1 DEF Lists
  <2>4. \A o : ItemFor(o).target = o.name
    OBVIOUS
  <2> HIDE DEF found, ItemFor
  <2>5. (\E i \in Listed(m, n) : i.target = t) <=> \E o \in found : o.name = t
    BY <2>2, <2>4
  <2>6. QED
    BY <2>3, <2>5
<1>7. QED
  BY <1>5, <1>6

\* The last part of CoverageInv, target by target.
LEMMA CoverageIsCovered ==
    ASSUME CoverageInv, NEW m \in Monitors, NEW t \in Targets \ touched
    PROVE  Covered(m, t)
<1> SUFFICES ASSUME pc[m] \in {"list", "apply"}, ~IsCancelled(m),
                    NEW n \in TargetNamespaces(SpecOf(m), OwnNamespace) \ unlisted[m],
                    Lists(m, n, t), n \notin Range(namespaces[m])
             PROVE  \E i \in Range(allResources[m]) : i.target = t
  BY DEF Covered
<1> DEFINE searched == Searched(m) \ (unlisted[m] \cup Range(namespaces[m]))
<1>1. n \in searched
  BY DEF Searched
<1> HIDE DEF searched
<1>2. Reaches(m, t, searched)
  BY <1>1, ReachedIsListed
<1>3. QED
  BY <1>2 DEF CoverageInv, searched

(* The invariant *)

\* The initial state satisfies the invariant.
LEMMA InitIInv == Init => IInv
<1> SUFFICES ASSUME Init PROVE IInv
  OBVIOUS
<1>1. TypeOK
  <2>1. cluster \in [Targets -> Object \cup {Absent}]
    BY DEF Init, Object
  <2>2. QED
    BY <2>1, BoundsAreNumbers DEF Init, TypeOK
<1>2. ProgressInv
  BY DEF Init, ProgressInv
<1>3. SnapshotInv
  BY DEF Init, SnapshotInv, Range
<1>4. OrderInv
  BY DEF Init, OrderInv, Created, Range
<1>5. AppliedInv
  BY DEF Init, AppliedInv, UpdatedMeansApplied
<1>6. CoverageInv
  BY DEF Init, CoverageInv
<1>7. QED
  BY <1>1, <1>2, <1>3, <1>4, <1>5, <1>6 DEF IInv

\* Types: one step per action.
LEMMA TypeStep == IInv /\ [Next]_vars => TypeOK'
<1> SUFFICES ASSUME IInv, [Next]_vars PROVE TypeOK'
  OBVIOUS
<1> USE DEF IInv, TypeOK, Goto, clusterVars, watchVars, userVars, progress
<1>1. ASSUME NEW t \in Targets, TargetChanges(t) PROVE TypeOK'
  <2>1. PICK object \in Object \cup {Absent} : Store(t, object, Nobody)
    <3>1. CASE UserCreates(t)
      <4>1. PICK labels \in LabelSets : Store(t, [labels |-> labels, overlay |-> Plain], Nobody)
        BY <3>1 DEF UserCreates
      <4>2. [labels |-> labels, overlay |-> Plain] \in Object
        BY DEF Object
      <4>3. QED
        BY <4>1, <4>2
    <3>2. CASE UserEdits(t)
      <4>1. PICK object \in [labels : LabelSets, overlay : {cluster[t].overlay, Plain}] :
                Store(t, object, Nobody)
        BY <3>2 DEF UserEdits
      <4>2. cluster[t] \in Object
        BY <3>2 DEF UserEdits
      <4>3. object \in Object
        BY <4>1, <4>2 DEF Object
      <4>4. QED
        BY <4>1, <4>3
    <3>3. CASE UserDeletes(t)
      BY <3>3 DEF UserDeletes
    <3>4. QED
      BY <1>1, <3>1, <3>2, <3>3 DEF TargetChanges
  <2>2. /\ cluster' \in [Targets -> Object \cup {Absent}]
        /\ version' \in [Targets -> Nat]
        /\ writer' \in [Targets -> Monitors \cup {Nobody}]
    BY <2>1 DEF Store
  <2>3. budget' \in 0..Budget
    BY <1>1, BoundsAreNumbers DEF TargetChanges, Spend
  <2>4. QED
    BY <1>1, <2>2, <2>3 DEF TargetChanges
<1>2. ASSUME NEW p \in ProfileNames, ProfileChanges(p) PROVE TypeOK'
  <2>1. budget' \in 0..Budget
    BY <1>2, BoundsAreNumbers DEF ProfileChanges, Spend
  <2>2. QED
    BY <1>2, <2>1 DEF ProfileChanges
<1>3. CASE AgentStep
  <2>1. ASSUME NEW b \in Bindings, NEW spec \in Specs, NEW w \in Watches, CreateWatches(w, b, spec)
        PROVE  /\ binding' \in [Watches -> [key : Bindings, spec : Specs] \cup {NoBinding}]
               /\ pc' \in [Monitors -> {"off", "profile", "list", "apply", "done"}]
    BY <2>1 DEF CreateWatches
  <2>2. binding' \in [Watches -> [key : Bindings, spec : Specs] \cup {NoBinding}]
        /\ pc' \in [Monitors -> {"off", "profile", "list", "apply", "done"}]
    BY <1>3, <2>1 DEF AgentStep, SetupInformersForBinding, StopInformersForBinding
  <2>3. cancelled' \subseteq Watches
    BY <1>3 DEF AgentStep, SetupInformersForBinding, StopInformersForBinding, WatchesOf
  <2>4. QED
    BY <1>3, <2>2, <2>3 DEF AgentStep
<1>4. ASSUME NEW m \in Monitors, GetProfile(m) PROVE TypeOK'
  <2>1. NamespacesInOrder(SpecOf(m)) \in Seq(Namespaces) /\ SpecOf(m).profileRef \in ProfileNames
    <3>1. Created(m.watch) /\ m.watch \in Watches
      BY <1>4 DEF GetProfile, ProgressInv, Monitors
    <3>2. SpecOf(m) \in Specs
      BY <3>1 DEF SpecOf, Created
    <3>3. QED
      BY <3>2, NamespacesOfSpec, SpecsNameAProfile
  <2>2. QED
    BY <1>4, <2>1 DEF GetProfile
<1>5. ASSUME NEW m \in Monitors, GetProfileFails(m) PROVE TypeOK'
  BY <1>5 DEF GetProfileFails
<1>6. ASSUME NEW m \in Monitors, ListNamespace(m) PROVE TypeOK'
  <2>1. namespaces' \in [Monitors -> Seq(Namespaces)]
    BY <1>6 DEF ListNamespace
  <2>2. allResources' \in [Monitors -> Seq(Item)]
    BY <1>6, ListAddsCurrentObjects
  <2>3. pc' \in [Monitors -> {"off", "profile", "list", "apply", "done"}]
    BY <1>6 DEF ListNamespace, AfterList
  <2>4. QED
    BY <1>6, <2>1, <2>2, <2>3 DEF ListNamespace
<1>7. ASSUME NEW m \in Monitors, ListFails(m) PROVE TypeOK'
  <2>1. namespaces' \in [Monitors -> Seq(Namespaces)]
    BY <1>7 DEF ListFails
  <2>2. Head(namespaces[m]) \in Namespaces
    BY <1>7 DEF ListFails
  <2>3. pc' \in [Monitors -> {"off", "profile", "list", "apply", "done"}]
    BY <1>7 DEF ListFails, AfterList
  <2>4. QED
    BY <1>7, <2>1, <2>2, <2>3 DEF ListFails
<1>8. ASSUME NEW m \in Monitors, ApplyProfile(m) PROVE TypeOK'
  <2>1. inFlight' \subseteq Request
    <3>1. [monitor |-> m, index |-> Turn(m)] \in Request
      BY DEF Request, Turn
    <3>2. QED
      BY <1>8, <3>1 DEF ApplyProfile, KeepTarget, FailEarly, Send
  <2>2. results' \in [Monitors -> Seq({"updated", "failed"})]
    <3>1. Count(m, "updated") \/ Count(m, "failed") \/ UNCHANGED results
      BY <1>8 DEF ApplyProfile, KeepTarget, FailEarly, Send
    <3>2. QED
      BY <3>1, CountIsTyped
  <2>3. QED
    BY <1>8, <2>1, <2>2 DEF ApplyProfile
<1>9. ASSUME NEW r \in inFlight, Handle(r) PROVE TypeOK'
  <2>1. r.monitor \in Monitors /\ Target(r) \in Targets /\ Result(r) \in Object
    BY <1>9, ResultKeepsLabels DEF Handle
  <2>2. /\ cluster' \in [Targets -> Object \cup {Absent}]
        /\ version' \in [Targets -> Nat]
        /\ writer' \in [Targets -> Monitors \cup {Nobody}]
    <3>1. CASE Store(Target(r), Result(r), r.monitor)
      BY <2>1, <3>1 DEF Store
    <3>2. CASE UNCHANGED clusterVars
      BY <3>2
    <3>3. QED
      BY <1>9, <3>1, <3>2, HandleStores
  <2>3. results' \in [Monitors -> Seq({"updated", "failed"})]
    <3>1. Count(r.monitor, "updated") \/ UNCHANGED results
      BY <1>9 DEF Handle
    <3>2. QED
      BY <2>1, <3>1, CountIsTyped
  <2>4. QED
    BY <1>9, <2>2, <2>3 DEF Handle
<1>10. ASSUME NEW r \in inFlight, Refuse(r) \/ GiveUp(r) PROVE TypeOK'
  <2>1. r.monitor \in Monitors
    BY DEF Request
  <2>2. results' \in [Monitors -> Seq({"updated", "failed"})]
    <3>1. Count(r.monitor, "failed") \/ UNCHANGED results
      BY <1>10 DEF Refuse, GiveUp
    <3>2. QED
      BY <2>1, <3>1, CountIsTyped
  <2>3. QED
    BY <1>10, <2>2 DEF Refuse, GiveUp
<1>11. CASE UNCHANGED vars
  BY <1>11 DEF vars
<1>12. QED
  BY <1>1, <1>2, <1>3, <1>4, <1>5, <1>6, <1>7, <1>8, <1>9, <1>10, <1>11
     DEF Next, Environment, MonitorStep, RequestStep

\* Where goroutines are, and what is in flight for them.
LEMMA ProgressStep == IInv /\ [Next]_vars => ProgressInv'
<1> SUFFICES ASSUME IInv, [Next]_vars PROVE ProgressInv'
  OBVIOUS
<1> USE DEF IInv, ProgressInv, Created
<1>1. ASSUME UNCHANGED <<progress, watchVars, results>>, inFlight' \subseteq inFlight
      PROVE  ProgressInv'
  BY <1>1 DEF progress, watchVars
<1>2. ASSUME NEW m \in Monitors, NEW result \in {"updated", "failed"}, Count(m, result),
             UNCHANGED <<progress, watchVars>>, inFlight' \subseteq inFlight,
             pc[m] = "apply", Turn(m) <= Len(allResources[m])
      PROVE  ProgressInv'
  <2>1. \A k \in Monitors : Len(results'[k]) <= Len(allResources[k])
    BY <1>2, CountIsTyped
  <2>2. \A k \in Monitors : pc[k] # "apply" => results'[k] = <<>>
    BY <1>2, CountIsTyped
  <2>3. QED
    BY <1>2, <2>1, <2>2 DEF progress, watchVars
<1>3. CASE Environment
  <2>1. UNCHANGED <<progress, watchVars, results>> /\ inFlight' = inFlight
    BY <1>3 DEF Environment, TargetChanges, ProfileChanges
  <2>2. QED
    BY <1>1, <2>1
<1>4. CASE AgentStep
  <2>1. UNCHANGED <<profile, allResources, results, inFlight>>
    BY <1>4 DEF AgentStep
  <2>2. CASE UNCHANGED <<binding, pc>>
    BY <2>1, <2>2
  <2>3. ASSUME NEW b \in Bindings, NEW spec \in Specs, NEW w \in Watches, CreateWatches(w, b, spec)
        PROVE  ProgressInv'
    <3>1. binding[w] = NoBinding
      BY <2>3 DEF CreateWatches, Watches
    <3>2. \A m \in Monitors : m.watch = w => pc[m] = "off"
      BY <3>1
    <3>3. binding' = [binding EXCEPT ![w] = [key |-> b, spec |-> spec]]
          /\ [key |-> b, spec |-> spec] # NoBinding
      BY <2>3, MarkersAreDistinct DEF CreateWatches
    <3>4. \A m \in Monitors : Created(m.watch) => Created(m.watch)'
      BY <3>3 DEF TypeOK
    <3>5. \A m \in Monitors : pc'[m] = pc[m] \/ (m.watch = w /\ pc'[m] = "profile")
      BY <2>3 DEF CreateWatches
    <3>6. \A m \in Monitors : m.watch = w => Created(m.watch)'
      BY <3>3 DEF TypeOK
    <3>7. \A r \in inFlight : r.monitor \in Monitors
      BY DEF TypeOK, Request
    <3>8. QED
      BY <2>1, <3>2, <3>4, <3>5, <3>6, <3>7
  <2>4. QED
    BY <1>4, <2>2, <2>3 DEF AgentStep, SetupInformersForBinding, StopInformersForBinding
<1>5. ASSUME NEW m \in Monitors,
             \/ GetProfile(m)
             \/ GetProfileFails(m)
             \/ ListNamespace(m)
             \/ ListFails(m)
      PROVE  ProgressInv'
  <2>1. UNCHANGED <<binding, inFlight, results>>
    BY <1>5 DEF GetProfile, GetProfileFails, ListNamespace, ListFails, watchVars
  <2>2. /\ pc[m] \in {"profile", "list"}
        /\ pc'[m] \in {"list", "apply", "done"}
        /\ pc' = [pc EXCEPT ![m] = pc'[m]]
    BY <1>5 DEF GetProfile, GetProfileFails, ListNamespace, ListFails, Goto, AfterList, TypeOK
  <2>3. \A k \in Monitors : k # m => profile'[k] = profile[k] /\ allResources'[k] = allResources[k]
    <3>1. CASE ListNamespace(m)
      BY <3>1, ListAddsCurrentObjects DEF ListNamespace
    <3>2. CASE GetProfile(m) \/ GetProfileFails(m) \/ ListFails(m)
      BY <3>2 DEF GetProfile, GetProfileFails, ListFails, TypeOK
    <3>3. QED
      BY <1>5, <3>1, <3>2
  <2>4. pc'[m] \in {"list", "apply"} => profile'[m] # Absent
    BY <1>5 DEF GetProfile, GetProfileFails, ListNamespace, ListFails, Goto, TypeOK
  <2>5. pc'[m] = "done" => allResources'[m] = <<>>
    BY <1>5 DEF GetProfile, GetProfileFails, ListNamespace, ListFails, Goto, AfterList, TypeOK
  <2>6. results[m] = <<>> /\ Len(results'[m]) <= Len(allResources'[m])
    <3>1. results[m] = <<>>
      BY <2>2
    <3>2. allResources'[m] \in Seq(Item)
      BY TypeStep DEF TypeOK
    <3>3. QED
      BY <2>1, <3>1, <3>2
  <2>7. \A r \in inFlight : r.monitor \in Monitors /\ r.monitor # m
    BY <2>2 DEF TypeOK, Request
  <2>8. \A k \in Monitors : k # m => pc'[k] = pc[k]
    BY <2>2 DEF TypeOK
  <2>9. Created(m.watch)
    BY <2>2
  <2>10. \A k \in Monitors :
             /\ pc'[k] # "off" => Created(k.watch)
             /\ pc'[k] \in {"list", "apply"} => profile'[k] # Absent
             /\ pc'[k] \notin {"list", "apply"} => allResources'[k] = <<>>
             /\ pc'[k] # "apply" => results[k] = <<>>
             /\ Len(results[k]) <= Len(allResources'[k])
    BY <2>1, <2>2, <2>3, <2>4, <2>5, <2>6, <2>8, <2>9
  <2>11. \A r \in inFlight :
             /\ pc'[r.monitor] = "apply"
             /\ profile'[r.monitor].patch # NoPatch
             /\ r.index \in DOMAIN allResources'[r.monitor]
    BY <2>3, <2>7, <2>8
  <2>12. QED
    BY <2>1, <2>10, <2>11
<1>6. ASSUME NEW m \in Monitors, ApplyProfile(m) PROVE ProgressInv'
  <2>1. /\ UNCHANGED <<progress, watchVars>>
        /\ pc[m] = "apply" /\ Turn(m) <= Len(allResources[m])
    BY <1>6 DEF ApplyProfile
  <2>2. PICK item : KeepTarget(m, item) \/ FailEarly(m, item) \/ Send(m, item)
    BY <1>6 DEF ApplyProfile
  <2>3. CASE Send(m, item)
    <3>1. profile[m].patch # NoPatch
          /\ inFlight' = inFlight \cup {[monitor |-> m, index |-> Turn(m)]}
          /\ UNCHANGED results
      BY <2>3 DEF Send
    <3>2. Turn(m) \in DOMAIN allResources[m]
      <4>1. allResources[m] \in Seq(Item) /\ results[m] \in Seq({"updated", "failed"})
        BY DEF TypeOK
      <4>2. QED
        BY <2>1, <4>1 DEF Turn
    <3>3. QED
      BY <2>1, <3>1, <3>2 DEF progress, watchVars
  <2>4. CASE KeepTarget(m, item) \/ FailEarly(m, item)
    <3>1. UNCHANGED inFlight /\ \E result \in {"updated", "failed"} : Count(m, result)
      BY <2>4 DEF KeepTarget, FailEarly
    <3>2. QED
      BY <1>2, <2>1, <3>1
  <2>5. QED
    BY <2>2, <2>3, <2>4
<1>7. ASSUME NEW r \in inFlight, Handle(r) \/ Refuse(r) \/ GiveUp(r) PROVE ProgressInv'
  <2>1. UNCHANGED <<progress, watchVars>> /\ inFlight' \subseteq inFlight
    BY <1>7 DEF Handle, Refuse, GiveUp
  <2>2. r.monitor \in Monitors /\ pc[r.monitor] = "apply"
    BY DEF TypeOK, Request
  <2>3. IsAwaited(r) => Turn(r.monitor) <= Len(allResources[r.monitor])
    BY <2>2 DEF IsAwaited, TypeOK
  <2>4. \/ UNCHANGED results
        \/ IsAwaited(r) /\ \E result \in {"updated", "failed"} : Count(r.monitor, result)
    BY <1>7 DEF Handle, Refuse, GiveUp
  <2>5. QED
    BY <1>1, <1>2, <2>1, <2>2, <2>3, <2>4
<1>8. CASE UNCHANGED vars
  BY <1>1, <1>8 DEF vars
<1>9. QED
  BY <1>3, <1>4, <1>5, <1>6, <1>7, <1>8 DEF Next, MonitorStep, RequestStep

\* Only the resources a goroutine lists and the objects of the cluster matter to a snapshot.
LEMMA SnapshotStep == IInv /\ [Next]_vars => SnapshotInv'
<1> SUFFICES ASSUME IInv, [Next]_vars PROVE SnapshotInv'
  OBVIOUS
<1> USE DEF IInv, SnapshotInv
<1>1. ASSUME UNCHANGED <<cluster, version, allResources>> PROVE SnapshotInv'
  BY <1>1
<1>2. ASSUME NEW t \in Targets, NEW object, NEW who, Store(t, object, who),
             UNCHANGED allResources
      PROVE  SnapshotInv'
  <2>1. /\ cluster' = [cluster EXCEPT ![t] = object]
        /\ version' = [version EXCEPT ![t] = @ + 1]
    BY <1>2 DEF Store
  <2>2. ASSUME NEW m \in Monitors, NEW i \in Range(allResources[m])
        PROVE  /\ i.version <= version'[i.target]
               /\ i.version = version'[i.target] => cluster'[i.target] = i.object
    <3>1. i.target \in Targets /\ i.version \in Nat /\ version[t] \in Nat
      BY <2>2, ItemsAreTyped DEF TypeOK
    <3>2. i.version <= version[i.target]
      BY <2>2
    <3>3. CASE i.target = t
      BY <2>1, <3>1, <3>2, <3>3 DEF TypeOK
    <3>4. CASE i.target # t
      BY <2>1, <2>2, <3>1, <3>4 DEF TypeOK
    <3>5. QED
      BY <3>3, <3>4
  <2>3. QED
    BY <1>2, <2>2
<1>3. ASSUME NEW t \in Targets, TargetChanges(t) PROVE SnapshotInv'
  <2>1. UNCHANGED allResources
    BY <1>3 DEF TargetChanges, progress
  <2>2. \E object : Store(t, object, Nobody)
    BY <1>3 DEF TargetChanges, UserCreates, UserEdits, UserDeletes
  <2>3. QED
    BY <1>2, <2>1, <2>2
<1>4. ASSUME NEW p \in ProfileNames, ProfileChanges(p) PROVE SnapshotInv'
  BY <1>1, <1>4 DEF ProfileChanges, clusterVars, progress
<1>5. CASE AgentStep
  BY <1>1, <1>5 DEF AgentStep, clusterVars
<1>6. ASSUME NEW m \in Monitors, ListNamespace(m) PROVE SnapshotInv'
  <2>1. UNCHANGED <<cluster, version>>
    BY <1>6 DEF ListNamespace, clusterVars
  <2>2. ASSUME NEW i \in Range(allResources'[m])
        PROVE  i.version <= version[i.target] /\ (i.version = version[i.target] => cluster[i.target] = i.object)
    <3>1. CASE i \in Range(allResources[m])
      BY <3>1
    <3>2. CASE i \in Item /\ i.version = version[i.target] /\ i.object = cluster[i.target]
      BY <3>2 DEF Item
    <3>3. QED
      BY <1>6, <3>1, <3>2, ListAddsCurrentObjects
  <2>3. \A k \in Monitors : k # m => allResources'[k] = allResources[k]
    BY <1>6, ListAddsCurrentObjects
  <2>4. QED
    BY <2>1, <2>2, <2>3
<1>7. ASSUME NEW m \in Monitors, GetProfile(m) \/ GetProfileFails(m) \/ ListFails(m) \/ ApplyProfile(m)
      PROVE  SnapshotInv'
  BY <1>1, <1>7 DEF GetProfile, GetProfileFails, ListFails, ApplyProfile, clusterVars, progress
<1>8. ASSUME NEW r \in inFlight, Handle(r) PROVE SnapshotInv'
  <2>1. UNCHANGED allResources /\ Target(r) \in Targets
    BY <1>8, ResultKeepsLabels DEF Handle, progress
  <2>2. UNCHANGED clusterVars \/ Store(Target(r), Result(r), r.monitor)
    BY <1>8 DEF Handle
  <2>3. QED
    BY <1>1, <1>2, <2>1, <2>2 DEF clusterVars
<1>9. ASSUME NEW r \in inFlight, Refuse(r) \/ GiveUp(r) PROVE SnapshotInv'
  BY <1>1, <1>9 DEF Refuse, GiveUp, clusterVars, progress
<1>10. CASE UNCHANGED vars
  BY <1>1, <1>10 DEF vars, clusterVars, progress
<1>11. QED
  BY <1>3, <1>4, <1>5, <1>6, <1>7, <1>8, <1>9, <1>10 DEF Next, Environment, MonitorStep, RequestStep

\* The watches are numbered as they are created, and writers follow that order.
LEMMA OrderStep == IInv /\ [Next]_vars => OrderInv'
<1> SUFFICES ASSUME IInv, [Next]_vars PROVE OrderInv'
  OBVIOUS
<1> USE DEF IInv, OrderInv, Created
<1>1. ASSUME UNCHANGED <<version, writer, watchVars, allResources>> PROVE OrderInv'
  BY <1>1 DEF watchVars
<1>2. ASSUME NEW t \in Targets, NEW object, NEW who, Store(t, object, who),
             UNCHANGED <<watchVars, allResources>>,
             who # Nobody => Created(who.watch)
      PROVE  OrderInv'
  <2>1. /\ version' = [version EXCEPT ![t] = @ + 1]
        /\ writer' = [writer EXCEPT ![t] = who]
        /\ UNCHANGED <<binding, cancelled>>
    BY <1>2 DEF Store, watchVars
  <2>2. \A u \in Targets : writer'[u] # Nobody => Created(writer'[u].watch)
    BY <1>2, <2>1 DEF TypeOK
  <2>3. ASSUME NEW m \in Monitors, NEW i \in Range(allResources[m])
        PROVE  /\ i.target \in Targets
               /\ i.target = t => i.version # version'[i.target]
               /\ i.target # t => /\ version'[i.target] = version[i.target]
                                  /\ writer'[i.target] = writer[i.target]
    <3>1. i.target \in Targets /\ i.version \in Nat /\ version[t] \in Nat
      BY <2>3, ItemsAreTyped DEF TypeOK
    <3>2. i.version <= version[i.target]
      BY <2>3 DEF SnapshotInv
    <3>3. QED
      BY <2>1, <3>1, <3>2 DEF TypeOK
  <2>4. QED
    BY <1>2, <2>1, <2>2, <2>3
<1>3. ASSUME NEW t \in Targets, TargetChanges(t) PROVE OrderInv'
  <2>1. UNCHANGED <<watchVars, allResources>>
    BY <1>3 DEF TargetChanges, progress
  <2>2. \E object : Store(t, object, Nobody)
    BY <1>3 DEF TargetChanges, UserCreates, UserEdits, UserDeletes
  <2>3. QED
    BY <1>2, <2>1, <2>2
<1>4. ASSUME NEW p \in ProfileNames, ProfileChanges(p) PROVE OrderInv'
  BY <1>1, <1>4 DEF ProfileChanges, clusterVars, progress
<1>5. CASE AgentStep
  <2>1. UNCHANGED <<version, writer, allResources>>
    BY <1>5 DEF AgentStep, clusterVars
  <2>2. CASE UNCHANGED binding /\ cancelled \subseteq cancelled'
    BY <2>1, <2>2
  <2>3. ASSUME NEW b \in Bindings, NEW spec \in Specs, NEW w \in Watches,
               CreateWatches(w, b, spec), cancelled' = cancelled \cup WatchesOf(b)
        PROVE  OrderInv'
    <3>1. { v \in Watches : Created(v) } = 1..(w - 1) /\ w \in Nat
      BY <2>3 DEF CreateWatches, Watches
    <3>2. /\ binding' = [binding EXCEPT ![w] = [key |-> b, spec |-> spec]]
          /\ [key |-> b, spec |-> spec] # NoBinding
      BY <2>3, MarkersAreDistinct DEF CreateWatches
    <3>3. \A v \in Watches : Created(v) <=> v \in 1..(w - 1)
      BY <3>1
    <3>4. \A v \in Watches : v # w => binding'[v] = binding[v]
      BY <3>2 DEF TypeOK
    <3>5. binding'[w] = [key |-> b, spec |-> spec]
      BY <2>3, <3>2 DEF TypeOK
    <3>6. \A v \in Watches : Created(v)' <=> v \in 1..w
      BY <3>1, <3>2, <3>3, <3>4, <3>5 DEF Watches
    <3>7. \A u, v \in Watches : u < v /\ Created(v)' => Created(u)'
      BY <3>1, <3>6 DEF Watches
    <3>8. ASSUME NEW u \in Watches, NEW v \in Watches, u < v, Created(v)',
                 binding'[u].key = binding'[v].key
          PROVE  u \in cancelled'
      <4>1. Created(u) /\ u # w /\ binding'[u] = binding[u]
        BY <3>1, <3>3, <3>4, <3>6, <3>8 DEF Watches
      <4>2. CASE v = w
        BY <2>3, <3>5, <3>8, <4>1, <4>2 DEF WatchesOf
      <4>3. CASE v # w
        BY <2>3, <3>4, <3>8, <4>1, <4>3
      <4>4. QED
        BY <4>2, <4>3
    <3>9. \A t \in Targets : writer[t] # Nobody =>
              /\ writer[t].watch \in Watches
              /\ Created(writer[t].watch)
              /\ writer[t].watch # w
      BY <3>1, <3>3 DEF TypeOK, Monitors, Watches
    <3>10. ASSUME NEW m \in Monitors, NEW i \in Range(allResources[m])
           PROVE  m.watch \in Watches /\ m.watch # w /\ i.target \in Targets
      <4>1. allResources[m] # <<>>
        BY <3>10 DEF Range
      <4>2. Created(m.watch)
        BY <4>1 DEF ProgressInv, TypeOK
      <4>3. QED
        BY <3>1, <3>3, <3>10, <4>2, ItemsAreTyped DEF Watches, Monitors
    <3>11. \A t \in Targets : writer[t] # Nobody => binding'[writer[t].watch] = binding[writer[t].watch]
      BY <3>4, <3>9
    <3>12. \A m \in Monitors : \A i \in Range(allResources[m]) :
               binding'[m.watch] = binding[m.watch] /\ i.target \in Targets
      BY <3>4, <3>10
    <3>13. \A m \in Monitors : \A i \in Range(allResources[m]) :
               LET old == writer[i.target]
               IN  i.version = version[i.target] /\ old # Nobody =>
                       (binding'[m.watch].key = binding'[old.watch].key => m.watch >= old.watch)
      BY <3>11, <3>12
    <3>14. QED
      BY <2>1, <3>7, <3>8, <3>9, <3>11, <3>13
  <2>4. QED
    BY <1>5, <2>2, <2>3 DEF AgentStep, SetupInformersForBinding, StopInformersForBinding
<1>6. ASSUME NEW m \in Monitors, ListNamespace(m) PROVE OrderInv'
  <2>1. /\ UNCHANGED <<version, writer, binding, cancelled>>
        /\ m.watch \notin cancelled
        /\ pc[m] = "list"
    BY <1>6 DEF ListNamespace, clusterVars, watchVars, IsCancelled
  <2>2. Created(m.watch) /\ m.watch \in Watches
    BY <2>1 DEF ProgressInv, Monitors
  <2>3. ASSUME NEW i \in Item, writer[i.target] # Nobody,
               binding[m.watch].key = binding[writer[i.target].watch].key
        PROVE  m.watch >= writer[i.target].watch
    <3>1. i.target \in Targets
      BY DEF Item
    <3>2. writer[i.target].watch \in Watches /\ Created(writer[i.target].watch)
      BY <2>3, <3>1 DEF TypeOK, Monitors
    <3>3. ~ (m.watch < writer[i.target].watch)
      BY <2>1, <2>2, <2>3, <3>2
    <3>4. QED
      BY <2>2, <3>2, <3>3 DEF Watches
  <2>4. ASSUME NEW i \in Range(allResources'[m]), i.version = version[i.target],
               writer[i.target] # Nobody,
               binding[m.watch].key = binding[writer[i.target].watch].key
        PROVE  m.watch >= writer[i.target].watch
    BY <1>6, <2>3, <2>4, ListAddsCurrentObjects
  <2>5. \A k \in Monitors : k # m => allResources'[k] = allResources[k]
    BY <1>6, ListAddsCurrentObjects
  <2>6. QED
    BY <2>1, <2>4, <2>5
<1>7. ASSUME NEW m \in Monitors, GetProfile(m) \/ GetProfileFails(m) \/ ListFails(m) \/ ApplyProfile(m)
      PROVE  OrderInv'
  BY <1>1, <1>7 DEF GetProfile, GetProfileFails, ListFails, ApplyProfile, clusterVars, progress
<1>8. ASSUME NEW r \in inFlight, Handle(r) PROVE OrderInv'
  <2>1. UNCHANGED <<watchVars, allResources>> /\ Target(r) \in Targets
    BY <1>8, ResultKeepsLabels DEF Handle, progress
  <2>2. UNCHANGED clusterVars \/ Store(Target(r), Result(r), r.monitor)
    BY <1>8 DEF Handle
  <2>3. Created(r.monitor.watch)
    BY <1>8, ResultKeepsLabels DEF Handle, ProgressInv
  <2>4. QED
    BY <1>1, <1>2, <2>1, <2>2, <2>3 DEF clusterVars
<1>9. ASSUME NEW r \in inFlight, Refuse(r) \/ GiveUp(r) PROVE OrderInv'
  BY <1>1, <1>9 DEF Refuse, GiveUp, clusterVars, progress
<1>10. CASE UNCHANGED vars
  BY <1>1, <1>10 DEF vars, clusterVars, progress
<1>11. QED
  BY <1>3, <1>4, <1>5, <1>6, <1>7, <1>8, <1>9, <1>10 DEF Next, Environment, MonitorStep, RequestStep

\* Who wrote a target last, and what goroutines count.
LEMMA AppliedStep == IInv /\ [Next]_vars => AppliedInv'
<1> SUFFICES ASSUME IInv, [Next]_vars PROVE AppliedInv'
  OBVIOUS
<1> USE DEF IInv, AppliedInv, UpdatedMeansApplied
<1> DEFINE Written(t) ==
               writer[t] # Nobody =>
                   /\ pc[writer[t]] = "apply"
                   /\ cluster[t] # Absent
                   /\ cluster[t].overlay = profile[writer[t]].patch
           IsTrue(m, k) ==
               LET i == allResources[m][k]
               IN  results[m][k] = "updated" /\ (version[i.target] = i.version \/ writer[i.target] = m)
                       => cluster[i.target] # Absent /\ cluster[i.target].overlay = profile[m].patch
<1>0. SUFFICES /\ \A t \in Targets : Written(t)'
               /\ \A m \in Monitors : \A k \in DOMAIN results'[m] : IsTrue(m, k)'
  OBVIOUS
<1>1. /\ \A t \in Targets : Written(t)
      /\ \A m \in Monitors : \A k \in DOMAIN results[m] : IsTrue(m, k)
  OBVIOUS
<1>2. ASSUME NEW m \in Monitors, NEW k \in DOMAIN results[m]
      PROVE  /\ pc[m] = "apply" /\ k \in DOMAIN allResources[m]
             /\ allResources[m][k] \in Range(allResources[m])
             /\ allResources[m][k].target \in Targets
  <2>1. allResources[m] \in Seq(Item) /\ results[m] \in Seq({"updated", "failed"})
    BY DEF TypeOK
  <2>2. Len(results[m]) <= Len(allResources[m]) /\ results[m] # <<>>
    BY <2>1 DEF ProgressInv
  <2>3. k \in DOMAIN allResources[m]
    BY <2>1, <2>2
  <2>4. QED
    BY <2>2, <2>3, ItemsAreTyped DEF ProgressInv, Range
<1>3. \A t \in Targets : writer[t] # Nobody => writer[t] \in Monitors
  BY DEF TypeOK
<1>4. ASSUME UNCHANGED <<clusterVars, profile, allResources, results>>,
             \A m \in Monitors : pc[m] = "apply" => pc'[m] = "apply"
      PROVE  /\ \A t \in Targets : Written(t)'
             /\ \A m \in Monitors : \A k \in DOMAIN results'[m] : IsTrue(m, k)'
  BY <1>1, <1>3, <1>4 DEF clusterVars
<1>5. ASSUME NEW t \in Targets, NEW object, NEW who, Store(t, object, who),
             UNCHANGED progress,
             who # Nobody => /\ pc[who] = "apply"
                             /\ object # Absent /\ object.overlay = profile[who].patch
      PROVE  /\ \A u \in Targets : Written(u)'
             /\ \A m \in Monitors : \A k \in DOMAIN results[m] :
                    results'[m][k] = results[m][k] => IsTrue(m, k)'
  <2>1. /\ cluster' = [cluster EXCEPT ![t] = object]
        /\ version' = [version EXCEPT ![t] = @ + 1]
        /\ writer' = [writer EXCEPT ![t] = who]
        /\ UNCHANGED <<pc, profile, allResources>>
    BY <1>5 DEF Store, progress
  <2>2. cluster'[t] = object /\ writer'[t] = who /\ version'[t] = version[t] + 1 /\ version[t] \in Nat
    BY <2>1 DEF TypeOK
  <2>3. \A u \in Targets : u # t =>
            cluster'[u] = cluster[u] /\ writer'[u] = writer[u] /\ version'[u] = version[u]
    BY <2>1 DEF TypeOK
  <2>4. ASSUME NEW u \in Targets PROVE Written(u)'
    BY <1>1, <1>5, <2>1, <2>2, <2>3
  <2>5. ASSUME NEW m \in Monitors, NEW k \in DOMAIN results[m], results'[m][k] = results[m][k]
        PROVE  IsTrue(m, k)'
    <3> DEFINE i == allResources[m][k]
    <3>1. i \in Range(allResources[m]) /\ i.target \in Targets /\ i.version \in Nat
      BY <1>2, ItemsAreTyped
    <3>2. CASE i.target # t
      <4>1. /\ cluster'[i.target] = cluster[i.target] /\ writer'[i.target] = writer[i.target]
            /\ version'[i.target] = version[i.target]
        BY <2>3, <3>1, <3>2
      <4>2. allResources'[m][k] = i /\ profile'[m] = profile[m] /\ IsTrue(m, k)
        BY <1>1, <2>1
      <4>3. QED
        BY <2>5, <4>1, <4>2
    <3>3. CASE i.target = t
      <4>1. i.version <= version[t]
        BY <3>1, <3>3 DEF SnapshotInv
      <4>2. version'[t] # i.version
        BY <2>2, <3>1, <4>1
      <4>3. CASE who # m
        BY <2>1, <2>2, <3>3, <4>2, <4>3
      <4>4. CASE who = m
        <5>1. m # Nobody
          BY MarkersAreDistinct
        <5>2. QED
          BY <1>5, <2>1, <2>2, <3>3, <4>4, <5>1
      <4>5. QED
        BY <4>3, <4>4
    <3>4. QED
      BY <3>2, <3>3
  <2>6. QED
    BY <2>4, <2>5
<1>6. ASSUME NEW t \in Targets, TargetChanges(t)
      PROVE  AppliedInv'
  <2>1. UNCHANGED <<progress, results>>
    BY <1>6 DEF TargetChanges
  <2>2. \E object : Store(t, object, Nobody)
    BY <1>6 DEF TargetChanges, UserCreates, UserEdits, UserDeletes
  <2>3. QED
    BY <1>5, <2>1, <2>2
<1>7. ASSUME NEW p \in ProfileNames, ProfileChanges(p) PROVE AppliedInv'
  BY <1>4, <1>7 DEF ProfileChanges, progress
<1>8. CASE AgentStep
  <2>1. UNCHANGED <<clusterVars, profile, allResources, results>>
    BY <1>8 DEF AgentStep
  <2>2. ASSUME NEW b \in Bindings, NEW spec \in Specs, NEW w \in Watches, CreateWatches(w, b, spec),
               NEW m \in Monitors, pc[m] = "apply"
        PROVE  pc'[m] = "apply"
    <3>1. binding[w] = NoBinding
      BY <2>2 DEF CreateWatches, Watches
    <3>2. m.watch # w
      BY <2>2, <3>1 DEF ProgressInv, Created
    <3>3. QED
      BY <2>2, <3>2 DEF CreateWatches
  <2>3. \A m \in Monitors : pc[m] = "apply" => pc'[m] = "apply"
    BY <1>8, <2>2 DEF AgentStep, SetupInformersForBinding, StopInformersForBinding
  <2>4. QED
    BY <1>4, <2>1, <2>3
<1>9. ASSUME NEW m \in Monitors,
             \/ GetProfile(m)
             \/ GetProfileFails(m)
             \/ ListNamespace(m)
             \/ ListFails(m)
      PROVE  AppliedInv'
  <2>1. UNCHANGED <<clusterVars, results>> /\ pc[m] # "apply"
    BY <1>9 DEF GetProfile, GetProfileFails, ListNamespace, ListFails
  <2>2. \A k \in Monitors : k # m => pc'[k] = pc[k]
    BY <1>9 DEF GetProfile, GetProfileFails, ListNamespace, ListFails, Goto, TypeOK
  <2>3. \A k \in Monitors : k # m => profile'[k] = profile[k] /\ allResources'[k] = allResources[k]
    <3>1. CASE ListNamespace(m)
      BY <3>1, ListAddsCurrentObjects DEF ListNamespace
    <3>2. CASE GetProfile(m) \/ GetProfileFails(m) \/ ListFails(m)
      BY <3>2 DEF GetProfile, GetProfileFails, ListFails, TypeOK
    <3>3. QED
      BY <1>9, <3>1, <3>2
  <2>4. \A t \in Targets : Written(t)'
    BY <1>1, <1>3, <2>1, <2>2, <2>3 DEF clusterVars
  <2>5. \A n \in Monitors : \A k \in DOMAIN results[n] : n # m
    BY <1>2, <2>1
  <2>6. \A n \in Monitors : \A k \in DOMAIN results[n] : IsTrue(n, k)'
    BY <1>1, <2>1, <2>3, <2>5 DEF clusterVars
  <2>7. QED
    BY <2>1, <2>4, <2>6
<1>10. ASSUME NEW m \in Monitors, UNCHANGED <<clusterVars, progress>>,
              Count(m, "failed") \/ UNCHANGED results
       PROVE  AppliedInv'
  <2>1. CASE UNCHANGED results
    BY <1>4, <1>10, <2>1 DEF progress
  <2>2. CASE Count(m, "failed")
    <3>1. \A t \in Targets : Written(t)'
      BY <1>1, <1>10 DEF clusterVars, progress
    <3>2. ASSUME NEW n \in Monitors, NEW k \in DOMAIN results'[n], results'[n][k] = "updated"
          PROVE  k \in DOMAIN results[n] /\ results[n][k] = "updated"
      <4>1. results[n] \in Seq({"updated", "failed"}) /\ results'[n] \in Seq({"updated", "failed"})
        BY <2>2, CountIsTyped DEF TypeOK
      <4>2. QED
        <5>1. CASE n # m
          BY <2>2, <3>2, <5>1, CountIsTyped
        <5>2. CASE n = m
          <6>1. /\ Len(results'[m]) = Len(results[m]) + 1
                /\ \A j \in 1..Len(results[m]) : results'[m][j] = results[m][j]
                /\ results'[m][Len(results[m]) + 1] = "failed"
            BY <2>2, CountIsTyped DEF Turn
          <6>2. k \in 1..Len(results[m])
            BY <3>2, <4>1, <5>2, <6>1
          <6>3. QED
            BY <3>2, <4>1, <5>2, <6>1, <6>2
        <5>3. QED
          BY <5>1, <5>2
    <3>3. \A n \in Monitors : \A k \in DOMAIN results'[n] : IsTrue(n, k)'
      BY <1>1, <1>10, <3>2 DEF clusterVars, progress
    <3>4. QED
      BY <3>1, <3>3
  <2>3. QED
    BY <1>10, <2>1, <2>2
<1>11. ASSUME NEW m \in Monitors, Count(m, "updated"), NEW last, last = Turn(m),
              \A t \in Targets : Written(t)',
              \A n \in Monitors : \A k \in DOMAIN results[n] :
                  results'[n][k] = results[n][k] => IsTrue(n, k)',
              IsTrue(m, last)'
       PROVE  AppliedInv'
  <2>1. ASSUME NEW n \in Monitors, NEW k \in DOMAIN results'[n] PROVE IsTrue(n, k)'
    <3>1. results[n] \in Seq({"updated", "failed"}) /\ results'[n] \in Seq({"updated", "failed"})
      BY <1>11, CountIsTyped DEF TypeOK
    <3>2. CASE n = m /\ k = last
      BY <1>11, <3>2
    <3>3. CASE ~ (n = m /\ k = last)
      <4>1. k \in DOMAIN results[n] /\ results'[n][k] = results[n][k]
        <5>1. CASE n # m
          BY <1>11, <2>1, <5>1, CountIsTyped
        <5>2. CASE n = m
          <6>1. /\ Len(results'[m]) = Len(results[m]) + 1 /\ last = Len(results[m]) + 1
                /\ \A j \in 1..Len(results[m]) : results'[m][j] = results[m][j]
            BY <1>11, CountIsTyped DEF Turn
          <6>2. k \in 1..Len(results[m])
            BY <2>1, <3>1, <3>3, <5>2, <6>1
          <6>3. QED
            BY <3>1, <5>2, <6>1, <6>2
        <5>3. QED
          BY <5>1, <5>2
      <4>2. QED
        BY <1>11, <4>1
    <3>4. QED
      BY <3>2, <3>3
  <2>2. QED
    BY <1>11, <2>1
<1>12. ASSUME NEW m \in Monitors, ApplyProfile(m) PROVE AppliedInv'
  <2>1. /\ UNCHANGED <<clusterVars, progress>>
        /\ pc[m] = "apply" /\ Turn(m) <= Len(allResources[m])
    BY <1>12 DEF ApplyProfile
  <2>0. PICK last \in Nat : last = Turn(m)
    BY DEF Turn, TypeOK
  <2> DEFINE item == allResources[m][last]
  <2>2. CASE FailEarly(m, item) \/ Send(m, item)
    BY <1>10, <2>1, <2>2 DEF FailEarly, Send
  <2>3. CASE KeepTarget(m, item)
    <3>1. Count(m, "updated") /\ item.object.overlay = profile[m].patch
      BY <2>3 DEF KeepTarget, IsUpToDate
    <3>2. allResources[m] \in Seq(Item) /\ results[m] \in Seq({"updated", "failed"})
      BY DEF TypeOK
    <3>3. last \in DOMAIN allResources[m]
      BY <2>0, <2>1, <3>2 DEF Turn
    <3>4. item \in Range(allResources[m])
      BY <3>3 DEF Range
    <3>5. item.target \in Targets /\ item.object \in Object /\ item.object # Absent
      BY <3>4, ItemsAreTyped, MarkersAreDistinct
    <3>6. version[item.target] = item.version => cluster[item.target] = item.object
      BY <3>4 DEF SnapshotInv
    <3>7. writer[item.target] = m => Written(item.target) /\ m # Nobody
      BY <1>1, <3>5, MarkersAreDistinct
    <3>8. version[item.target] = item.version \/ writer[item.target] = m =>
              cluster[item.target] # Absent /\ cluster[item.target].overlay = profile[m].patch
      BY <3>1, <3>5, <3>6, <3>7
    <3>9. UNCHANGED <<cluster, version, writer, pc, profile, allResources>>
      BY <2>1 DEF clusterVars, progress
    <3>10. IsTrue(m, last)'
      BY <3>8, <3>9
    <3>11. \A t \in Targets : Written(t)'
      BY <1>1, <3>9
    <3>12. \A n \in Monitors : \A k \in DOMAIN results[n] :
               results'[n][k] = results[n][k] => IsTrue(n, k)'
      BY <1>1, <3>9
    <3>13. QED
      BY <1>11, <2>0, <2>1, <3>1, <3>10, <3>11, <3>12
  <2>4. QED
    BY <1>12, <2>0, <2>2, <2>3 DEF ApplyProfile
<1>13. ASSUME NEW r \in inFlight, Handle(r) PROVE AppliedInv'
  <2> DEFINE m == r.monitor
             t == Target(r)
  <2>1. /\ m \in Monitors /\ t \in Targets
        /\ Result(r) \in Object /\ Result(r) # Absent /\ Result(r).overlay = profile[m].patch
    BY <1>13, ResultKeepsLabels, MarkersAreDistinct DEF Handle
  <2>2. pc[m] = "apply"
    BY DEF ProgressInv
  <2>3. UNCHANGED <<pc, profile, allResources>> /\ UNCHANGED progress
    BY <1>13 DEF Handle, progress
  <2>4. cluster'[t] = Result(r)
    BY <1>13, <2>1, HandleStores DEF Store, clusterVars, TypeOK
  <2>5. /\ \A u \in Targets : Written(u)'
        /\ \A n \in Monitors : \A k \in DOMAIN results[n] :
               results'[n][k] = results[n][k] => IsTrue(n, k)'
    <3>1. CASE Store(t, Result(r), m)
      BY <1>5, <2>1, <2>2, <2>3, <3>1
    <3>2. CASE UNCHANGED clusterVars
      BY <1>1, <2>3, <3>2 DEF clusterVars
    <3>3. QED
      BY <1>13, <3>1, <3>2, HandleStores
  <2>6. CASE UNCHANGED results
    BY <2>5, <2>6
  <2>7. CASE IsAwaited(r) /\ Count(m, "updated")
    <3>1. r.index = Turn(m)
      BY <2>7 DEF IsAwaited
    <3>2. IsTrue(m, r.index)'
      BY <2>1, <2>3, <2>4 DEF Target, ItemOf
    <3>3. QED
      BY <1>11, <2>1, <2>5, <2>7, <3>1, <3>2
  <2>8. QED
    BY <1>13, <2>6, <2>7 DEF Handle
<1>14. ASSUME NEW r \in inFlight, Refuse(r) \/ GiveUp(r) PROVE AppliedInv'
  <2>1. r.monitor \in Monitors
    BY DEF TypeOK, Request
  <2>2. UNCHANGED <<clusterVars, progress>>
        /\ (Count(r.monitor, "failed") \/ UNCHANGED results)
    BY <1>14 DEF Refuse, GiveUp
  <2>3. QED
    BY <1>10, <2>1, <2>2
<1>15. CASE UNCHANGED vars
  BY <1>4, <1>15 DEF vars, progress
<1>16. QED
  BY <1>6, <1>7, <1>8, <1>9, <1>12, <1>13, <1>14, <1>15
     DEF Next, Environment, MonitorStep, RequestStep

\* The targets the goroutines have, or have yet to list.
LEMMA CoverageStep == IInv /\ [Next]_vars => CoverageInv'
<1> SUFFICES ASSUME IInv, [Next]_vars PROVE CoverageInv'
  OBVIOUS
<1>0. TypeOK /\ ProgressInv /\ CoverageInv
  BY DEF IInv
<1>1. ASSUME \A m \in Monitors : profile'[m] # Absent => pc'[m] \in {"list", "apply"},
             \A m \in Monitors : pc'[m] = "apply" => namespaces'[m] = <<>>,
             \A m \in Monitors, t \in Targets \ touched' : Covered(m, t)'
      PROVE  CoverageInv'
  <2>1. \A m \in Monitors, t \in Targets :
            \A searched : Reaches(m, t, searched)' => \E n \in searched : Lists(m, n, t)'
    BY DEF Reaches, Lists, Described, getResourcesInNamespace, InNamespace
  <2>2. QED
    BY <1>1, <2>1 DEF CoverageInv, Covered, Searched
\* A step that leaves the goroutine, its watch and the labels of the target alone
<1>2. ASSUME NEW m \in Monitors, NEW t \in Targets \ touched,
             UNCHANGED <<pc[m], binding[m.watch], unlisted[m], namespaces[m], allResources[m]>>,
             m.watch \in cancelled => m.watch \in cancelled',
             cluster'[t] # Absent => cluster[t] # Absent /\ cluster'[t].labels = cluster[t].labels
      PROVE  Covered(m, t)'
  <2>1. Covered(m, t)
    BY <1>0, CoverageIsCovered
  <2>2. \A n : Lists(m, n, t)' => Lists(m, n, t)
    BY <1>2 DEF Lists, SpecOf
  <2>3. QED
    BY <1>2, <2>1, <2>2 DEF Covered, SpecOf, IsCancelled
\* A step that leaves all goroutines and watches alone
<1>3. ASSUME UNCHANGED <<progress, watchVars>>, touched \subseteq touched',
             \A t \in Targets \ touched' :
                 cluster'[t] # Absent => cluster[t] # Absent /\ cluster'[t].labels = cluster[t].labels
      PROVE  CoverageInv'
  <2>1. \A m \in Monitors, t \in Targets \ touched' : Covered(m, t)'
    BY <1>2, <1>3 DEF progress, watchVars
  <2>2. QED
    BY <1>0, <1>1, <1>3, <2>1 DEF CoverageInv, progress
<1>4. CASE Environment
  <2>1. ASSUME NEW u \in Targets, TargetChanges(u) PROVE CoverageInv'
    <3>1. UNCHANGED <<progress, watchVars>> /\ touched' = touched \cup {u}
      BY <2>1 DEF TargetChanges
    <3>2. \A t \in Targets \ touched' : cluster'[t] = cluster[t]
      BY <1>0, <2>1 DEF TargetChanges, UserCreates, UserEdits, UserDeletes, Store, TypeOK
    <3>3. QED
      BY <1>3, <3>1, <3>2
  <2>2. ASSUME NEW p \in ProfileNames, ProfileChanges(p) PROVE CoverageInv'
    BY <1>3, <2>2 DEF ProfileChanges, clusterVars
  <2>3. QED
    BY <1>4, <2>1, <2>2 DEF Environment
<1>5. CASE AgentStep
  <2>1. /\ UNCHANGED <<cluster, profile, namespaces, unlisted, allResources, touched>>
        /\ cancelled \subseteq cancelled'
    BY <1>5 DEF AgentStep, SetupInformersForBinding, StopInformersForBinding, clusterVars, userVars
  <2>2. ASSUME NEW m \in Monitors
        PROVE  \/ pc'[m] = pc[m] /\ binding'[m.watch] = binding[m.watch]
               \/ pc[m] = "off" /\ pc'[m] \in {"off", "profile"}
    <3>1. ASSUME NEW b \in Bindings, NEW spec \in Specs, NEW w \in Watches, CreateWatches(w, b, spec)
          PROVE  \/ pc'[m] = pc[m] /\ binding'[m.watch] = binding[m.watch]
                 \/ pc[m] = "off" /\ pc'[m] \in {"off", "profile"}
      <4>1. binding[w] = NoBinding
        BY <3>1 DEF CreateWatches, Watches
      <4>2. CASE m.watch = w
        BY <1>0, <3>1, <4>1, <4>2 DEF CreateWatches, ProgressInv, Created
      <4>3. CASE m.watch # w
        BY <1>0, <3>1, <4>3 DEF CreateWatches, Monitors, TypeOK
      <4>4. QED
        BY <4>2, <4>3
    <3>2. QED
      BY <1>5, <3>1 DEF AgentStep, SetupInformersForBinding, StopInformersForBinding
  <2>3. ASSUME NEW m \in Monitors, NEW t \in Targets \ touched' PROVE Covered(m, t)'
    <3>1. CASE pc'[m] = pc[m] /\ binding'[m.watch] = binding[m.watch]
      BY <1>2, <2>1, <3>1
    <3>2. CASE pc'[m] \in {"off", "profile"}
      BY <3>2 DEF Covered
    <3>3. QED
      BY <2>2, <3>1, <3>2
  <2>4. QED
    BY <1>0, <1>1, <2>1, <2>2, <2>3 DEF CoverageInv
\* A step of one goroutine before it writes
<1>6. ASSUME NEW m \in Monitors,
             GetProfile(m) \/ GetProfileFails(m) \/ ListNamespace(m) \/ ListFails(m),
             profile'[m] # Absent => pc'[m] \in {"list", "apply"},
             pc'[m] = "apply" => namespaces'[m] = <<>>,
             \A t \in Targets \ touched : Covered(m, t)'
      PROVE  CoverageInv'
  <2>1. UNCHANGED <<cluster, binding, cancelled, touched>>
    BY <1>6 DEF GetProfile, GetProfileFails, ListNamespace, ListFails, clusterVars, watchVars, userVars
  <2>2. \A k \in Monitors : k # m =>
            UNCHANGED <<pc[k], profile[k], namespaces[k], unlisted[k], allResources[k]>>
    <3>1. CASE ListNamespace(m)
      BY <1>0, <3>1, ListAddsCurrentObjects DEF ListNamespace, Goto, TypeOK
    <3>2. CASE GetProfile(m) \/ GetProfileFails(m) \/ ListFails(m)
      BY <1>0, <3>2 DEF GetProfile, GetProfileFails, ListFails, Goto, TypeOK
    <3>3. QED
      BY <1>6, <3>1, <3>2
  <2>3. \A k \in Monitors, t \in Targets \ touched' : Covered(k, t)'
    BY <1>2, <1>6, <2>1, <2>2
  <2>4. QED
    BY <1>0, <1>1, <1>6, <2>2, <2>3 DEF CoverageInv
<1>7. ASSUME NEW m \in Monitors, GetProfile(m) PROVE CoverageInv'
  <2>1. /\ pc'[m] = "list" /\ binding' = binding
        /\ namespaces'[m] = NamespacesInOrder(SpecOf(m))
    BY <1>0, <1>7 DEF GetProfile, Goto, watchVars, TypeOK
  <2>2. Range(NamespacesInOrder(SpecOf(m))) = TargetNamespaces(SpecOf(m), OwnNamespace)
    BY DEF NamespacesInOrder, TargetNamespaces, Range
  <2>3. \A t \in Targets \ touched : Covered(m, t)'
    BY <2>1, <2>2 DEF Covered, SpecOf
  <2>4. QED
    BY <1>6, <1>7, <2>1, <2>3
<1>8. ASSUME NEW m \in Monitors, GetProfileFails(m) PROVE CoverageInv'
  <2>1. pc'[m] = "done" /\ profile'[m] = profile[m] /\ pc[m] = "profile"
    BY <1>0, <1>8 DEF GetProfileFails, Goto, TypeOK
  <2>2. \A t \in Targets \ touched : Covered(m, t)'
    BY <2>1 DEF Covered
  <2>3. QED
    BY <1>0, <1>6, <1>8, <2>1, <2>2 DEF CoverageInv
\* Both ways to go on from a namespace
<1>9. ASSUME NEW m \in Monitors, ListNamespace(m) \/ ListFails(m)
      PROVE  /\ pc[m] = "list" /\ pc'[m] \in {"list", "apply"}
             /\ pc'[m] = "apply" => namespaces'[m] = <<>>
             /\ UNCHANGED <<binding, cancelled, cluster>>
             /\ \A n : n \in Range(namespaces[m])
                           <=> n = Head(namespaces[m]) \/ n \in Range(namespaces'[m])
  <2>1. /\ pc[m] = "list" /\ namespaces[m] # <<>> /\ pc'[m] = AfterList(m)
        /\ namespaces'[m] = Tail(namespaces[m]) /\ UNCHANGED <<binding, cancelled, cluster>>
    BY <1>0, <1>9 DEF ListNamespace, ListFails, Goto, TypeOK, watchVars, clusterVars
  <2>2. namespaces[m] \in Seq(Namespaces)
    BY <1>0 DEF TypeOK
  <2>3. AfterList(m) = "apply" => Len(namespaces[m]) <= 1
    BY <2>2 DEF AfterList
  <2>4. AfterList(m) \in {"list", "apply"}
    BY DEF AfterList
  <2>5. QED
    BY <2>1, <2>2, <2>3, <2>4, RangeOfTail
<1>10. ASSUME NEW m \in Monitors, ListNamespace(m) PROVE CoverageInv'
  <2>1. Range(allResources'[m]) = Range(allResources[m]) \cup Listed(m, Head(namespaces[m]))
    BY <1>0, <1>10, ListAddsCurrentObjects
  <2>2. UNCHANGED <<profile, unlisted>>
    BY <1>10 DEF ListNamespace
  <2>3. ASSUME NEW t \in Targets \ touched PROVE Covered(m, t)'
    <3>1. Covered(m, t)
      BY <1>0, CoverageIsCovered
    <3>2. \A n : Lists(m, n, t)' <=> Lists(m, n, t)
      BY <1>9, <1>10 DEF Lists, SpecOf
    <3>3. Lists(m, Head(namespaces[m]), t) => \E i \in Range(allResources'[m]) : i.target = t
      BY <2>1, ReachedIsListed
    <3>4. QED
      BY <1>9, <1>10, <2>1, <2>2, <3>1, <3>2, <3>3 DEF Covered, SpecOf, IsCancelled
  <2>4. QED
    BY <1>6, <1>9, <1>10, <2>3
<1>11. ASSUME NEW m \in Monitors, ListFails(m) PROVE CoverageInv'
  <2>1. /\ UNCHANGED <<profile, allResources>>
        /\ unlisted'[m] = unlisted[m] \cup {Head(namespaces[m])}
    BY <1>0, <1>11 DEF ListFails, TypeOK
  <2>2. ASSUME NEW t \in Targets \ touched PROVE Covered(m, t)'
    <3>1. Covered(m, t)
      BY <1>0, CoverageIsCovered
    <3>2. \A n : Lists(m, n, t)' <=> Lists(m, n, t)
      BY <1>9, <1>11 DEF Lists, SpecOf
    <3>3. QED
      BY <1>9, <1>11, <2>1, <3>1, <3>2 DEF Covered, SpecOf, IsCancelled
  <2>3. QED
    BY <1>6, <1>9, <1>11, <2>2
<1>12. ASSUME NEW m \in Monitors, ApplyProfile(m) PROVE CoverageInv'
  BY <1>3, <1>12 DEF ApplyProfile, clusterVars, userVars
<1>13. ASSUME NEW r \in inFlight, Handle(r) PROVE CoverageInv'
  <2>1. UNCHANGED <<progress, watchVars>> /\ touched' = touched
    BY <1>13 DEF Handle, userVars
  <2>2. /\ Target(r) \in Targets /\ cluster[Target(r)] \in Object
        /\ Result(r).labels = cluster[Target(r)].labels
    BY <1>13, ResultKeepsLabels DEF Handle
  <2>3. cluster' = cluster \/ cluster' = [cluster EXCEPT ![Target(r)] = Result(r)]
    BY <1>13, HandleStores DEF Store, clusterVars
  <2>4. cluster[Target(r)] # Absent
    BY <2>2, MarkersAreDistinct
  <2>5. \A t \in Targets :
            cluster'[t] # Absent => cluster[t] # Absent /\ cluster'[t].labels = cluster[t].labels
    BY <1>0, <2>2, <2>3, <2>4 DEF TypeOK
  <2>6. QED
    BY <1>3, <2>1, <2>5
<1>14. ASSUME NEW r \in inFlight, Refuse(r) \/ GiveUp(r) PROVE CoverageInv'
  BY <1>3, <1>14 DEF Refuse, GiveUp, clusterVars, userVars
<1>15. CASE UNCHANGED vars
  BY <1>3, <1>15 DEF vars, clusterVars, userVars
<1>16. QED
  BY <1>4, <1>5, <1>7, <1>8, <1>10, <1>11, <1>12, <1>13, <1>14, <1>15
     DEF Next, MonitorStep, RequestStep

(* The theorems *)

\* The inductive invariant holds in every reachable state.
THEOREM Invariant == Spec => []IInv
<1>1. IInv /\ [Next]_vars => IInv'
  BY TypeStep, ProgressStep, SnapshotStep, OrderStep, AppliedStep, CoverageStep DEF IInv
<1>2. QED
  BY InitIInv, <1>1, PTL DEF Spec

\* Every variable keeps its type: what a List returns, a request carries and the API
\* server stores are objects with labels users gave and an overlay a Profile sets.
THEOREM TypeCorrect == Spec => []TypeOK
BY Invariant, PTL DEF IInv

\* A target a goroutine counts as updated has the patch of the Profile it read, until
\* somebody else writes the target (profile_applicator.go:69).
THEOREM UpdatedIsApplied == Spec => []UpdatedMeansApplied
BY Invariant, PTL DEF IInv, AppliedInv

\* No target is forgotten: a goroutine that ends has counted every target it was started
\* for and that users left alone, whatever lists and writes failed before
\* (informer_manager.go:185), unless it was cancelled, had no Profile or could not list it.
THEOREM NoTargetIsForgotten == Spec => []ExistingTargetIsCounted
<1>1. IInv => ExistingTargetIsCounted
  <2> SUFFICES ASSUME IInv, NEW m \in Monitors, NEW t \in Targets, Ended(m),
                      profile[m] # Absent, ~IsCancelled(m),
                      Reaches(m, t, Searched(m) \ unlisted[m]), t \notin touched
               PROVE  \E k \in DOMAIN results[m] : allResources[m][k].target = t
    BY DEF ExistingTargetIsCounted
  <2>1. pc[m] = "apply" /\ namespaces[m] = <<>> /\ Len(results[m]) = Len(allResources[m])
    BY DEF IInv, CoverageInv, Ended
  <2>2. Range(namespaces[m]) = {}
    BY <2>1 DEF Range
  <2>3. PICK i \in Range(allResources[m]) : i.target = t
    BY <2>1, <2>2 DEF IInv, CoverageInv
  <2>4. results[m] \in Seq({"updated", "failed"}) /\ allResources[m] \in Seq(Item)
    BY DEF IInv, TypeOK
  <2>5. QED
    BY <2>1, <2>3, <2>4 DEF Range
<1>2. QED
  BY <1>1, Invariant, PTL

\* No step of the operator creates a target, brings a deleted one back or changes its
\* labels, and what server-side apply overwrites is what its sender listed, however long
\* ago that was (profile_applicator.go:143).
THEOREM UsersHaveTheLastWordTheorem == Spec => UsersHaveTheLastWord
<1> DEFINE Spared(t) ==
               /\ cluster'[t] = Absent <=> cluster[t] = Absent
               /\ cluster[t] # Absent => cluster'[t].labels = cluster[t].labels
               /\ cluster'[t] # cluster[t] =>
                      (profile[writer'[t]].strategy = "SSA" =>
                           \E i \in Range(allResources[writer'[t]]) :
                               i.target = t /\ i.object = cluster[t])
<1>1. ASSUME IInv, [Next]_vars, budget' = budget, NEW t \in Targets
      PROVE  Spared(t)
  <2>1. ~ Environment
    BY <1>1 DEF Environment, TargetChanges, ProfileChanges, Spend, IInv, TypeOK
  <2>2. CASE UNCHANGED clusterVars
    BY <2>2 DEF clusterVars
  <2>3. ASSUME NEW r \in inFlight, Handle(r), ~ UNCHANGED clusterVars
        PROVE  Spared(t)
    <3>1. /\ Accepts(r) /\ cluster' = [cluster EXCEPT ![Target(r)] = Result(r)]
          /\ writer' = [writer EXCEPT ![Target(r)] = r.monitor]
      BY <2>3 DEF Handle, Store
    <3>2. /\ Target(r) \in Targets
          /\ cluster[Target(r)] \in Object /\ Result(r) \in Object
          /\ Result(r).labels = cluster[Target(r)].labels
          /\ r.monitor \in Monitors /\ ItemOf(r) \in Range(allResources[r.monitor])
      BY <1>1, <3>1, ResultKeepsLabels
    <3>3. Absent \notin Object
      BY MarkersAreDistinct
    <3>4. cluster \in [Targets -> Object \cup {Absent}] /\ writer \in [Targets -> Monitors \cup {Nobody}]
      BY <1>1 DEF IInv, TypeOK
    <3>5. CASE t # Target(r)
      BY <3>1, <3>4, <3>5
    <3>6. CASE t = Target(r)
      <4>1. cluster'[t] = Result(r) /\ writer'[t] = r.monitor
        BY <3>1, <3>2, <3>4, <3>6
      <4>2. profile[r.monitor].strategy = "SSA" => ItemOf(r).version = version[t]
        BY <3>1, <3>6 DEF Accepts
      <4>3. ItemOf(r).target = t /\ (ItemOf(r).version = version[t] => ItemOf(r).object = cluster[t])
        BY <1>1, <3>2, <3>6 DEF Target, IInv, SnapshotInv
      <4>4. QED
        BY <3>2, <3>3, <3>6, <4>1, <4>2, <4>3
    <3>7. QED
      BY <3>5, <3>6
  <2>4. \/ UNCHANGED clusterVars
        \/ \E r \in inFlight : Handle(r)
    <3>1. CASE AgentStep
      BY <3>1 DEF AgentStep
    <3>2. ASSUME NEW m \in Monitors, MonitorStep(m) PROVE UNCHANGED clusterVars
      BY <3>2 DEF MonitorStep, GetProfile, GetProfileFails, ListNamespace, ListFails, ApplyProfile
    <3>3. CASE RequestStep
      BY <3>3 DEF RequestStep, Refuse, GiveUp
    <3>4. CASE UNCHANGED vars
      BY <3>4 DEF vars
    <3>5. QED
      BY <1>1, <2>1, <3>1, <3>2, <3>3, <3>4 DEF Next
  <2>5. QED
    BY <2>2, <2>3, <2>4
<1>2. IInv /\ [Next]_vars => (budget' = budget => \A t \in Targets : Spared(t))
  BY <1>1
<1>3. QED
  BY Invariant, <1>2, PTL DEF Spec, UsersHaveTheLastWord

\* With server-side apply a request of an old watch, however late it arrives, does not
\* overwrite what a newer watch of the same binding wrote (informer_manager.go:164).
THEOREM NewerWatchWinsTheorem == Spec => NewerWatchWins
<1>1. ASSUME IInv, [Next]_vars, NEW t \in Targets,
             writer'[t] # writer[t], writer[t] # Nobody, writer'[t] # Nobody,
             profile[writer'[t]].strategy = "SSA",
             binding[writer'[t].watch].key = binding[writer[t].watch].key
      PROVE  writer'[t].watch >= writer[t].watch
  <2>1. PICK r \in inFlight : Handle(r) /\ ~ UNCHANGED clusterVars
    <3>1. CASE Environment
      <4>1. ASSUME NEW u \in Targets, TargetChanges(u) PROVE FALSE
        <5>1. writer' = [writer EXCEPT ![u] = Nobody]
          BY <4>1 DEF TargetChanges, UserCreates, UserEdits, UserDeletes, Store
        <5>2. QED
          BY <1>1, <5>1 DEF IInv, TypeOK
      <4>2. ASSUME NEW p \in ProfileNames, ProfileChanges(p) PROVE FALSE
        BY <1>1, <4>2 DEF ProfileChanges, clusterVars
      <4>3. QED
        BY <3>1, <4>1, <4>2 DEF Environment
    <3>2. CASE AgentStep
      BY <1>1, <3>2 DEF AgentStep, clusterVars
    <3>3. ASSUME NEW m \in Monitors, MonitorStep(m) PROVE FALSE
      BY <1>1, <3>3 DEF MonitorStep, GetProfile, GetProfileFails, ListNamespace, ListFails,
                        ApplyProfile, clusterVars
    <3>4. CASE RequestStep
      BY <1>1, <3>4 DEF RequestStep, Refuse, GiveUp, clusterVars
    <3>5. CASE UNCHANGED vars
      BY <1>1, <3>5 DEF vars, clusterVars
    <3>6. QED
      BY <1>1, <3>1, <3>2, <3>3, <3>4, <3>5 DEF Next
  <2>2. Accepts(r) /\ writer' = [writer EXCEPT ![Target(r)] = r.monitor]
    BY <2>1 DEF Handle, Store
  <2>3. Target(r) \in Targets /\ r.monitor \in Monitors /\ ItemOf(r) \in Range(allResources[r.monitor])
    BY <1>1, <2>2, ResultKeepsLabels DEF IInv, ProgressInv
  <2>4. t = Target(r) /\ writer'[t] = r.monitor
    BY <1>1, <2>2, <2>3 DEF IInv, TypeOK
  <2>5. ItemOf(r).version = version[t]
    BY <1>1, <2>2, <2>4 DEF Accepts
  <2>6. QED
    BY <1>1, <2>3, <2>4, <2>5 DEF IInv, OrderInv, Target
<1>2. IInv /\ [Next]_vars =>
          \A t \in Targets :
              LET old == writer[t]
                  new == writer'[t]
              IN  new # old /\ old # Nobody /\ new # Nobody =>
                      (profile[new].strategy = "SSA" /\ binding[new.watch].key = binding[old.watch].key
                           => new.watch >= old.watch)
  BY <1>1
<1>3. QED
  BY Invariant, <1>2, PTL DEF Spec, NewerWatchWins

=============================================================================
