----------------------- MODULE ProfileControllerProofs -----------------------
(* The safety properties of ProfileController, however much users, other     *)
(* controllers and failing calls may do.                                     *)
EXTENDS ProfileController, ApiObjectProofs

USE BudgetIsANumber, AbsentIsNoProfile

-----------------------------------------------------------------------------
(* Facts about the writes                                                  *)

\* What a write of a user or another controller makes of the object: a new object has
\* neither the finalizer nor conditions, an old one keeps them, and no deletion is undone
MadeByOthers(old, new) ==
    IF old = Absent
    THEN new # Absent /\ ~HasFinalizer(new) /\ new.condition = "none"
    ELSE IF new = Absent
    THEN ~HasFinalizer(old)
    ELSE /\ HasFinalizer(new) <=> HasFinalizer(old)
         /\ new.condition = old.condition
         /\ old.deleting => new.deleting

\* A write of somebody else is one of those.
LEMMA OthersFacts ==
    ASSUME TypeOK, HistoryInv, Environment
    PROVE  \E new \in Profile \cup {Absent} :
               /\ versions' = IF new = Live THEN versions ELSE Append(versions, new)
               /\ fresh' = (fresh /\ new = Live)
               /\ budget' = budget - 1 /\ budget' \in 0..Budget
               /\ new # Absent => new.generation + budget' <= Budget
               /\ MadeByOthers(Live, new)
<1>1. Live \in Profile \cup {Absent}
  BY KnownStates DEF TypeOK
<1>2. /\ budget \in 0..Budget
      /\ Live # Absent => Live.generation + budget <= Budget
  BY DEF TypeOK, ApiTypeOK, HistoryInv
<1>3. CASE UserCreates
  <2>1. PICK valid \in BOOLEAN, finalizers \in {{}, {"other"}} :
                Create([finalizers |-> finalizers, deleting |-> FALSE, valid |-> valid,
                        generation |-> 1, condition |-> "none", observed |-> 0])
    BY <1>3 DEF UserCreates
  <2> DEFINE new == [finalizers |-> finalizers, deleting |-> FALSE, valid |-> valid,
                     generation |-> 1, condition |-> "none", observed |-> 0]
  <2>2. Live = Absent /\ budget > 0 /\ budget' = budget - 1
    BY <2>1 DEF Create, Spend
  <2>3. new \in Profile
    BY <1>2, <2>2 DEF Profile, Finalizers, Conditions
  <2>4. Stored(new) = new
    BY DEF Stored
  <2>5. QED
    BY <1>2, <2>1, <2>2, <2>3, <2>4 DEF Create, Write, MadeByOthers, HasFinalizer
<1>4. CASE UserEdits
  <2>1. PICK valid \in BOOLEAN :
                Write([Live EXCEPT !.valid = valid, !.generation = Live.generation + 1])
    BY <1>4 DEF UserEdits
  <2> DEFINE new == [Live EXCEPT !.valid = valid, !.generation = Live.generation + 1]
  <2>2. Live # Absent /\ budget > 0 /\ budget' = budget - 1 /\ Write(new)
    BY <1>4, <2>1 DEF UserEdits, Spend
  <2>3. Live.generation + 1 \in 1..Budget /\ Live.generation + 1 + budget' <= Budget
    BY <1>1, <1>2, <2>2 DEF Profile
  <2>4. new \in Profile /\ new.generation = Live.generation + 1
    BY <1>1, <2>2, <2>3 DEF Profile
  <2>5. Stored(new) = new \/ (Stored(new) = Absent /\ ~HasFinalizer(Live))
    BY <1>1, <2>2 DEF Stored, Profile, HasFinalizer
  <2>6. MadeByOthers(Live, Stored(new))
    BY <1>1, <2>2, <2>4, <2>5 DEF MadeByOthers, HasFinalizer, Profile
  <2> HIDE DEF new
  <2>7. QED
    BY <1>2, <2>2, <2>3, <2>4, <2>5, <2>6 DEF Write
<1>5. CASE Delete
  <2> DEFINE new == [Live EXCEPT !.deleting = TRUE, !.generation = @ + 1]
  <2>1. Live # Absent /\ budget > 0 /\ budget' = budget - 1 /\ Write(new)
    BY <1>5 DEF Delete, Spend
  <2>2. Live.generation + 1 \in 1..Budget /\ Live.generation + 1 + budget' <= Budget
    BY <1>1, <1>2, <2>1 DEF Profile
  <2>3. new \in Profile /\ new.generation = Live.generation + 1
    BY <1>1, <2>1, <2>2 DEF Profile
  <2>4. Stored(new) = new \/ (Stored(new) = Absent /\ ~HasFinalizer(Live))
    BY <1>1, <2>1 DEF Stored, Profile, HasFinalizer
  <2>5. MadeByOthers(Live, Stored(new))
    BY <1>1, <2>1, <2>3, <2>4 DEF MadeByOthers, HasFinalizer, Profile
  <2> HIDE DEF new
  <2>6. QED
    BY <1>2, <2>1, <2>2, <2>3, <2>4, <2>5 DEF Write
<1>6. CASE OthersFinalizer
  <2>1. PICK finalizers \in SUBSET Finalizers :
            /\ Write([Live EXCEPT !.finalizers = finalizers])
            /\ "own" \in finalizers <=> HasFinalizer(Live)
    BY <1>1, <1>6 DEF OthersFinalizer, Profile, HasFinalizer, Finalizers
  <2> DEFINE new == [Live EXCEPT !.finalizers = finalizers]
  <2>2. Live # Absent /\ budget > 0 /\ budget' = budget - 1 /\ Write(new)
    BY <1>6, <2>1 DEF OthersFinalizer, Spend
  <2>3. new \in Profile
    BY <1>1, <1>2, <2>2 DEF Profile
  <2>4. Stored(new) = new \/ (Stored(new) = Absent /\ ~HasFinalizer(Live))
    BY <1>1, <2>1, <2>2 DEF Stored, Profile, HasFinalizer
  <2>5. MadeByOthers(Live, Stored(new)) /\ new.generation = Live.generation
    BY <1>1, <2>1, <2>2, <2>3, <2>4 DEF MadeByOthers, HasFinalizer, Profile
  <2>6. Stored(new) # Absent => Stored(new) = new
    BY DEF Stored
  <2>7. Live.generation \in Nat /\ budget' \in 0..Budget
    BY <1>1, <1>2, <2>2 DEF Profile
  <2> HIDE DEF new
  <2>8. QED
    BY <1>2, <2>2, <2>3, <2>4, <2>5, <2>6, <2>7 DEF Write
<1>7. QED
  BY <1>3, <1>4, <1>5, <1>6 DEF Environment

\* A write that leaves the finalizer alone, undoes no deletion and takes no conditions
\* away keeps what is known of the order of the versions.
LEMMA HistoryKept ==
    ASSUME TypeOK, HistoryInv, NEW new \in Profile \cup {Absent},
           versions' = IF new = Live THEN versions ELSE Append(versions, new),
           new # Absent => new.generation + budget' <= Budget,
           HasOwn(new) <=> HasOwn(Live),
           Leaving(Live) => ~Kept(new),
           HasOwn(Live) /\ Live.condition # "none" => new.condition # "none",
           Kept(new) => HasOwn(Live) /\ ~Leaving(Live),
           Judged(new) => ~Raw(new) /\ \A object \in Known : ~Raw(object)
    PROVE  HistoryInv'
<1>1. ApiTypeOK(Profile)
  BY DEF TypeOK
<1>2. Live' = new /\ Known' = Known \cup {new}
  BY <1>1, WriteFacts
<1>3. ASSUME NEW a \in Known \cup {new}, NEW b \in Known \cup {new}, Precedes(a, b)'
      PROVE  /\ ~(HasOwn(a) <=> HasOwn(b)) => (HasOwn(new) <=> HasOwn(b))
             /\ Kept(a) => HasOwn(b)
             /\ Leaving(a) => ~Kept(b)
             /\ Kept(a) /\ a.condition # "none" => b.condition # "none"
  <2>1. CASE Precedes(a, b)
    <3>1. a \in Known /\ b \in Known
      BY <1>1, <2>1, KnownOrder
    <3>2. QED
      BY <2>1, <3>1 DEF HistoryInv
  <2>2. CASE a \in Known /\ b = new
    <3>1. a = Live \/ Precedes(a, Live)
      BY <1>1, <2>2, KnownOrder
    <3>2. Live \in Known
      BY <1>1, KnownStates
    <3>3. /\ Kept(a) => HasOwn(Live)
          /\ Leaving(a) => ~Kept(Live)
          /\ Kept(a) /\ a.condition # "none" => Live.condition # "none"
      BY <2>2, <3>1, <3>2 DEF HistoryInv, Kept, Leaving, HasOwn
    <3>4. Kept(new) => Kept(Live)
      BY DEF Kept, Leaving, HasOwn
    <3>5. QED
      BY <2>2, <3>3, <3>4
  <2>3. QED
    BY <1>1, <1>3, <2>1, <2>2, WriteOrder
<1>4. QED
  BY <1>2, <1>3 DEF HistoryInv

-----------------------------------------------------------------------------
(* The invariant                                                           *)

\* The initial states satisfy it.
LEMMA InitIInv == Init => IInv
<1> SUFFICES ASSUME Init PROVE IInv
  OBVIOUS
<1>1. versions = <<Absent>> /\ queued = FALSE /\ fresh = FALSE /\ budget = Budget
  BY DEF Init, ApiInit
<1>2. Live = Absent /\ Cached = Absent /\ Known = {Absent}
  BY <1>1 DEF Live, Cached, Known
<1>3. TypeOK
  <2>1. versions \in Seq(Profile \cup {Absent}) /\ versions # <<>>
    <3>1. Absent \in Profile \cup {Absent}
      OBVIOUS
    <3> HIDE DEF Profile
    <3>2. QED
      BY <1>1, <3>1
  <2>2. queued \in BOOLEAN /\ fresh \in BOOLEAN
    BY <1>1, Zenon
  <2>3. budget \in 0..Budget
    BY <1>1
  <2>4. QED
    BY <2>1, <2>2, <2>3 DEF Init, TypeOK, ApiTypeOK
<1>4. HistoryInv
  BY <1>2 DEF HistoryInv, HasOwn, Kept, Leaving, Judged
<1>5. PatchInv /\ StatusInv /\ RestInv
  BY <1>2 DEF Init, PatchInv, StatusInv, RestInv, Quiet, StatusIsTrue
<1>6. QED
  BY <1>3, <1>4, <1>5 DEF IInv

\* A write of somebody else keeps it.
LEMMA EnvironmentStep == IInv /\ Environment => IInv'
<1> SUFFICES ASSUME IInv, Environment PROVE IInv'
  OBVIOUS
<1>0. TypeOK /\ HistoryInv /\ PatchInv /\ StatusInv /\ RestInv /\ ApiTypeOK(Profile)
  BY DEF IInv, TypeOK
<1>1. PICK new \in Profile \cup {Absent} :
          /\ versions' = IF new = Live THEN versions ELSE Append(versions, new)
          /\ fresh' = (fresh /\ new = Live)
          /\ budget' = budget - 1 /\ budget' \in 0..Budget
          /\ new # Absent => new.generation + budget' <= Budget
          /\ MadeByOthers(Live, new)
  BY <1>0, OthersFacts
<1>2. /\ versions' \in Seq(Profile \cup {Absent}) /\ versions' # <<>>
      /\ Live' = new /\ Cached' = Cached /\ Known' = Known \cup {new}
      /\ CacheIsLive' <=> CacheIsLive /\ new = Live
  BY <1>0, <1>1, WriteFacts
<1>3. UNCHANGED <<queued, pc, profile, wanted, lost>>
  BY DEF Environment, UserCreates, UserEdits, work
<1>4. Known \subseteq Profile \cup {Absent} /\ Live \in Known
  BY <1>0, KnownStates
<1>5. /\ HasOwn(new) <=> HasOwn(Live)
      /\ Leaving(Live) => ~Kept(new)
      /\ Kept(new) => HasOwn(Live) /\ ~Leaving(Live)
      /\ HasOwn(Live) => new.condition = Live.condition
      /\ Judged(new) => Judged(Live)
      /\ Raw(new) => Raw(Live)
      /\ Kept(new) => Kept(Live)
  BY <1>1, <1>4 DEF MadeByOthers, HasOwn, Kept, Leaving, Judged, Raw
<1>6. TypeOK'
  <2>1. fresh' \in BOOLEAN
    BY <1>1, Zenon
  <2>2. QED
    BY <1>0, <1>1, <1>2, <1>3, <2>1 DEF TypeOK, ApiTypeOK
<1>7. HistoryInv'
  <2>1. Judged(new) => ~Raw(new) /\ \A object \in Known : ~Raw(object)
    BY <1>0, <1>4, <1>5 DEF HistoryInv
  <2>2. QED
    BY <1>0, <1>1, <1>5, <2>1, HistoryKept
<1>8. PatchInv'
  BY <1>0, <1>2, <1>3, <1>4, <1>5 DEF PatchInv
<1>9. StatusInv'
  BY <1>0, <1>1, <1>2, <1>3, <1>4, <1>5 DEF StatusInv
<1>10. RestInv'
  <2>1. CacheIsLive' => CacheIsLive /\ Live' = Live /\ fresh' = fresh
    BY <1>0, <1>1, <1>2 DEF ApiTypeOK
  <2>2. QED
    BY <1>0, <1>2, <1>3, <2>1 DEF RestInv, Quiet, StatusIsTrue
<1>11. QED
  BY <1>6, <1>7, <1>8, <1>9, <1>10 DEF IInv

\* So do the informer and a restart.
LEMMA ViewStep == IInv /\ (CacheStep \/ ResyncStep \/ Restart) => IInv'
<1> SUFFICES ASSUME IInv, CacheStep \/ ResyncStep \/ Restart PROVE IInv'
  OBVIOUS
<1>0. TypeOK /\ HistoryInv /\ PatchInv /\ StatusInv /\ RestInv /\ ApiTypeOK(Profile)
  BY DEF IInv, TypeOK
<1>1. Known \subseteq Profile \cup {Absent} /\ Live \in Known
  BY <1>0, KnownStates
<1>2. CASE ResyncStep
  <2>1. queued' = TRUE /\ UNCHANGED <<versions, fresh, budget, pc, profile, wanted, lost>>
    BY <1>2 DEF ResyncStep, Resync, work
  <2>2. /\ Live' = Live /\ Cached' = Cached /\ Known' = Known
        /\ CacheIsLive' <=> CacheIsLive
        /\ \A a, b : Precedes(a, b)' <=> Precedes(a, b)
    BY <2>1, SameVersions
  <2>3. TypeOK'
    BY <1>0, <2>1 DEF TypeOK, ApiTypeOK
  <2>4. HistoryInv'
    BY <1>0, <2>1, <2>2 DEF HistoryInv
  <2>5. PatchInv' /\ StatusInv' /\ RestInv'
    BY <1>0, <2>1, <2>2 DEF PatchInv, StatusInv, RestInv, Quiet
  <2>6. QED
    BY <2>3, <2>4, <2>5 DEF IInv
<1>3. CASE CacheStep \/ Restart
  <2>1. PICK n \in 1..Len(versions) : versions' = SubSeq(versions, n, Len(versions))
    BY <1>0, <1>3 DEF CacheStep, CacheCatchesUp, Restart, Relist, ApiTypeOK
  <2>2. /\ versions' \in Seq(Profile \cup {Absent}) /\ versions' # <<>>
        /\ Live' = Live /\ Known' \subseteq Known
        /\ CacheIsLive' => Cached' = Live
    BY <1>0, <2>1, SuffixFacts
  <2>3. \A a, b : Precedes(a, b)' => Precedes(a, b)
    BY <1>0, <2>1, SuffixOrder
  <2>4. budget \in 0..Budget /\ budget' \in 0..Budget /\ budget' <= budget
    BY <1>0, <1>3 DEF CacheStep, CacheCatchesUp, Restart, Relist, Spend, ApiTypeOK
  <2>5. HistoryInv'
    <3>1. Live # Absent => Live.generation + budget' <= Budget
      <4>1. Live # Absent => Live.generation \in Nat
        BY <1>1 DEF Profile
      <4>2. QED
        BY <1>0, <2>4, <4>1 DEF HistoryInv
    <3>2. QED
      BY <1>0, <2>2, <2>3, <3>1 DEF HistoryInv
  <2>6. CASE CacheStep
    <3>1. queued' = TRUE /\ UNCHANGED <<fresh, budget, pc, profile, wanted, lost>>
      BY <2>6 DEF CacheStep, CacheCatchesUp, work
    <3>2. TypeOK'
      BY <1>0, <2>2, <3>1 DEF TypeOK, ApiTypeOK
    <3>3. ~CacheIsLive
      BY <1>0, <2>6 DEF CacheStep, CacheCatchesUp, CacheIsLive, ApiTypeOK
    <3>4. PatchInv' /\ StatusInv'
      BY <1>0, <2>2, <3>1, <3>3 DEF PatchInv, StatusInv
    <3>5. RestInv'
      BY <3>1 DEF RestInv, Quiet
    <3>6. QED
      BY <2>5, <3>2, <3>4, <3>5 DEF IInv
  <2>7. CASE Restart
    <3>1. /\ queued' = (Cached' # Absent) /\ fresh' = FALSE
          /\ pc' = "idle" /\ profile' = Absent /\ wanted' = {} /\ lost' = FALSE
      BY <2>7 DEF Restart, Relist, Cached
    <3>2. TypeOK'
      BY <1>0, <2>2, <2>4, <3>1 DEF TypeOK, ApiTypeOK
    <3>3. PatchInv' /\ StatusInv'
      BY <3>1 DEF PatchInv, StatusInv
    <3>4. RestInv'
      BY <2>2, <3>1 DEF RestInv, Quiet, StatusIsTrue
    <3>5. QED
      BY <2>5, <3>2, <3>3, <3>4 DEF IInv
  <2>8. QED
    BY <1>3, <2>6, <2>7
<1>4. QED
  BY <1>2, <1>3

-----------------------------------------------------------------------------
(* Reconcile                                                               *)

\* What the cached state says of the versions after it.
LEMMA CachedFacts ==
    ASSUME ApiTypeOK(Profile), HistoryInv
    PROVE  /\ Cached \in Known
           /\ ~HasOwn(Cached) => HasOwn(Live) \/ \A object \in Known : ~HasOwn(object)
           /\ HasOwn(Cached) /\ HasOwn(Live) => \A object \in Known : HasOwn(object)
           /\ Leaving(Cached) => \A object \in Known : ~Kept(object)
           /\ Kept(Cached) => \A object \in Known : HasOwn(object)
           /\ Kept(Cached) /\ Cached.condition # "none" =>
                  \A object \in Known : ~Raw(object)
           /\ Raw(Cached) => ~Judged(Live)
<1>1. /\ Cached \in Known
      /\ \A object \in Known : object = Cached \/ Precedes(Cached, object)
  BY KnownStates, KnownOrder
<1>2. QED
  BY <1>1 DEF HistoryInv, HasOwn, Kept, Leaving, Raw

\* A reconcile begins with the cached state, which decides what it does.
LEMMA ReconcileStep == IInv /\ Reconcile => IInv'
<1> SUFFICES ASSUME IInv, Reconcile PROVE IInv'
  OBVIOUS
<1>0. TypeOK /\ HistoryInv /\ PatchInv /\ StatusInv /\ RestInv /\ ApiTypeOK(Profile)
  BY DEF IInv, TypeOK
<1>1. /\ pc = "idle" /\ queued' = FALSE /\ lost' = FALSE
      /\ UNCHANGED <<versions, fresh, wanted, budget>>
  BY DEF Reconcile
<1>2. /\ Live' = Live /\ Cached' = Cached /\ Known' = Known
      /\ CacheIsLive' <=> CacheIsLive
      /\ \A a, b : Precedes(a, b)' <=> Precedes(a, b)
  BY <1>1, SameVersions
<1>3. Cached \in Profile \cup {Absent} /\ (CacheIsLive => Cached = Live)
  BY <1>0, KnownStates
<1>4. HistoryInv'
  BY <1>0, <1>1, <1>2 DEF HistoryInv
<1>5. CASE Cached # Absent /\ NeedsPatch(Cached)
  <2>1. pc' = "patchGet" /\ profile' = Cached
    BY <1>5 DEF Reconcile
  <2>2. TypeOK'
    BY <1>0, <1>1, <1>3, <1>5, <2>1 DEF TypeOK, ApiTypeOK
  <2>3. PatchInv'
    <3>1. IF Cached.deleting THEN Leaving(Cached) /\ HasOwn(Cached) ELSE ~HasOwn(Cached)
      BY <1>5 DEF NeedsPatch, Leaving, HasOwn
    <3>2. QED
      BY <1>0, <1>2, <2>1, <3>1, CachedFacts DEF PatchInv
  <2>4. StatusInv' /\ RestInv'
    BY <1>2, <1>5, <2>1 DEF StatusInv, RestInv, Quiet
  <2>5. QED
    BY <1>4, <2>2, <2>3, <2>4 DEF IInv
<1>6. CASE Cached # Absent /\ ~NeedsPatch(Cached) /\ ~Cached.deleting
  <2>1. pc' = "statusGet" /\ profile' = NextStatus(Cached)
    BY <1>6 DEF Reconcile
  <2>2. Kept(Cached) /\ HasFinalizer(Cached)
    BY <1>6 DEF NeedsPatch, Kept
  <2>3. profile' \in Profile
    <3>1. Cached.generation \in 0..Budget
      BY <1>3, <1>6 DEF Profile
    <3>2. QED
      BY <1>3, <1>6, <2>1, <3>1 DEF NextStatus, Profile, Conditions
  <2>4. TypeOK'
    BY <1>0, <1>1, <2>1, <2>3 DEF TypeOK, ApiTypeOK
  <2>5. IF Cached.condition = "none" THEN profile'.condition = "pending"
                                     ELSE profile'.condition \in {"ready", "invalid"}
    BY <1>3, <1>6, <2>1 DEF NextStatus, Profile
  <2>6. StatusInv'
    <3>1. Cached.condition = "none" => Raw(Cached)
      BY <1>6, <2>2 DEF Raw
    <3>2. QED
      BY <1>0, <1>2, <2>1, <2>2, <2>5, <3>1, CachedFacts DEF StatusInv
  <2>7. PatchInv' /\ RestInv'
    BY <1>2, <1>6, <2>1, <2>2 DEF PatchInv, RestInv, Quiet
  <2>8. QED
    BY <1>4, <2>4, <2>6, <2>7 DEF IInv
<1>7. CASE Cached = Absent \/ (~NeedsPatch(Cached) /\ Cached.deleting)
  <2>1. UNCHANGED <<pc, profile>>
    BY <1>7 DEF Reconcile
  <2>2. TypeOK'
    BY <1>0, <1>1, <2>1 DEF TypeOK, ApiTypeOK
  <2>3. PatchInv' /\ StatusInv'
    BY <1>1, <2>1 DEF PatchInv, StatusInv
  <2>4. RestInv'
    BY <1>1, <1>2, <1>3, <1>7, <2>1 DEF RestInv, Quiet, StatusIsTrue
  <2>5. QED
    BY <1>4, <2>2, <2>3, <2>4 DEF IInv
<1>8. QED
  BY <1>5, <1>6, <1>7

\* The object is read again: the list to send is computed from what the cache shows now.
LEMMA PatchGetStep == IInv /\ PatchGet => IInv'
<1> SUFFICES ASSUME IInv, PatchGet PROVE IInv'
  OBVIOUS
<1>0. TypeOK /\ HistoryInv /\ PatchInv /\ StatusInv /\ RestInv /\ ApiTypeOK(Profile)
  BY DEF IInv, TypeOK
<1>1. pc = "patchGet" /\ UNCHANGED <<versions, fresh, lost, budget>>
  BY DEF PatchGet
<1>2. /\ Live' = Live /\ Cached' = Cached /\ Known' = Known
      /\ CacheIsLive' <=> CacheIsLive
      /\ \A a, b : Precedes(a, b)' <=> Precedes(a, b)
  BY <1>1, SameVersions
<1>3. Cached \in Profile \cup {Absent}
  BY <1>0, KnownStates
<1>4. HistoryInv'
  BY <1>0, <1>1, <1>2 DEF HistoryInv
<1> DEFINE mutated == IF profile.deleting THEN Cached.finalizers \ {"own"}
                                          ELSE Cached.finalizers \cup {"own"}
<1>5. CASE Cached = Absent \/ mutated = Cached.finalizers
  <2>1. /\ pc' = "idle" /\ profile' = Absent /\ wanted' = {}
        /\ queued' = TRUE \/ queued' = queued
    BY <1>0, <1>5 DEF PatchGet, Done, ApiTypeOK, TypeOK
  <2>2. queued' = TRUE
    <3>1. CASE Cached = Absent
      BY <3>1 DEF PatchGet, Done
    <3>2. CASE Cached # Absent /\ ~profile.deleting
      BY <1>5, <3>2 DEF PatchGet, Done
    <3>3. CASE Cached # Absent /\ profile.deleting
      <4>1. "own" \notin Cached.finalizers
        BY <1>5, <3>3
      <4>2. queued = TRUE
        BY <1>0, <1>1, <3>3, <4>1 DEF RestInv, NeedsPatch, HasFinalizer, ApiTypeOK
      <4>3. QED
        BY <1>5, <3>3, <4>2 DEF PatchGet, Done
    <3>4. QED
      BY <3>1, <3>2, <3>3
  <2>3. TypeOK'
    BY <1>0, <1>1, <2>1, <2>2 DEF TypeOK, ApiTypeOK
  <2>4. PatchInv' /\ StatusInv' /\ RestInv'
    BY <2>1, <2>2 DEF PatchInv, StatusInv, RestInv, Quiet
  <2>5. QED
    BY <1>4, <2>3, <2>4 DEF IInv
<1>6. CASE Cached # Absent /\ mutated # Cached.finalizers
  <2>1. pc' = "patch" /\ wanted' = mutated /\ UNCHANGED <<profile, queued>>
    BY <1>6 DEF PatchGet
  <2>2. mutated \subseteq Finalizers /\ ("own" \in mutated <=> ~profile.deleting)
    BY <1>3, <1>6 DEF Profile, Finalizers
  <2>3. TypeOK'
    BY <1>0, <1>1, <2>1, <2>2 DEF TypeOK, ApiTypeOK
  <2>4. PatchInv' /\ StatusInv'
    BY <1>0, <1>1, <1>2, <2>1, <2>2 DEF PatchInv, StatusInv
  <2>5. RestInv'
    BY <1>0, <1>1, <1>2, <1>6, <2>1 DEF RestInv, Quiet
  <2>6. QED
    BY <1>4, <2>3, <2>4, <2>5 DEF IInv
<1>7. QED
  BY <1>5, <1>6

\* The whole list is replaced, whatever became of the object in between.
LEMMA PatchStep == IInv /\ Patch => IInv'
<1> SUFFICES ASSUME IInv, Patch PROVE IInv'
  OBVIOUS
<1>0. TypeOK /\ HistoryInv /\ PatchInv /\ StatusInv /\ RestInv /\ ApiTypeOK(Profile)
  BY DEF IInv, TypeOK
<1>1. /\ pc = "patch" /\ Live # Absent
      /\ ~Live.deleting \/ wanted \subseteq Live.finalizers
      /\ pc' = "idle" /\ profile' = Absent /\ wanted' = {}
      /\ queued' = (queued \/ ~profile.deleting)
      /\ UNCHANGED <<lost, budget>>
  BY DEF Patch, PatchRefused, Done
<1> DEFINE object == [Live EXCEPT !.finalizers = wanted]
           new == Stored(object)
<1>2. Live \in Profile /\ Live \in Known /\ Known \subseteq Profile \cup {Absent}
  BY <1>0, <1>1, KnownStates
<1>3. /\ object \in Profile /\ object.finalizers = wanted
      /\ object.deleting = Live.deleting /\ object.condition = Live.condition
      /\ object.generation = Live.generation
  BY <1>0, <1>2 DEF Profile, TypeOK
<1>4. /\ versions' = IF new = Live THEN versions ELSE Append(versions, new)
      /\ fresh' = (fresh /\ new = Live)
  BY DEF Patch, Write
<1>5. new = object \/ (new = Absent /\ wanted = {})
  BY <1>3 DEF Stored
<1> HIDE DEF object, new
<1>6. new \in Profile \cup {Absent}
  BY <1>3, <1>5
<1>7. /\ versions' \in Seq(Profile \cup {Absent}) /\ versions' # <<>>
      /\ Live' = new /\ Cached' = Cached /\ Known' = Known \cup {new}
      /\ CacheIsLive' <=> CacheIsLive /\ new = Live
  BY <1>0, <1>4, <1>6, WriteFacts
<1>8. TypeOK'
  <2>1. fresh' \in BOOLEAN /\ queued' \in BOOLEAN
    BY <1>1, <1>4, Zenon
  <2>2. QED
    BY <1>0, <1>1, <1>7, <2>1 DEF TypeOK, ApiTypeOK
<1>9. /\ Judged(new) => Judged(Live) /\ ~Raw(new)
      /\ HasOwn(new) <=> ~profile.deleting
      /\ Leaving(Live) => ~Kept(new)
      /\ new # Absent => new.condition = Live.condition /\ new.generation = Live.generation
  BY <1>0, <1>1, <1>3, <1>5
     DEF PatchInv, HasOwn, Kept, Leaving, Judged, Raw, HasFinalizer
<1>10. Live.generation + budget' <= Budget
  BY <1>0, <1>1 DEF HistoryInv
<1>11. HistoryInv'
  <2>1. ASSUME NEW a \in Known \cup {new}, NEW b \in Known \cup {new}, Precedes(a, b)'
        PROVE  /\ ~(HasOwn(a) <=> HasOwn(b)) => (HasOwn(new) <=> HasOwn(b))
               /\ Kept(a) => HasOwn(b)
               /\ Leaving(a) => ~Kept(b)
               /\ Kept(a) /\ a.condition # "none" => b.condition # "none"
    <3>1. CASE Precedes(a, b)
      <4>1. a \in Known /\ b \in Known
        BY <1>0, <3>1, KnownOrder
      <4>2. ~(HasOwn(a) <=> HasOwn(b)) => (HasOwn(new) <=> HasOwn(b))
        <5>1. CASE profile.deleting
          BY <1>0, <1>1, <1>9, <3>1, <4>1, <5>1 DEF HistoryInv, PatchInv
        <5>2. CASE ~profile.deleting
          BY <1>0, <1>1, <1>9, <3>1, <4>1, <5>2 DEF HistoryInv, PatchInv
        <5>3. QED
          BY <5>1, <5>2
      <4>3. QED
        BY <1>0, <3>1, <4>1, <4>2 DEF HistoryInv
    <3>2. CASE a \in Known /\ b = new
      <4>1. a = Live \/ Precedes(a, Live)
        BY <1>0, <3>2, KnownOrder
      <4>2. Kept(a) => ~profile.deleting
        BY <1>0, <1>1, <3>2 DEF PatchInv
      <4>3. Kept(a) => new # Absent
        BY <1>9, <4>2 DEF HasOwn
      <4>4. Kept(a) /\ a.condition # "none" => new.condition # "none"
        BY <1>0, <1>2, <1>9, <3>2, <4>1, <4>3 DEF HistoryInv
      <4>5. Leaving(a) => ~Kept(new)
        <5>1. CASE profile.deleting
          BY <1>9, <5>1 DEF Kept, HasOwn
        <5>2. CASE ~profile.deleting /\ HasOwn(Live)
          <6>1. Leaving(a) => ~Kept(Live)
            BY <1>0, <1>2, <3>2, <4>1 DEF HistoryInv, Leaving, Kept
          <6>2. ~Kept(Live) => Leaving(Live)
            BY <5>2 DEF Kept, Leaving, HasOwn
          <6>3. QED
            BY <1>9, <6>1, <6>2
        <5>3. CASE ~profile.deleting /\ ~HasOwn(Live)
          BY <1>0, <1>1, <3>2, <5>3 DEF PatchInv, Leaving, HasOwn
        <5>4. QED
          BY <5>1, <5>2, <5>3
      <4>6. QED
        BY <1>9, <3>2, <4>2, <4>4, <4>5
    <3>3. QED
      BY <1>0, <1>4, <1>6, <2>1, <3>1, <3>2, WriteOrder
  <2>2. QED
    BY <1>0, <1>7, <1>9, <1>10, <2>1 DEF HistoryInv
<1>12. PatchInv' /\ StatusInv'
  BY <1>1 DEF PatchInv, StatusInv
<1>13. RestInv'
  <2>1. ~queued' => ~queued /\ profile.deleting
    BY <1>1
  <2>2. ~queued => wanted # Cached.finalizers
    BY <1>0, <1>1 DEF RestInv
  <2>3. ~queued' /\ CacheIsLive' => new = Live /\ Cached = Live
    BY <1>0, <1>7, KnownStates
  <2>4. ~(~queued' /\ CacheIsLive')
    BY <1>1, <1>3, <1>5, <2>1, <2>2, <2>3
  <2>5. QED
    BY <1>1, <2>4 DEF RestInv, Quiet
<1>14. QED
  BY <1>8, <1>11, <1>12, <1>13 DEF IInv

\* A patch that is refused or fails queues the Profile again.
LEMMA PatchFailsStep == IInv /\ PatchFails => IInv'
<1> SUFFICES ASSUME IInv, PatchFails PROVE IInv'
  OBVIOUS
<1>0. TypeOK /\ HistoryInv /\ PatchInv /\ StatusInv /\ RestInv /\ ApiTypeOK(Profile)
  BY DEF IInv, TypeOK
<1>1. /\ pc' = "idle" /\ profile' = Absent /\ wanted' = {} /\ queued' = TRUE
      /\ budget' = budget \/ (budget > 0 /\ budget' = budget - 1)
      /\ UNCHANGED <<versions, fresh, lost>>
  BY DEF PatchFails, Done, Spend
<1>2. /\ Live' = Live /\ Cached' = Cached /\ Known' = Known
      /\ CacheIsLive' <=> CacheIsLive
      /\ \A a, b : Precedes(a, b)' <=> Precedes(a, b)
  BY <1>1, SameVersions
<1>3. budget \in 0..Budget /\ budget' \in 0..Budget /\ budget' <= budget
  BY <1>0, <1>1 DEF ApiTypeOK
<1>4. TypeOK'
  BY <1>0, <1>1, <1>3 DEF TypeOK, ApiTypeOK
<1>5. HistoryInv'
  <2>1. Live \in Profile \cup {Absent}
    BY <1>0, KnownStates
  <2>2. Live # Absent => Live.generation \in Nat
    BY <2>1 DEF Profile
  <2>3. Live # Absent => Live.generation + budget' <= Budget
    BY <1>0, <1>3, <2>2 DEF HistoryInv
  <2>4. QED
    BY <1>0, <1>2, <2>3 DEF HistoryInv
<1>6. PatchInv' /\ StatusInv' /\ RestInv'
  BY <1>1 DEF PatchInv, StatusInv, RestInv, Quiet
<1>7. QED
  BY <1>4, <1>5, <1>6 DEF IInv

\* The status is written on the version read last.
LEMMA StatusGetStep == IInv /\ StatusGet => IInv'
<1> SUFFICES ASSUME IInv, StatusGet PROVE IInv'
  OBVIOUS
<1>0. TypeOK /\ HistoryInv /\ PatchInv /\ StatusInv /\ RestInv /\ ApiTypeOK(Profile)
  BY DEF IInv, TypeOK
<1>1. pc = "statusGet" /\ UNCHANGED <<versions, lost, budget>>
  BY DEF StatusGet
<1>2. /\ Live' = Live /\ Cached' = Cached /\ Known' = Known
      /\ CacheIsLive' <=> CacheIsLive
      /\ \A a, b : Precedes(a, b)' <=> Precedes(a, b)
  BY <1>1, SameVersions
<1>3. Cached \in Known /\ (CacheIsLive => Cached = Live)
  BY <1>0, KnownStates
<1>4. Cached # Absent
  BY <1>0, <1>1, <1>3 DEF StatusInv, HasOwn
<1>5. pc' = "statusUpdate" /\ fresh' = CacheIsLive /\ UNCHANGED <<profile, wanted, queued>>
  BY <1>4 DEF StatusGet
<1>6. TypeOK'
  BY <1>0, <1>1, <1>5 DEF TypeOK, ApiTypeOK, CacheIsLive
<1>7. HistoryInv'
  BY <1>0, <1>1, <1>2 DEF HistoryInv
<1>8. PatchInv' /\ StatusInv' /\ RestInv'
  BY <1>0, <1>1, <1>2, <1>3, <1>4, <1>5 DEF PatchInv, StatusInv, RestInv, Quiet
<1>9. QED
  BY <1>6, <1>7, <1>8 DEF IInv

\* The status that is written takes no verdict back.
LEMMA StatusUpdateFacts ==
    ASSUME IInv, StatusUpdate
    PROVE  \E new \in Profile \cup {Absent} :
               /\ versions' = IF new = Live THEN versions ELSE Append(versions, new)
               /\ fresh' = (fresh /\ new = Live)
               /\ Live # Absent /\ new # Absent
               /\ new.finalizers = Live.finalizers /\ new.deleting = Live.deleting
               /\ new.generation = Live.generation /\ new.valid = Live.valid
               /\ new.condition = profile.condition
<1>1. /\ pc = "statusUpdate" /\ fresh
      /\ Write([Live EXCEPT !.condition = profile.condition, !.observed = profile.observed])
  BY DEF StatusUpdate, Conflict
<1>2. /\ Live \in Profile /\ Live # Absent /\ HasFinalizer(Live)
      /\ profile \in Profile
  <2>1. Live \in Profile \cup {Absent} /\ Live \in Known
    BY KnownStates DEF IInv, TypeOK
  <2>2. QED
    BY <1>1, <2>1 DEF IInv, TypeOK, StatusInv, HasOwn
<1> DEFINE new == [Live EXCEPT !.condition = profile.condition, !.observed = profile.observed]
<1>3. profile.condition \in Conditions /\ profile.observed \in 0..Budget
  BY <1>2 DEF Profile
<1>4. /\ new \in Profile /\ new # Absent
      /\ new.finalizers = Live.finalizers /\ new.deleting = Live.deleting
      /\ new.generation = Live.generation /\ new.valid = Live.valid
      /\ new.condition = profile.condition
  BY <1>2, <1>3 DEF Profile
<1>5. Stored(new) = new
  BY <1>2, <1>4 DEF Stored, HasFinalizer
<1>6. Write(new)
  BY <1>1
<1> HIDE DEF new
<1>7. QED
  BY <1>2, <1>4, <1>5, <1>6 DEF Write

\* A status that is accepted is that of the live object.
LEMMA StatusUpdateStep == IInv /\ StatusUpdate => IInv'
<1> SUFFICES ASSUME IInv, StatusUpdate PROVE IInv'
  OBVIOUS
<1>0. TypeOK /\ HistoryInv /\ PatchInv /\ StatusInv /\ RestInv /\ ApiTypeOK(Profile)
  BY DEF IInv, TypeOK
<1>1. /\ pc = "statusUpdate"
      /\ pc' = "idle" /\ profile' = Absent /\ wanted' = {}
      /\ queued' = (queued \/ profile.condition = "pending")
      /\ UNCHANGED <<lost, budget>>
  BY DEF StatusUpdate, Done
<1>2. PICK new \in Profile \cup {Absent} :
          /\ versions' = IF new = Live THEN versions ELSE Append(versions, new)
          /\ fresh' = (fresh /\ new = Live)
          /\ Live # Absent /\ new # Absent
          /\ new.finalizers = Live.finalizers /\ new.deleting = Live.deleting
          /\ new.generation = Live.generation /\ new.valid = Live.valid
          /\ new.condition = profile.condition
  BY StatusUpdateFacts
<1>3. /\ versions' \in Seq(Profile \cup {Absent}) /\ versions' # <<>>
      /\ Live' = new /\ Cached' = Cached /\ Known' = Known \cup {new}
      /\ CacheIsLive' <=> CacheIsLive /\ new = Live
  BY <1>0, <1>2, WriteFacts
<1>4. Live \in Known
  BY <1>0, KnownStates
<1>5. TypeOK'
  <2>1. fresh' \in BOOLEAN /\ queued' \in BOOLEAN
    BY <1>1, <1>2, Zenon
  <2>2. QED
    BY <1>0, <1>1, <1>3, <2>1 DEF TypeOK, ApiTypeOK
<1>6. HistoryInv'
  <2>1. /\ HasOwn(new) <=> HasOwn(Live)
        /\ Leaving(Live) => ~Kept(new)
        /\ Kept(new) => HasOwn(Live) /\ ~Leaving(Live)
    BY <1>2 DEF HasOwn, Kept, Leaving, HasFinalizer
  <2>2. /\ new.condition # "none"
        /\ Judged(new) => ~Raw(new) /\ \A object \in Known : ~Raw(object)
    BY <1>0, <1>1, <1>2 DEF StatusInv, Judged, Raw
  <2>3. new.generation + budget' <= Budget
    BY <1>0, <1>1, <1>2 DEF HistoryInv
  <2>4. QED
    BY <1>0, <1>2, <2>1, <2>2, <2>3, HistoryKept
<1>7. PatchInv' /\ StatusInv'
  BY <1>1 DEF PatchInv, StatusInv
<1>8. RestInv'
  <2>1. SUFFICES ASSUME ~queued', CacheIsLive'
                 PROVE  ~NeedsPatch(Live') /\ StatusIsTrue'
    BY <1>1 DEF RestInv, Quiet
  <2>2. ~queued /\ profile.condition # "pending" /\ Cached = Live /\ new = Live
    BY <1>0, <1>1, <1>3, <2>1, KnownStates
  <2>3. ~Live.deleting /\ HasFinalizer(Live) /\ profile = NextStatus(Live)
    BY <1>0, <1>1, <2>2 DEF RestInv
  <2>4. Live \in Profile
    BY <1>2, <2>2
  <2>5. profile.condition = IF Live.valid THEN "ready" ELSE "invalid"
    BY <2>2, <2>3, <2>4 DEF NextStatus, Profile
  <2>6. QED
    BY <1>2, <1>3, <2>2, <2>3, <2>5 DEF NeedsPatch, StatusIsTrue
<1>9. QED
  BY <1>5, <1>6, <1>7, <1>8 DEF IInv

\* A status that is lost is remembered as such, unless something changed meanwhile.
LEMMA StatusUpdateFailsStep == IInv /\ StatusUpdateFails => IInv'
<1> SUFFICES ASSUME IInv, StatusUpdateFails PROVE IInv'
  OBVIOUS
<1>0. TypeOK /\ HistoryInv /\ PatchInv /\ StatusInv /\ RestInv /\ ApiTypeOK(Profile)
  BY DEF IInv, TypeOK
<1>1. /\ pc = "statusUpdate"
      /\ pc' = "idle" /\ profile' = Absent /\ wanted' = {}
      /\ queued' = (queued \/ profile.condition = "pending")
      /\ \/ ~fresh /\ budget' = budget /\ lost' = lost
         \/ budget > 0 /\ budget' = budget - 1 /\ lost' = TRUE
      /\ UNCHANGED <<versions, fresh>>
  BY DEF StatusUpdateFails, Conflict, Done, Spend
<1>2. /\ Live' = Live /\ Cached' = Cached /\ Known' = Known
      /\ CacheIsLive' <=> CacheIsLive
      /\ \A a, b : Precedes(a, b)' <=> Precedes(a, b)
  BY <1>1, SameVersions
<1>3. budget \in 0..Budget /\ budget' \in 0..Budget /\ budget' <= budget
  BY <1>0, <1>1 DEF ApiTypeOK
<1>4. TypeOK'
  <2>1. queued' \in BOOLEAN
    BY <1>1, Zenon
  <2>2. QED
    BY <1>0, <1>1, <1>3, <2>1 DEF TypeOK, ApiTypeOK
<1>5. HistoryInv'
  <2>1. Live \in Profile \cup {Absent}
    BY <1>0, KnownStates
  <2>2. Live # Absent => Live.generation \in Nat
    BY <2>1 DEF Profile
  <2>3. Live # Absent => Live.generation + budget' <= Budget
    BY <1>0, <1>3, <2>2 DEF HistoryInv
  <2>4. QED
    BY <1>0, <1>2, <2>3 DEF HistoryInv
<1>6. PatchInv' /\ StatusInv'
  BY <1>1 DEF PatchInv, StatusInv
<1>7. RestInv'
  <2>1. SUFFICES ASSUME ~queued', CacheIsLive'
                 PROVE  ~NeedsPatch(Live) /\ lost'
    BY <1>1, <1>2 DEF RestInv, Quiet
  <2>2. ~queued /\ CacheIsLive /\ Cached = Live
    BY <1>0, <1>1, <1>2, <2>1, KnownStates
  <2>3. fresh /\ ~Live.deleting /\ HasFinalizer(Live)
    BY <1>0, <1>1, <2>2 DEF RestInv
  <2>4. QED
    BY <1>1, <2>3 DEF NeedsPatch
<1>8. QED
  BY <1>4, <1>5, <1>6, <1>7 DEF IInv

\* Every step keeps the invariant.
LEMMA NextStep == IInv /\ [Next]_vars => IInv'
<1>1. IInv /\ UNCHANGED vars => IInv'
  <2> SUFFICES ASSUME IInv, UNCHANGED vars PROVE IInv'
    OBVIOUS
  <2>0. TypeOK /\ HistoryInv /\ PatchInv /\ StatusInv /\ RestInv
    BY DEF IInv
  <2>1. UNCHANGED <<versions, queued, fresh, budget, pc, profile, wanted, lost>>
    BY DEF vars, work
  <2>2. /\ Live' = Live /\ Cached' = Cached /\ Known' = Known
        /\ CacheIsLive' <=> CacheIsLive
        /\ \A a, b : Precedes(a, b)' <=> Precedes(a, b)
    BY <2>1, SameVersions
  <2>3. TypeOK' /\ HistoryInv'
    BY <2>0, <2>1, <2>2 DEF TypeOK, ApiTypeOK, HistoryInv
  <2>4. PatchInv' /\ StatusInv' /\ RestInv'
    BY <2>0, <2>1, <2>2 DEF PatchInv, StatusInv, RestInv, Quiet, StatusIsTrue
  <2>5. QED
    BY <2>3, <2>4 DEF IInv
<1>2. QED
  BY <1>1, EnvironmentStep, ViewStep, ReconcileStep, PatchGetStep, PatchStep, PatchFailsStep,
     StatusGetStep, StatusUpdateStep, StatusUpdateFailsStep
     DEF Next, Controller

-----------------------------------------------------------------------------
(* The theorems                                                            *)

\* The versions of a Profile and the copy a reconcile works on stay in the relation IInv
\* describes, whatever the cache still shows.
THEOREM ProfileInvariant == Spec => []IInv
<1>1. QED
  BY InitIInv, NextStep, PTL DEF Spec

\* The variables keep their types; in particular the generation never outgrows Budget.
THEOREM ProfileTypeCorrect == Spec => []TypeOK
<1>1. IInv => TypeOK
  BY DEF IInv
<1>2. QED
  BY <1>1, ProfileInvariant, PTL

\* With nothing left to do, the Profile has the finalizer and the conditions its template
\* deserves, unless the last status write was lost to an error other than a conflict.
THEOREM QuietIsValidated == Spec => []QuietMeansValidated
<1>1. IInv => QuietMeansValidated
  BY DEF IInv, RestInv, QuietMeansValidated
<1>2. QED
  BY <1>1, ProfileInvariant, PTL

\* A deleted Profile never waits for a controller that has nothing left to do.
THEOREM QuietIsReleased == Spec => []QuietMeansReleased
<1>1. IInv => QuietMeansReleased
  BY DEF IInv, RestInv, QuietMeansReleased, NeedsPatch
<1>2. QED
  BY <1>1, ProfileInvariant, PTL

\* No step leaves "pending" where a verdict was.
LEMMA VerdictStep ==
    ASSUME IInv, [Next]_vars, Live # Absent, Live' # Absent,
           Live.condition \in {"ready", "invalid"}
    PROVE  Live'.condition # "pending"
<1>0. TypeOK /\ HistoryInv /\ StatusInv /\ ApiTypeOK(Profile)
  BY DEF IInv, TypeOK
<1>1. CASE Environment
  <2>1. PICK new \in Profile \cup {Absent} :
            /\ versions' = IF new = Live THEN versions ELSE Append(versions, new)
            /\ MadeByOthers(Live, new)
    BY <1>0, <1>1, OthersFacts
  <2>2. Live' = new
    BY <1>0, <2>1, WriteFacts
  <2>3. QED
    BY <2>1, <2>2 DEF MadeByOthers
<1>2. CASE CacheStep \/ Restart
  <2>1. PICK n \in 1..Len(versions) : versions' = SubSeq(versions, n, Len(versions))
    BY <1>0, <1>2 DEF CacheStep, CacheCatchesUp, Restart, Relist, ApiTypeOK
  <2>2. QED
    BY <1>0, <2>1, SuffixFacts
<1>3. CASE Patch
  <2> DEFINE new == Stored([Live EXCEPT !.finalizers = wanted])
  <2>1. Live \in Profile
    BY <1>0, KnownStates
  <2>2. /\ new \in Profile \cup {Absent}
        /\ new # Absent => new.condition = Live.condition
    BY <1>0, <2>1 DEF Stored, Profile, TypeOK
  <2>3. versions' = IF new = Live THEN versions ELSE Append(versions, new)
    BY <1>3 DEF Patch, Write
  <2> HIDE DEF new
  <2>4. Live' = new
    BY <1>0, <2>2, <2>3, WriteFacts
  <2>5. QED
    BY <2>2, <2>4
<1>4. CASE StatusUpdate
  <2>1. PICK new \in Profile \cup {Absent} :
            /\ versions' = IF new = Live THEN versions ELSE Append(versions, new)
            /\ new.condition = profile.condition
    BY <1>4, StatusUpdateFacts
  <2>2. Live' = new
    BY <1>0, <2>1, WriteFacts
  <2>3. profile.condition # "pending"
    BY <1>0, <1>4 DEF StatusUpdate, StatusInv, Judged
  <2>4. QED
    BY <2>1, <2>2, <2>3
<1>5. CASE UNCHANGED versions
  BY <1>5, SameVersions
<1>6. QED
  BY <1>1, <1>2, <1>3, <1>4, <1>5
     DEF Next, Controller, ResyncStep, Resync, Reconcile, PatchGet, PatchFails, StatusGet,
         StatusUpdateFails, vars

\* A verdict is never taken back: no write from a stale copy resets the conditions of a
\* Profile that has been validated.
THEOREM VerdictIsKept == Spec => VerdictIsNotReset
<1>1. IInv /\ [Next]_vars =>
          [(Live # Absent /\ Live' # Absent) =>
               (Live.condition \in {"ready", "invalid"} => Live'.condition # "pending")]_vars
  BY VerdictStep
<1>2. QED
  BY <1>1, ProfileInvariant, PTL DEF Spec, VerdictIsNotReset
=============================================================================
