----------------------- MODULE BindingControllerProofs -----------------------
(* The safety properties of BindingController, for any specs and however     *)
(* much users, other controllers and failing calls may do.                   *)
EXTENDS BindingController, ApiObjectProofs, TargetSelectorProofs

USE BudgetIsANumber, AbsentIsNoBinding, SpecsAreNotMarkers

-----------------------------------------------------------------------------
(* Facts about the writes                                                  *)

\* What a write of a user or another controller makes of the object: they know
\* nothing of its status, leave the operator's finalizer alone, and raise the
\* generation with the spec
MadeByOthers(old, new) ==
    IF old = Absent
    THEN /\ new # Absent
         /\ ~new.deleting /\ ~HasFinalizer(new)
         /\ new.ready = "none" /\ new.generation = 1 /\ new.observed = 0
    ELSE IF new = Absent
    THEN ~HasFinalizer(old)
    ELSE /\ HasFinalizer(new) <=> HasFinalizer(old)
         /\ new.ready = old.ready /\ new.observed = old.observed
         /\ old.deleting => new.deleting
         /\ \/ /\ new.generation = old.generation
               /\ new.spec = old.spec /\ new.deleting = old.deleting
            \/ new.generation = old.generation + 1

\* A write of somebody else is one of those.
LEMMA OthersFacts ==
    ASSUME TypeOK, VersionsInv, OthersWrite
    PROVE  \E new \in ProfileBinding \cup {Absent} :
               /\ versions' = IF new = Live THEN versions ELSE Append(versions, new)
               /\ fresh' = (fresh /\ new = Live)
               /\ budget' = budget - 1 /\ budget' \in 0..Budget
               /\ new # Absent => new.generation + budget' <= Budget
               /\ MadeByOthers(Live, new)
<1>1. Live \in ProfileBinding \cup {Absent}
  BY KnownStates DEF TypeOK
<1>2. /\ budget \in 0..Budget
      /\ Live # Absent => Live.generation + budget <= Budget
  BY DEF TypeOK, ApiTypeOK, VersionsInv
<1>3. CASE UserCreates
  <2>1. PICK spec \in Specs, finalizers \in {{}, {"other"}} :
                Create([spec |-> spec, finalizers |-> finalizers, deleting |-> FALSE,
                        generation |-> 1, ready |-> "none", observed |-> 0])
    BY <1>3 DEF UserCreates
  <2> DEFINE new == [spec |-> spec, finalizers |-> finalizers, deleting |-> FALSE,
                     generation |-> 1, ready |-> "none", observed |-> 0]
  <2>2. Live = Absent /\ budget > 0 /\ budget' = budget - 1
    BY <2>1 DEF Create, Spend
  <2>3. new \in ProfileBinding
    BY <1>2, <2>2 DEF ProfileBinding, Finalizers, Reasons
  <2>4. Stored(new) = new
    BY DEF Stored
  <2>5. QED
    BY <1>2, <2>1, <2>2, <2>3, <2>4 DEF Create, Write, MadeByOthers, HasFinalizer
<1>4. CASE UserEdits
  <2>1. PICK spec \in Specs \ {Live.spec} :
                Write([Live EXCEPT !.spec = spec, !.generation = Live.generation + 1])
    BY <1>4 DEF UserEdits
  <2> DEFINE new == [Live EXCEPT !.spec = spec, !.generation = Live.generation + 1]
  <2>2. Live # Absent /\ budget > 0 /\ budget' = budget - 1 /\ Write(new)
    BY <1>4, <2>1 DEF UserEdits, Spend
  <2>3. Live.generation + 1 \in 1..Budget /\ Live.generation + 1 + budget' <= Budget
    BY <1>1, <1>2, <2>2 DEF ProfileBinding
  <2>4. new \in ProfileBinding /\ new.generation = Live.generation + 1
    BY <1>1, <2>2, <2>3 DEF ProfileBinding
  <2>5. Stored(new) = new \/ (Stored(new) = Absent /\ ~HasFinalizer(Live))
    BY <1>1, <2>2 DEF Stored, ProfileBinding, HasFinalizer
  <2>6. MadeByOthers(Live, Stored(new))
    BY <1>1, <2>2, <2>4, <2>5 DEF MadeByOthers, HasFinalizer, ProfileBinding
  <2> HIDE DEF new
  <2>7. QED
    BY <1>2, <2>1, <2>2, <2>3, <2>4, <2>5, <2>6 DEF Write
<1>5. CASE Delete
  <2> DEFINE new == [Live EXCEPT !.deleting = TRUE, !.generation = @ + 1]
  <2>1. Live # Absent /\ budget > 0 /\ budget' = budget - 1 /\ Write(new)
    BY <1>5 DEF Delete, Spend
  <2>2. Live.generation + 1 \in 1..Budget /\ Live.generation + 1 + budget' <= Budget
    BY <1>1, <1>2, <2>1 DEF ProfileBinding
  <2>3. new \in ProfileBinding /\ new.generation = Live.generation + 1
    BY <1>1, <2>1, <2>2 DEF ProfileBinding
  <2>4. Stored(new) = new \/ (Stored(new) = Absent /\ ~HasFinalizer(Live))
    BY <1>1, <2>1 DEF Stored, ProfileBinding, HasFinalizer
  <2>5. MadeByOthers(Live, Stored(new))
    BY <1>1, <2>1, <2>3, <2>4 DEF MadeByOthers, HasFinalizer, ProfileBinding
  <2> HIDE DEF new
  <2>6. QED
    BY <1>2, <2>1, <2>2, <2>3, <2>4, <2>5 DEF Write
<1>6. CASE OthersFinalizer
  <2>1. PICK finalizers \in SUBSET Finalizers :
            /\ Write([Live EXCEPT !.finalizers = finalizers])
            /\ "own" \in finalizers <=> HasFinalizer(Live)
    BY <1>1, <1>6 DEF OthersFinalizer, ProfileBinding, HasFinalizer, Finalizers
  <2> DEFINE new == [Live EXCEPT !.finalizers = finalizers]
  <2>2. Live # Absent /\ budget > 0 /\ budget' = budget - 1 /\ Write(new)
    BY <1>6, <2>1 DEF OthersFinalizer, Spend
  <2>3. new \in ProfileBinding
    BY <1>1, <1>2, <2>2 DEF ProfileBinding
  <2>4. Stored(new) = new \/ (Stored(new) = Absent /\ ~HasFinalizer(Live))
    BY <1>1, <2>1, <2>2 DEF Stored, ProfileBinding, HasFinalizer
  <2>5. MadeByOthers(Live, Stored(new)) /\ new.generation = Live.generation
    BY <1>1, <2>1, <2>2, <2>3, <2>4 DEF MadeByOthers, HasFinalizer, ProfileBinding
  <2>6. Stored(new) # Absent => Stored(new) = new
    BY DEF Stored
  <2>7. Live.generation \in Nat /\ budget' \in 0..Budget
    BY <1>1, <1>2, <2>2 DEF ProfileBinding
  <2> HIDE DEF new
  <2>8. QED
    BY <1>2, <2>2, <2>3, <2>4, <2>5, <2>6, <2>7 DEF Write
<1>7. QED
  BY <1>3, <1>4, <1>5, <1>6 DEF OthersWrite

-----------------------------------------------------------------------------
(* The invariant                                                           *)

\* The initial states satisfy it.
LEMMA InitIInv == Init => IInv
<1> SUFFICES ASSUME Init PROVE IInv
  OBVIOUS
<1>1. versions = <<Absent>> /\ queued = FALSE /\ fresh = FALSE /\ budget = Budget
  BY DEF Init, ApiInit
<1>2. Live = Absent /\ Cached = Absent /\ Known = {Absent}
  BY <1>1 DEF Live, Cached, Known
<1>3. TypeOK
  <2>1. versions \in Seq(ProfileBinding \cup {Absent}) /\ versions # <<>>
    <3>1. Absent \in ProfileBinding \cup {Absent}
      OBVIOUS
    <3> HIDE DEF ProfileBinding
    <3>2. QED
      BY <1>1, <3>1
  <2>2. queued \in BOOLEAN /\ fresh \in BOOLEAN
    BY <1>1, Zenon
  <2>3. budget \in 0..Budget
    BY <1>1
  <2>4. QED
    BY <2>1, <2>2, <2>3 DEF Init, TypeOK, ApiTypeOK
<1>4. VersionsInv /\ CopyInv /\ FreshInv
  BY <1>1, <1>2 DEF Init, VersionsInv, CopyInv, FreshInv, Reading
<1>5. RestInv
  BY <1>2 DEF Init, RestInv, Reading, Released, Alive
<1>6. AgentInv
  BY DEF Init, AgentInv
<1>7. QED
  BY <1>3, <1>4, <1>5, <1>6 DEF IInv

\* A write of somebody else keeps it.
LEMMA OthersStep == IInv /\ OthersWrite => IInv'
<1> SUFFICES ASSUME IInv, OthersWrite PROVE IInv'
  OBVIOUS
<1>0. TypeOK /\ VersionsInv /\ CopyInv /\ FreshInv /\ RestInv /\ AgentInv
  BY DEF IInv
<1>1. PICK new \in ProfileBinding \cup {Absent} :
          /\ versions' = IF new = Live THEN versions ELSE Append(versions, new)
          /\ fresh' = (fresh /\ new = Live)
          /\ budget' = budget - 1 /\ budget' \in 0..Budget
          /\ new # Absent => new.generation + budget' <= Budget
          /\ MadeByOthers(Live, new)
  BY <1>0, OthersFacts
<1>2. /\ versions' \in Seq(ProfileBinding \cup {Absent}) /\ versions' # <<>>
      /\ Live' = new /\ Cached' = Cached /\ Known' = Known \cup {new}
      /\ CacheIsLive' <=> CacheIsLive /\ new = Live
  BY <1>0, <1>1, WriteFacts DEF TypeOK
<1>3. UNCHANGED <<queued, profileExists, pc, binding, requeue, lost, activeBinding,
                  application, lastCaller, starter, listed>>
  BY DEF OthersWrite, work, agentVars, starterVars
<1>4. Known \subseteq ProfileBinding \cup {Absent} /\ Live \in Known
  BY <1>0, KnownStates DEF TypeOK
<1>5. LiveHasFinalizer' <=> LiveHasFinalizer
  BY <1>1, <1>2 DEF LiveHasFinalizer, MadeByOthers
<1>6. TypeOK'
  BY <1>0, <1>1, <1>2, <1>3 DEF TypeOK, ApiTypeOK
<1>7. VersionsInv'
  <2>1. new # Absent => Sound(new)
    <3> SUFFICES ASSUME new # Absent PROVE Sound(new)
      OBVIOUS
    <3>1. CASE Live = Absent
      BY <1>1, <3>1 DEF Sound, MadeByOthers
    <3>2. CASE Live # Absent
      <4>1. Sound(Live) /\ Live \in ProfileBinding /\ new \in ProfileBinding
        BY <1>0, <1>4, <3>2 DEF VersionsInv
      <4>2. QED
        BY <1>1, <3>2, <4>1 DEF Sound, MadeByOthers, ProfileBinding
    <3>3. QED
      BY <3>1, <3>2
  <2>2. new # Absent /\ HasFinalizer(new) => LiveHasFinalizer'
    BY <1>2 DEF LiveHasFinalizer
  <2>3. QED
    BY <1>0, <1>1, <1>2, <1>5, <2>1, <2>2 DEF VersionsInv
<1>8. CopyInv'
  BY <1>0, <1>3, <1>5 DEF CopyInv, Reading
<1>9. FreshInv'
  BY <1>0, <1>1, <1>2, <1>3 DEF FreshInv, Reading
<1>10. RestInv' /\ AgentInv'
  <2>1. Undisturbed' => Undisturbed /\ new = Live
    BY <1>2, <1>3 DEF Undisturbed
  <2>2. new = Live => Live' = Live /\ fresh' = fresh
    BY <1>1, <1>2, <1>0 DEF TypeOK, ApiTypeOK
  <2>3. QED
    BY <1>0, <1>2, <1>3, <1>5, <2>1, <2>2
       DEF RestInv, AgentInv, Released, Alive, Reading, InStep
<1>11. QED
  BY <1>6, <1>7, <1>8, <1>9, <1>10 DEF IInv

\* So do the informers, a Profile that comes or goes, and a restart.
LEMMA ViewStep ==
    IInv /\ (CacheStep \/ ResyncStep \/ ProfileChanges \/ Restart) => IInv'
<1> SUFFICES ASSUME IInv, CacheStep \/ ResyncStep \/ ProfileChanges \/ Restart PROVE IInv'
  OBVIOUS
<1>0. TypeOK /\ VersionsInv /\ CopyInv /\ FreshInv /\ RestInv /\ AgentInv
  BY DEF IInv
<1>1. Known \subseteq ProfileBinding \cup {Absent} /\ Live \in Known
  BY <1>0, KnownStates DEF TypeOK
<1>2. CASE CacheStep
  <2>1. PICK n \in 2..Len(versions) : versions' = SubSeq(versions, n, Len(versions))
    BY <1>2 DEF CacheStep, CacheCatchesUp
  <2>2. n \in 1..Len(versions)
    BY <1>0, <2>1 DEF TypeOK, ApiTypeOK
  <2>3. /\ versions' \in Seq(ProfileBinding \cup {Absent}) /\ versions' # <<>>
        /\ Live' = Live /\ Known' \subseteq Known
        /\ CacheIsLive' => Cached' = Live
    BY <1>0, <2>1, <2>2, SuffixFacts DEF TypeOK
  <2>4. queued' = TRUE /\ UNCHANGED <<fresh, budget, profileExists, pc, binding, requeue,
                             lost, activeBinding, application, lastCaller, starter, listed>>
    BY <1>2 DEF CacheStep, CacheCatchesUp, work, agentVars, starterVars
  <2>5. fresh /\ Reading => CacheIsLive'
    <3>1. Len(versions) = 1 => FALSE
      BY <2>1, <1>0 DEF TypeOK, ApiTypeOK
    <3>2. QED
      BY <1>0, <3>1 DEF FreshInv, CacheIsLive
  <2>6. TypeOK'
    BY <1>0, <2>3, <2>4 DEF TypeOK, ApiTypeOK
  <2>7. VersionsInv' /\ CopyInv'
    BY <1>0, <2>3, <2>4 DEF VersionsInv, CopyInv, Reading, LiveHasFinalizer
  <2>8. FreshInv'
    BY <1>0, <2>3, <2>4, <2>5 DEF FreshInv, Reading
  <2>9. RestInv' /\ AgentInv'
    BY <1>0, <2>3, <2>4 DEF RestInv, AgentInv, Undisturbed, LiveHasFinalizer
  <2>10. QED
    BY <2>6, <2>7, <2>8, <2>9 DEF IInv
<1>3. CASE ResyncStep
  <2>1. queued' = TRUE /\ UNCHANGED <<versions, fresh, budget, profileExists, pc, binding,
                    requeue, lost, activeBinding, application, lastCaller, starter, listed>>
    BY <1>3 DEF ResyncStep, Resync, work, agentVars, starterVars
  <2>2. Live' = Live /\ Cached' = Cached /\ Known' = Known /\ (CacheIsLive' <=> CacheIsLive)
    BY <2>1, SameVersions
  <2>3. TypeOK'
    BY <1>0, <2>1 DEF TypeOK, ApiTypeOK
  <2>4. VersionsInv' /\ CopyInv' /\ FreshInv'
    BY <1>0, <2>1, <2>2 DEF VersionsInv, CopyInv, FreshInv, Reading, LiveHasFinalizer
  <2>5. RestInv' /\ AgentInv'
    BY <1>0, <2>1, <2>2 DEF RestInv, AgentInv, Undisturbed, LiveHasFinalizer
  <2>6. QED
    BY <2>3, <2>4, <2>5 DEF IInv
<1>4. CASE ProfileChanges
  <2>1. /\ profileExists' \in BOOLEAN /\ budget > 0 /\ budget' = budget - 1
        /\ UNCHANGED <<versions, queued, fresh, pc, binding, requeue, lost, activeBinding,
                       application, lastCaller, starter, listed>>
    BY <1>0, <1>4 DEF ProfileChanges, Spend, work, agentVars, starterVars, TypeOK
  <2>2. Live' = Live /\ Cached' = Cached /\ Known' = Known /\ (CacheIsLive' <=> CacheIsLive)
    BY <2>1, SameVersions
  <2>3. budget \in 0..Budget /\ budget' \in 0..Budget
    BY <1>0, <2>1 DEF TypeOK, ApiTypeOK
  <2>4. TypeOK'
    BY <1>0, <2>1, <2>3 DEF TypeOK, ApiTypeOK
  <2>5. VersionsInv'
    <3>1. Live # Absent => Live.generation \in Nat
      BY <1>1 DEF ProfileBinding
    <3>2. Live # Absent => Live.generation + budget' <= Budget
      BY <1>0, <2>1, <2>3, <3>1 DEF VersionsInv
    <3>3. QED
      BY <1>0, <2>2, <3>2 DEF VersionsInv, LiveHasFinalizer
  <2>6. CopyInv' /\ FreshInv'
    BY <1>0, <2>1, <2>2 DEF CopyInv, FreshInv, Reading, LiveHasFinalizer
  <2>7. RestInv' /\ AgentInv'
    BY <1>0, <2>1, <2>2
       DEF RestInv, AgentInv, Undisturbed, LiveHasFinalizer, Reading, Released, Alive, InStep
  <2>8. QED
    BY <2>4, <2>5, <2>6, <2>7 DEF IInv
<1>5. CASE Restart
  <2>1. PICK n \in 1..Len(versions) : versions' = SubSeq(versions, n, Len(versions))
    BY <1>5 DEF Restart, Relist
  <2>2. /\ versions' \in Seq(ProfileBinding \cup {Absent}) /\ versions' # <<>>
        /\ Live' = Live /\ Known' \subseteq Known
        /\ CacheIsLive' => Cached' = Live
    BY <1>0, <2>1, SuffixFacts DEF TypeOK
  <2>3. /\ queued' = (Cached' # Absent) /\ fresh' = FALSE
        /\ budget > 0 /\ budget' = budget - 1
        /\ pc' = "idle" /\ binding' = Absent /\ requeue' = FALSE /\ lost' = FALSE
        /\ activeBinding' = NoBinding /\ application' = "none" /\ lastCaller' = "nobody"
        /\ starter' = "list" /\ listed' = NoBinding /\ profileExists' = profileExists
    BY <1>5 DEF Restart, Relist, Spend, Cached
  <2>4. budget \in 0..Budget /\ budget' \in 0..Budget
    BY <1>0, <2>3 DEF TypeOK, ApiTypeOK
  <2>5. TypeOK'
    BY <1>0, <2>2, <2>3, <2>4 DEF TypeOK, ApiTypeOK
  <2>6. VersionsInv'
    <3>1. Live # Absent => Live.generation \in Nat
      BY <1>1 DEF ProfileBinding
    <3>2. Live # Absent => Live.generation + budget' <= Budget
      BY <1>0, <2>3, <2>4, <3>1 DEF VersionsInv
    <3>3. QED
      BY <1>0, <2>2, <3>2 DEF VersionsInv, LiveHasFinalizer
  <2>7. CopyInv' /\ FreshInv'
    BY <2>3 DEF CopyInv, FreshInv, Reading
  <2>8. RestInv' /\ AgentInv'
    BY <2>2, <2>3 DEF RestInv, AgentInv, Undisturbed, Reading, Released, Alive
  <2>9. QED
    BY <2>5, <2>6, <2>7, <2>8 DEF IInv
<1>6. QED
  BY <1>2, <1>3, <1>4, <1>5

\* So do the agent's own goroutines: what the start-up loop does is not the
\* reconciler's word any more.
LEMMA AgentStep == IInv /\ Agent => IInv'
<1> SUFFICES ASSUME IInv, Agent PROVE IInv'
  OBVIOUS
<1>0. TypeOK /\ VersionsInv /\ CopyInv /\ FreshInv /\ RestInv /\ AgentInv
  BY DEF IInv
<1>1. UNCHANGED <<versions, queued, fresh, budget, profileExists, pc, binding, requeue, lost>>
  BY DEF Agent, StarterLists, StarterHandles, MonitorRuns, apiVars, work
<1>2. Live' = Live /\ Cached' = Cached /\ Known' = Known /\ (CacheIsLive' <=> CacheIsLive)
  BY <1>1, SameVersions
<1>3. VersionsInv' /\ CopyInv' /\ FreshInv' /\ RestInv'
  BY <1>0, <1>1, <1>2
     DEF VersionsInv, CopyInv, FreshInv, RestInv, Reading, LiveHasFinalizer, Undisturbed,
         Released, Alive
<1>4. Cached \in ProfileBinding \cup {Absent}
  BY <1>0, KnownStates DEF TypeOK
<1>5. CASE MonitorRuns
  <2>1. /\ application' \in {"applied", "failed"}
        /\ UNCHANGED <<activeBinding, lastCaller, starter, listed>>
    BY <1>5 DEF MonitorRuns, starterVars
  <2>2. TypeOK'
    BY <1>0, <1>1, <2>1 DEF TypeOK, ApiTypeOK
  <2>3. AgentInv'
    BY <1>0, <1>1, <1>2, <2>1 DEF AgentInv, LiveHasFinalizer, Undisturbed, InStep, Alive
  <2>4. QED
    BY <1>3, <2>2, <2>3 DEF IInv
<1>6. CASE StarterLists
  <2>1. /\ UNCHANGED <<activeBinding, application, lastCaller>>
        /\ starter' \in {"waiting", "handle"}
        /\ listed' \in Specs \cup {NoBinding}
    BY <1>0, <1>4, <1>6 DEF StarterLists, agentVars, TypeOK, ProfileBinding
  <2>2. TypeOK'
    BY <1>0, <1>1, <2>1 DEF TypeOK, ApiTypeOK
  <2>3. AgentInv'
    BY <1>0, <1>1, <1>2, <2>1 DEF AgentInv, LiveHasFinalizer, Undisturbed, InStep, Alive
  <2>4. QED
    BY <1>3, <2>2, <2>3 DEF IInv
<1>7. CASE StarterHandles
  <2>1. /\ lastCaller' = "starter" /\ starter' = "waiting" /\ listed' = NoBinding
        /\ activeBinding' \in Specs \cup {NoBinding}
        /\ application' \in {"none", "pending", "applied", "failed"}
    BY <1>0, <1>7 DEF StarterHandles, HandleBinding, TypeOK
  <2>2. TypeOK'
    BY <1>0, <1>1, <2>1 DEF TypeOK, ApiTypeOK
  <2>3. AgentInv'
    BY <2>1 DEF AgentInv
  <2>4. QED
    BY <1>3, <2>2, <2>3 DEF IInv
<1>8. QED
  BY <1>5, <1>6, <1>7 DEF Agent

-----------------------------------------------------------------------------
(* Reconcile                                                               *)

\* A reconcile begins with the copy in the cache.
LEMMA ReconcileStep == IInv /\ Reconcile => IInv'
<1> SUFFICES ASSUME IInv, Reconcile PROVE IInv'
  OBVIOUS
<1>0. TypeOK /\ VersionsInv /\ CopyInv /\ FreshInv /\ RestInv /\ AgentInv
  BY DEF IInv
<1>1. /\ pc' = FirstStep(Cached) /\ binding' = Cached
      /\ fresh' = (CacheIsLive /\ Cached # Absent)
      /\ queued' = FALSE /\ lost' = FALSE
      /\ UNCHANGED <<versions, budget, profileExists, requeue, activeBinding, application,
                     lastCaller, starter, listed>>
  BY DEF Reconcile, agentVars, starterVars
<1>2. Live' = Live /\ Cached' = Cached /\ Known' = Known /\ (CacheIsLive' <=> CacheIsLive)
  BY <1>1, SameVersions
<1>3. /\ Cached \in ProfileBinding \cup {Absent} /\ Cached \in Known
      /\ CacheIsLive => Cached = Live
  BY <1>0, KnownStates DEF TypeOK
<1>4. /\ Cached = Absent => pc' = "delete"
      /\ Cached # Absent =>
           \/ pc' = "delete" /\ Cached.deleting
           \/ pc' = "update" /\ ~Cached.deleting /\ ~HasFinalizer(Cached)
           \/ pc' = "handle" /\ ~Cached.deleting /\ HasFinalizer(Cached)
  BY <1>1 DEF FirstStep
<1>5. TypeOK'
  BY <1>0, <1>1, <1>3, <1>4 DEF TypeOK, ApiTypeOK, CacheIsLive
<1>6. VersionsInv'
  BY <1>0, <1>1, <1>2 DEF VersionsInv, LiveHasFinalizer
<1>7. Cached # Absent =>
          /\ Sound(Cached)
          /\ HasFinalizer(Cached) /\ ~Cached.deleting => LiveHasFinalizer
  BY <1>0, <1>3 DEF VersionsInv
<1>8. CopyInv'
  BY <1>1, <1>2, <1>4, <1>7 DEF CopyInv, Reading, LiveHasFinalizer
<1>9. FreshInv'
  BY <1>1, <1>2, <1>3, <1>4 DEF FreshInv, Reading
<1>10. RestInv'
  BY <1>1, <1>2, <1>3, <1>4 DEF RestInv, Reading, Undisturbed
<1>11. AgentInv'
  BY <1>0, <1>1, <1>2, <1>4 DEF AgentInv, LiveHasFinalizer
<1>12. QED
  BY <1>5, <1>6, <1>8, <1>9, <1>10, <1>11 DEF IInv

\* The agent has forgotten the binding before the finalizer goes.
LEMMA ReconcileDeleteStep == IInv /\ ReconcileDelete => IInv'
<1> SUFFICES ASSUME IInv, ReconcileDelete PROVE IInv'
  OBVIOUS
<1>0. TypeOK /\ VersionsInv /\ CopyInv /\ FreshInv /\ RestInv /\ AgentInv
  BY DEF IInv
<1>1. /\ pc = "delete" /\ activeBinding' = NoBinding /\ application' = "none"
      /\ lastCaller' = "worker"
      /\ UNCHANGED <<versions, fresh, budget, profileExists, lost, starter, listed>>
  BY DEF ReconcileDelete, ForgetBinding, starterVars
<1>2. Live' = Live /\ Cached' = Cached /\ Known' = Known /\ (CacheIsLive' <=> CacheIsLive)
  BY <1>1, SameVersions
<1>3. CacheIsLive => Cached = Live
  BY <1>0, KnownStates DEF TypeOK
<1>4. VersionsInv'
  BY <1>0, <1>1, <1>2 DEF VersionsInv, LiveHasFinalizer
<1>5. CASE binding = Absent
  <2>1. pc' = "idle" /\ binding' = Absent /\ requeue' = FALSE /\ queued' = queued
    BY <1>0, <1>5 DEF ReconcileDelete, Return, TypeOK, ApiTypeOK
  <2>2. TypeOK'
    BY <1>0, <1>1, <2>1 DEF TypeOK, ApiTypeOK
  <2>3. CopyInv' /\ FreshInv'
    BY <2>1 DEF CopyInv, FreshInv, Reading
  <2>4. Undisturbed => Live = Absent
    BY <1>0, <1>1, <1>3, <1>5 DEF RestInv, Undisturbed, Reading
  <2>5. RestInv' /\ AgentInv'
    BY <1>1, <1>2, <2>1, <2>4
       DEF RestInv, AgentInv, Undisturbed, Reading, Released, Alive, InStep
  <2>6. QED
    BY <1>4, <2>2, <2>3, <2>5 DEF IInv
<1>6. CASE binding # Absent
  <2>1. pc' = "update" /\ UNCHANGED <<binding, requeue, queued>>
    BY <1>6 DEF ReconcileDelete
  <2>2. TypeOK'
    BY <1>0, <1>1, <1>6, <2>1 DEF TypeOK, ApiTypeOK
  <2>3. CopyInv'
    BY <1>0, <1>1, <1>6, <2>1 DEF CopyInv, Reading
  <2>4. FreshInv'
    BY <1>0, <1>1, <1>2, <2>1 DEF FreshInv, Reading
  <2>5. RestInv' /\ AgentInv'
    BY <1>0, <1>1, <1>2, <2>1 DEF RestInv, AgentInv, Undisturbed, Reading
  <2>6. QED
    BY <1>4, <2>2, <2>3, <2>4, <2>5 DEF IInv
<1>7. QED
  BY <1>5, <1>6

\* The finalizer is removed from, or added to, the very version the copy shows.
LEMMA UpdateFinalizerStep == IInv /\ UpdateFinalizer => IInv'
<1> SUFFICES ASSUME IInv, UpdateFinalizer PROVE IInv'
  OBVIOUS
<1>0. TypeOK /\ VersionsInv /\ CopyInv /\ FreshInv /\ RestInv /\ AgentInv
  BY DEF IInv
<1>1. /\ pc = "update" /\ fresh /\ pc' = "status"
      /\ requeue' = ~binding.deleting
      /\ UNCHANGED <<queued, budget, profileExists, lost, activeBinding, application,
                     lastCaller, starter, listed>>
  BY DEF UpdateFinalizer, Conflict, agentVars, starterVars
<1>2. CacheIsLive /\ Live # Absent /\ binding = Live
  BY <1>0, <1>1 DEF FreshInv, Reading
<1>3. Live \in ProfileBinding /\ Known = {Live}
  BY <1>0, <1>2, KnownStates DEF TypeOK
<1> DEFINE object == [Live EXCEPT !.finalizers = WantedFinalizers]
           new == Stored(object)
<1>4. WantedFinalizers \in SUBSET Finalizers
  BY <1>2, <1>3 DEF WantedFinalizers, ProfileBinding, Finalizers
<1>5. /\ object \in ProfileBinding
      /\ object.spec = Live.spec /\ object.deleting = Live.deleting
      /\ object.generation = Live.generation /\ object.observed = Live.observed
      /\ object.ready = Live.ready /\ object.finalizers = WantedFinalizers
  BY <1>3, <1>4 DEF ProfileBinding
<1>6. /\ binding' = object
      /\ versions' = IF new = Live THEN versions ELSE Append(versions, new)
      /\ fresh' = (new # Absent)
  BY <1>2 DEF UpdateFinalizer, WriteBack
<1>7. HasFinalizer(object) <=> ~Live.deleting
  BY <1>2, <1>5 DEF WantedFinalizers, HasFinalizer
<1>8. /\ new \in {object, Absent}
      /\ ~Live.deleting => new = object
  BY <1>5 DEF Stored
<1> HIDE DEF object, new
<1>9. /\ versions' \in Seq(ProfileBinding \cup {Absent}) /\ versions' # <<>>
      /\ Live' = new /\ Known' = {Live, new}
      /\ CacheIsLive' <=> new = Live
  <2>1. new \in ProfileBinding \cup {Absent}
    BY <1>5, <1>8
  <2>2. ApiTypeOK(ProfileBinding)
    BY <1>0 DEF TypeOK
  <2>3. QED
    BY <1>2, <1>3, <1>6, <2>1, <2>2, WriteFacts
<1>10. TypeOK'
  <2>1. requeue' \in BOOLEAN /\ fresh' \in BOOLEAN
    BY <1>1, <1>6, Zenon
  <2>2. queued' \in BOOLEAN /\ lost' \in BOOLEAN
    BY <1>0, <1>1 DEF TypeOK, ApiTypeOK
  <2>3. binding' \in ProfileBinding
    BY <1>5, <1>6
  <2>4. QED
    BY <1>0, <1>1, <1>9, <2>1, <2>2, <2>3 DEF TypeOK, ApiTypeOK
<1>11. VersionsInv'
  <2>1. Sound(Live) /\ Live.generation + budget <= Budget
    BY <1>0, <1>2, <1>3 DEF VersionsInv
  <2>2. CASE Live.deleting
    BY <1>1, <1>5, <1>8, <1>9, <2>1, <2>2 DEF VersionsInv, Sound
  <2>3. CASE ~Live.deleting
    <3>1. Live.ready = "none"
      BY <1>0, <1>1, <1>2, <2>1, <2>3 DEF CopyInv, Sound
    <3>2. Sound(object) /\ object # Absent
      BY <1>5, <2>1, <3>1, AbsentIsNoBinding DEF Sound
    <3>3. LiveHasFinalizer'
      BY <1>7, <1>8, <1>9, <2>3, <3>2 DEF LiveHasFinalizer
    <3>4. QED
      BY <1>1, <1>5, <1>8, <1>9, <2>1, <2>3, <3>2, <3>3 DEF VersionsInv
  <2>4. QED
    BY <2>2, <2>3
<1>12. CopyInv'
  <2>1. ~Live.deleting => Live.ready = "none"
    BY <1>0, <1>1, <1>2 DEF CopyInv, Sound, Reading
  <2>2. QED
    BY <1>1, <1>5, <1>6, <2>1 DEF CopyInv, Reading
<1>13. FreshInv'
  BY <1>1, <1>6, <1>8, <1>9 DEF FreshInv, Reading
<1>14. RestInv'
  <2>1. requeue' \/ Live.deleting
    BY <1>1, <1>2
  <2>2. Released' /\ (Live.deleting => ~Alive')
    BY <1>5, <1>7, <1>8, <1>9 DEF Released, Alive
  <2>3. QED
    BY <1>1, <1>6, <1>9, <2>1, <2>2 DEF RestInv, Reading
<1>15. AgentInv'
  <2>1. Live.deleting => ~Alive'
    BY <1>5, <1>8, <1>9 DEF Alive
  <2>2. ~Live.deleting => LiveHasFinalizer'
    BY <1>5, <1>7, <1>8, <1>9, AbsentIsNoBinding DEF LiveHasFinalizer
  <2>3. QED
    BY <1>0, <1>1, <1>2, <2>1, <2>2 DEF AgentInv, InStep
<1>16. QED
  BY <1>10, <1>11, <1>12, <1>13, <1>14, <1>15 DEF IInv

\* An error comes back, so nothing is settled by it.
LEMMA UpdateFailsStep == IInv /\ UpdateFails => IInv'
<1> SUFFICES ASSUME IInv, UpdateFails PROVE IInv'
  OBVIOUS
<1>0. TypeOK /\ VersionsInv /\ CopyInv /\ FreshInv /\ RestInv /\ AgentInv
  BY DEF IInv
<1>1. /\ pc = "update" /\ pc' = "status" /\ requeue' = TRUE
      /\ budget' = budget \/ (budget > 0 /\ budget' = budget - 1)
      /\ UNCHANGED <<versions, queued, fresh, profileExists, binding, lost, activeBinding,
                     application, lastCaller, starter, listed>>
  BY DEF UpdateFails, Spend, agentVars, starterVars
<1>2. Live' = Live /\ Cached' = Cached /\ Known' = Known /\ (CacheIsLive' <=> CacheIsLive)
  BY <1>1, SameVersions
<1>3. budget \in 0..Budget /\ budget' \in 0..Budget /\ budget' <= budget
  BY <1>0, <1>1 DEF TypeOK, ApiTypeOK
<1>4. TypeOK'
  BY <1>0, <1>1, <1>3 DEF TypeOK, ApiTypeOK
<1>5. VersionsInv'
  <2>1. Live # Absent => Live.generation \in Nat
    <3>1. Live \in ProfileBinding \cup {Absent}
      BY <1>0, KnownStates DEF TypeOK
    <3>2. QED
      BY <3>1 DEF ProfileBinding
  <2>2. Live # Absent => Live.generation + budget' <= Budget
    BY <1>0, <1>3, <2>1 DEF VersionsInv
  <2>3. QED
    BY <1>0, <1>2, <2>2 DEF VersionsInv, LiveHasFinalizer
<1>6. CopyInv' /\ FreshInv'
  <2>1. binding # Absent /\ Sound(binding)
    BY <1>0, <1>1 DEF TypeOK, CopyInv, Reading
  <2>2. binding.deleting \/ binding.ready = "none"
    BY <1>0, <1>1, <2>1 DEF CopyInv, Sound
  <2>3. fresh => Live # Absent /\ binding = Live
    BY <1>0, <1>1 DEF FreshInv, Reading
  <2>4. QED
    BY <1>1, <1>2, <2>2, <2>3 DEF CopyInv, FreshInv, Reading
<1>7. RestInv' /\ AgentInv'
  BY <1>0, <1>1, <1>2 DEF RestInv, AgentInv, Reading, LiveHasFinalizer
<1>8. QED
  BY <1>4, <1>5, <1>6, <1>7 DEF IInv

\* The agent now stands for the copy's spec, whose finalizer is still live.
LEMMA HandleStep == IInv /\ HandleProfileBindingChange => IInv'
<1> SUFFICES ASSUME IInv, HandleProfileBindingChange PROVE IInv'
  OBVIOUS
<1>0. TypeOK /\ VersionsInv /\ CopyInv /\ FreshInv /\ RestInv /\ AgentInv
  BY DEF IInv
<1>1. /\ pc = "handle" /\ pc' = "condition" /\ lastCaller' = "worker"
      /\ UNCHANGED <<versions, queued, fresh, budget, profileExists, binding, requeue, lost,
                     starter, listed>>
  BY DEF HandleProfileBindingChange, HandleBinding, apiVars, starterVars
<1>2. Live' = Live /\ Cached' = Cached /\ Known' = Known /\ (CacheIsLive' <=> CacheIsLive)
  BY <1>1, SameVersions
<1>3. binding \in ProfileBinding /\ binding.spec \in Specs /\ binding.spec # NoBinding
  BY <1>0, <1>1 DEF TypeOK, ProfileBinding
<1>4. /\ ~hasBindingChanged(binding.spec, activeBinding')
      /\ activeBinding' \in Specs \cup {NoBinding}
      /\ application' \in {"none", "pending", "applied", "failed"}
  BY <1>0, <1>3, SameSpecIsNoChange DEF HandleProfileBindingChange, HandleBinding, TypeOK
<1>5. TypeOK'
  BY <1>0, <1>1, <1>4 DEF TypeOK, ApiTypeOK
<1>6. VersionsInv' /\ CopyInv' /\ FreshInv'
  BY <1>0, <1>1, <1>2 DEF VersionsInv, CopyInv, FreshInv, Reading, LiveHasFinalizer
<1>7. RestInv'
  BY <1>0, <1>1, <1>2 DEF RestInv, Reading, Undisturbed
<1>8. AgentInv'
  BY <1>0, <1>1, <1>2, <1>4 DEF AgentInv, CopyInv, LiveHasFinalizer
<1>9. QED
  BY <1>5, <1>6, <1>7, <1>8 DEF IInv

\* The condition is set on the copy, and is about the copy's spec.
LEMMA ConditionStep == IInv /\ SetReadyCondition => IInv'
<1> SUFFICES ASSUME IInv, SetReadyCondition PROVE IInv'
  OBVIOUS
<1>0. TypeOK /\ VersionsInv /\ CopyInv /\ FreshInv /\ RestInv /\ AgentInv
  BY DEF IInv
<1>1. /\ pc = "condition" /\ pc' = "status"
      /\ binding' = [binding EXCEPT !.ready = Reason]
      /\ UNCHANGED <<versions, queued, fresh, budget, profileExists, requeue, lost,
                     activeBinding, application, lastCaller, starter, listed>>
  BY DEF SetReadyCondition, apiVars, agentVars, starterVars
<1>2. Live' = Live /\ Cached' = Cached /\ Known' = Known /\ (CacheIsLive' <=> CacheIsLive)
  BY <1>1, SameVersions
<1>3. /\ binding \in ProfileBinding
      /\ ~binding.deleting /\ HasFinalizer(binding) /\ LiveHasFinalizer
  BY <1>0, <1>1 DEF TypeOK, CopyInv
<1>4. /\ Reason \in Reasons \ {"none"}
      /\ Reason = "Disabled" <=> IsDisabled(binding.spec)
  BY DEF Reason, Reasons
<1>5. /\ binding' \in ProfileBinding
      /\ binding'.ready = Reason
      /\ binding'.spec = binding.spec /\ binding'.finalizers = binding.finalizers
      /\ binding'.deleting = binding.deleting /\ binding'.generation = binding.generation
  BY <1>1, <1>3, <1>4 DEF ProfileBinding
<1>6. Live # Absent
  BY <1>3 DEF LiveHasFinalizer
<1>7. fresh => binding = Live
  BY <1>0, <1>1 DEF FreshInv, Reading
<1>8. TypeOK'
  BY <1>0, <1>1, <1>5 DEF TypeOK, ApiTypeOK
<1>9. VersionsInv'
  BY <1>0, <1>1, <1>2 DEF VersionsInv, LiveHasFinalizer
<1>10. CopyInv'
  BY <1>1, <1>3, <1>4, <1>5 DEF CopyInv, Reading, HasFinalizer
<1>11. FreshInv'
  BY <1>1, <1>2, <1>5, <1>6, <1>7 DEF FreshInv, Reading
<1>12. Undisturbed => fresh
  BY <1>0, <1>1, <1>6 DEF RestInv
<1>13. Undisturbed' <=> Undisturbed
  BY <1>1, <1>2 DEF Undisturbed
<1>14. RestInv'
  <2>1. Undisturbed => Released'
    BY <1>2, <1>3, <1>7, <1>12 DEF Released
  <2>2. QED
    BY <1>1, <1>2, <1>4, <1>5, <1>12, <1>13, <2>1 DEF RestInv, Reading
<1>15. AgentInv'
  <2>1. lastCaller = "worker" /\ Undisturbed => InStep'
    BY <1>0, <1>1, <1>2, <1>3, <1>6, <1>7, <1>12 DEF AgentInv, InStep, Alive
  <2>2. QED
    BY <1>0, <1>1, <1>2, <1>13, <2>1 DEF AgentInv, LiveHasFinalizer
<1>16. QED
  BY <1>8, <1>9, <1>10, <1>11, <1>14, <1>15 DEF IInv

\* The status goes to the very version it was computed from.
LEMMA UpdateStatusStep == IInv /\ UpdateStatus => IInv'
<1> SUFFICES ASSUME IInv, UpdateStatus PROVE IInv'
  OBVIOUS
<1>0. TypeOK /\ VersionsInv /\ CopyInv /\ FreshInv /\ RestInv /\ AgentInv
  BY DEF IInv
<1>1. /\ pc = "status" /\ fresh
      /\ pc' = "idle" /\ binding' = Absent /\ requeue' = FALSE
      /\ queued' = (queued \/ requeue)
      /\ UNCHANGED <<budget, profileExists, lost, activeBinding, application, lastCaller,
                     starter, listed>>
  BY DEF UpdateStatus, Conflict, Return, agentVars, starterVars
<1> DEFINE object == [Live EXCEPT !.ready = binding.ready, !.observed = binding.generation]
           new == Stored(object)
<1>2. /\ binding \in ProfileBinding /\ Live # Absent
      /\ binding.spec = Live.spec /\ binding.finalizers = Live.finalizers
      /\ binding.deleting = Live.deleting /\ binding.generation = Live.generation
  BY <1>0, <1>1 DEF TypeOK, FreshInv
<1>3. /\ Live \in ProfileBinding /\ Live \in Known
      /\ Known \subseteq ProfileBinding \cup {Absent}
  BY <1>0, <1>2, KnownStates DEF TypeOK
<1>4. /\ object \in ProfileBinding
      /\ object.spec = Live.spec /\ object.finalizers = Live.finalizers
      /\ object.deleting = Live.deleting /\ object.generation = Live.generation
      /\ object.ready = binding.ready /\ object.observed = Live.generation
  <2>1. binding.ready \in Reasons /\ binding.generation \in 1..Budget
    BY <1>2 DEF ProfileBinding
  <2>2. binding.generation \in 0..Budget
    BY <2>1
  <2> HIDE DEF Reasons
  <2>3. object \in ProfileBinding
    BY <1>3, <2>1, <2>2 DEF ProfileBinding
  <2>4. QED
    BY <1>2, <1>3, <2>3 DEF ProfileBinding
<1>5. /\ versions' = IF new = Live THEN versions ELSE Append(versions, new)
      /\ fresh' = (fresh /\ new = Live)
  BY DEF UpdateStatus, Write, ObservedGeneration
<1>6. \/ new = object
      \/ new = Absent /\ ~HasFinalizer(Live)
  BY <1>4 DEF Stored, HasFinalizer
<1> HIDE DEF object, new
<1>7. /\ versions' \in Seq(ProfileBinding \cup {Absent}) /\ versions' # <<>>
      /\ Live' = new /\ Cached' = Cached /\ Known' = Known \cup {new}
      /\ CacheIsLive' <=> CacheIsLive /\ new = Live
  <2>1. new \in ProfileBinding \cup {Absent}
    BY <1>4, <1>6
  <2>2. ApiTypeOK(ProfileBinding)
    BY <1>0 DEF TypeOK
  <2>3. QED
    BY <1>5, <2>1, <2>2, WriteFacts
<1>8. LiveHasFinalizer' <=> LiveHasFinalizer
  BY <1>2, <1>4, <1>6, <1>7 DEF LiveHasFinalizer, HasFinalizer
<1>9. TypeOK'
  <2>1. fresh' \in BOOLEAN /\ queued' \in BOOLEAN
    BY <1>1, <1>5, Zenon
  <2>2. QED
    BY <1>0, <1>1, <1>7, <2>1 DEF TypeOK, ApiTypeOK
<1>10. VersionsInv'
  <2>1. Live.generation \in Nat /\ Live.generation + budget <= Budget
    BY <1>0, <1>2, <1>3 DEF VersionsInv, ProfileBinding
  <2>2. Sound(object)
    BY <1>0, <1>1, <1>2, <1>4, <2>1 DEF Sound, CopyInv, HasFinalizer
  <2>3. object \in Known' \ {Absent} /\ HasFinalizer(object) => LiveHasFinalizer'
    BY <1>2, <1>4, <1>8 DEF LiveHasFinalizer, HasFinalizer
  <2>4. QED
    BY <1>0, <1>1, <1>4, <1>6, <1>7, <1>8, <2>1, <2>2, <2>3 DEF VersionsInv
<1>11. CopyInv' /\ FreshInv'
  BY <1>1 DEF CopyInv, FreshInv, Reading
<1>12. Undisturbed' => /\ Undisturbed /\ ~requeue /\ Live' = Live
                       /\ Live.ready = binding.ready
                       /\ Live.observed = Live.generation
  BY <1>1, <1>2, <1>4, <1>6, <1>7 DEF Undisturbed
<1>13. RestInv'
  BY <1>0, <1>1, <1>12 DEF RestInv, Reading, Released, Alive
<1>14. AgentInv'
  BY <1>0, <1>1, <1>8, <1>12 DEF AgentInv, InStep, Alive
<1>15. QED
  BY <1>9, <1>10, <1>11, <1>13, <1>14 DEF IInv

\* A status that is lost is remembered as such, unless something changed meanwhile.
LEMMA UpdateStatusFailsStep == IInv /\ UpdateStatusFails => IInv'
<1> SUFFICES ASSUME IInv, UpdateStatusFails PROVE IInv'
  OBVIOUS
<1>0. TypeOK /\ VersionsInv /\ CopyInv /\ FreshInv /\ RestInv /\ AgentInv
  BY DEF IInv
<1>1. /\ pc = "status"
      /\ pc' = "idle" /\ binding' = Absent /\ requeue' = FALSE
      /\ queued' = (queued \/ requeue)
      /\ \/ ~fresh /\ budget' = budget /\ lost' = lost
         \/ budget > 0 /\ budget' = budget - 1 /\ lost' = TRUE
      /\ UNCHANGED <<versions, fresh, profileExists, activeBinding, application, lastCaller,
                     starter, listed>>
  BY DEF UpdateStatusFails, Conflict, Spend, Return, agentVars, starterVars
<1>2. Live' = Live /\ Cached' = Cached /\ Known' = Known /\ (CacheIsLive' <=> CacheIsLive)
  BY <1>1, SameVersions
<1>3. budget \in 0..Budget /\ budget' \in 0..Budget /\ budget' <= budget
  BY <1>0, <1>1 DEF TypeOK, ApiTypeOK
<1>4. TypeOK'
  <2>1. queued' \in BOOLEAN
    BY <1>1, Zenon
  <2>2. QED
    BY <1>0, <1>1, <1>3, <2>1 DEF TypeOK, ApiTypeOK
<1>5. VersionsInv'
  <2>1. Live # Absent => Live.generation \in Nat
    <3>1. Live \in ProfileBinding \cup {Absent}
      BY <1>0, KnownStates DEF TypeOK
    <3>2. QED
      BY <3>1 DEF ProfileBinding
  <2>2. Live # Absent => Live.generation + budget' <= Budget
    BY <1>0, <1>3, <2>1 DEF VersionsInv
  <2>3. QED
    BY <1>0, <1>2, <2>2 DEF VersionsInv, LiveHasFinalizer
<1>6. CopyInv' /\ FreshInv'
  BY <1>1 DEF CopyInv, FreshInv, Reading
<1>7. Undisturbed' => Undisturbed /\ ~requeue
  BY <1>1, <1>2 DEF Undisturbed
<1>8. RestInv'
  BY <1>0, <1>1, <1>2, <1>7 DEF RestInv, Reading, Released, Alive
<1>9. AgentInv'
  BY <1>0, <1>1, <1>2, <1>7 DEF AgentInv, InStep, Alive, LiveHasFinalizer
<1>10. QED
  BY <1>4, <1>5, <1>6, <1>8, <1>9 DEF IInv

\* Every step keeps the invariant.
LEMMA NextStep == IInv /\ [Next]_vars => IInv'
<1>1. IInv /\ UNCHANGED vars => IInv'
  <2> SUFFICES ASSUME IInv, UNCHANGED vars PROVE IInv'
    OBVIOUS
  <2>0. TypeOK /\ VersionsInv /\ CopyInv /\ FreshInv /\ RestInv /\ AgentInv
    BY DEF IInv
  <2>1. UNCHANGED <<versions, queued, fresh, budget, profileExists, pc, binding, requeue,
                    lost, activeBinding, application, lastCaller, starter, listed>>
    BY DEF vars, apiVars, work, agentVars, starterVars
  <2>2. Live' = Live /\ Cached' = Cached /\ Known' = Known /\ (CacheIsLive' <=> CacheIsLive)
    BY <2>1, SameVersions
  <2>3. TypeOK'
    BY <2>0, <2>1 DEF TypeOK, ApiTypeOK
  <2>4. VersionsInv' /\ CopyInv' /\ FreshInv'
    BY <2>0, <2>1, <2>2 DEF VersionsInv, CopyInv, FreshInv, Reading, LiveHasFinalizer
  <2>5. RestInv' /\ AgentInv'
    BY <2>0, <2>1, <2>2 DEF RestInv, AgentInv, Reading, LiveHasFinalizer, Undisturbed,
                            Released, Alive, InStep
  <2>6. QED
    BY <2>3, <2>4, <2>5 DEF IInv
<1>2. QED
  BY <1>1, OthersStep, ViewStep, AgentStep, ReconcileStep, ReconcileDeleteStep,
     UpdateFinalizerStep, UpdateFailsStep, HandleStep, ConditionStep, UpdateStatusStep,
     UpdateStatusFailsStep
     DEF Next, Controller

-----------------------------------------------------------------------------
(* The theorems                                                            *)

\* The versions of a binding, the copy a reconcile works on and the agent stay in the
\* relation IInv describes, whatever the cache still shows.
THEOREM BindingInvariant == Spec => []IInv
<1>1. QED
  BY InitIInv, NextStep, PTL DEF Spec

\* The variables keep their types; in particular the generation never outgrows Budget.
THEOREM BindingTypeCorrect == Spec => []TypeOK
<1>1. IInv => TypeOK
  BY DEF IInv
<1>2. QED
  BY <1>1, BindingInvariant, PTL

\* As long as the agent runs watches the reconciler told it of, the binding is there with
\* the operator's finalizer on it: no deletion gets past the agent.
THEOREM WatchesAreCovered == Spec => []FinalizerCoversWatches
<1>1. IInv => FinalizerCoversWatches
  BY DEF IInv, AgentInv, FinalizerCoversWatches, LiveHasFinalizer
<1>2. QED
  BY <1>1, BindingInvariant, PTL

\* With nothing left to do, no deleted binding waits for its finalizer to go, and a binding
\* that stays has it.
THEOREM QuietIsReleased == Spec => []QuietMeansReleased
<1>1. IInv => QuietMeansReleased
  BY DEF IInv, RestInv, QuietMeansReleased, Quiet, Undisturbed, Released
<1>2. QED
  BY <1>1, BindingInvariant, PTL

\* With nothing left to do, and the agent last called by the reconciler, the agent's copy
\* stands for the live spec.
THEOREM QuietIsTracked == Spec => []QuietMeansTracked
<1>1. IInv => QuietMeansTracked
  BY DEF IInv, AgentInv, QuietMeansTracked, Quiet, Undisturbed, InStep
<1>2. QED
  BY <1>1, BindingInvariant, PTL

\* An up-to-date observedGeneration vouches for the condition beside it: no status is
\* written on a spec other than the one it was computed from.
THEOREM ObservedIsJudged == Spec => []ObservedMeansJudged
<1>1. IInv => ObservedMeansJudged
  <2> SUFFICES ASSUME IInv, Alive PROVE Sound(Live) /\ ~Live.deleting
    BY DEF ObservedMeansJudged, Sound
  <2>1. Live # Absent /\ ~Live.deleting
    BY DEF Alive
  <2>2. Live \in Known
    BY KnownStates DEF IInv, TypeOK
  <2>3. QED
    BY <2>1, <2>2 DEF IInv, VersionsInv
<1>2. QED
  BY <1>1, BindingInvariant, PTL

\* With nothing left to do, the live generation has been observed and has a condition,
\* unless the last status write was lost to an error other than a conflict.
THEOREM QuietIsReported == Spec => []QuietMeansReported
<1>1. IInv => QuietMeansReported
  BY DEF IInv, RestInv, QuietMeansReported, Quiet, Undisturbed
<1>2. QED
  BY <1>1, BindingInvariant, PTL
=============================================================================
