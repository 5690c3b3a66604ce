------------------------------ MODULE ApiObject ------------------------------
(***************************************************************************)
(* One object of the Kubernetes API, as both reconcilers see it: they read *)
(* an informer cache that lags behind the API server and write to the API  *)
(* server directly.                                                        *)
(*                                                                         *)
(* `versions` holds the states of the object from the one in the cache     *)
(* (its head) to the live one (its last); every write appends, and         *)
(* CacheCatchesUp drops a prefix.  A resourceVersion is only ever compared *)
(* with the live one, so the copy a write starts from is either `fresh` or *)
(* not.  An object is a record with at least the fields finalizers,        *)
(* deleting and generation.                                                *)
(***************************************************************************)
EXTENDS Naturals, Sequences

CONSTANTS
    Absent,         \* the object does not exist
    Budget          \* bound: what users, other controllers and failures may still do

ASSUME BudgetIsANumber == Budget \in Nat

VARIABLES
    versions,       \* states of the object: cached first, live last
    queued,         \* the key is in the workqueue, or will be after RequeueAfter
    fresh,          \* the reconciler's copy has the live resourceVersion
    budget

Finalizers == {"own", "other"}

Cached == Head(versions)
Live == versions[Len(versions)]
CacheIsLive == Len(versions) = 1

\* The states the cache can still show, and the live one
Known == { versions[i] : i \in 1..Len(versions) }

\* The object was in state a before it was in state b
Precedes(a, b) ==
    \E i, j \in 1..Len(versions) : i < j /\ versions[i] = a /\ versions[j] = b

HasFinalizer(object) == "own" \in object.finalizers

\* No controller has seen the object yet
ApiInit ==
    /\ versions = <<Absent>>
    /\ queued = FALSE
    /\ fresh = FALSE
    /\ budget = Budget

ApiTypeOK(Objects) ==
    /\ versions \in Seq(Objects \cup {Absent}) /\ versions # <<>>
    /\ queued \in BOOLEAN
    /\ fresh \in BOOLEAN
    /\ budget \in 0..Budget

Spend == budget > 0 /\ budget' = budget - 1

\* An object being deleted goes when its last finalizer goes
Stored(object) ==
    IF object.deleting /\ object.finalizers = {} THEN Absent ELSE object

\* A write that changes nothing makes no new version
Write(object) ==
    /\ versions' = IF Stored(object) = Live THEN versions
                                            ELSE Append(versions, Stored(object))
    /\ fresh' = (fresh /\ Stored(object) = Live)

\* The writer's copy becomes what the API server answers
WriteBack(object) ==
    /\ versions' = IF Stored(object) = Live THEN versions
                                            ELSE Append(versions, Stored(object))
    /\ fresh' = (Stored(object) # Absent)

\* Optimistic concurrency: a copy with another resourceVersion is refused, and
\* so is any copy of an object that is gone
Conflict == ~fresh

Create(object) == Live = Absent /\ Spend /\ Write(object)

\* Deletion raises the generation
Delete ==
    /\ Live # Absent
    /\ ~Live.deleting
    /\ Spend
    /\ Write([Live EXCEPT !.deleting = TRUE, !.generation = @ + 1])

\* Somebody else adds or removes a finalizer; none can be added during deletion
OthersFinalizer ==
    /\ Live # Absent
    /\ Spend
    /\ \/ /\ ~Live.deleting
          /\ Write([Live EXCEPT !.finalizers = @ \cup {"other"}])
       \/ Write([Live EXCEPT !.finalizers = @ \ {"other"}])

\* The informer may skip states; its event handler queues the key
CacheCatchesUp ==
    /\ \E n \in 2..Len(versions) : versions' = SubSeq(versions, n, Len(versions))
    /\ queued' = TRUE
    /\ UNCHANGED <<fresh, budget>>

\* Once per SyncPeriod the informer delivers its object again
Resync ==
    /\ Cached # Absent
    /\ queued' = TRUE
    /\ UNCHANGED <<versions, fresh, budget>>

\* The process is restarted, or another replica takes over: its memory is gone, and a new
\* informer begins with a List, which queues the object if it is there.  The List is taken
\* to show nothing older than the last process saw: the API server may answer it from a
\* cache of its own, which is not in the model
Relist ==
    /\ Spend
    /\ \E n \in 1..Len(versions) : versions' = SubSeq(versions, n, Len(versions))
    /\ queued' = (Head(versions') # Absent)
    /\ fresh' = FALSE
=============================================================================
