---------------------------- MODULE WatchRegistry ----------------------------
(***************************************************************************)
(* What the ProfileBinding agent promises to its callers and to the        *)
(* cluster, without its maps and its mutex: calls are handled one at a     *)
(* time; a watch is cancelled only for a call that supersedes it; a new    *)
(* one exists only when the binding has none; and when a call returns, the *)
(* binding has the watch it asked for.  BindingAgent implements this.      *)
(***************************************************************************)
EXTENDS TargetSelector

CONSTANTS
    Bindings,       \* the keys (namespace/name) of ProfileBindings
    Specs,          \* the specs a ProfileBinding can have
    Watches,        \* identities of *BindingWatches
    Cancelled,      \* state of a watch whose context was cancelled (or never created)
    NoCall          \* no call is being handled

VARIABLES
    open,           \* the manager's context, the parent of every watch's context
    task,           \* the call being handled; spec = NoBinding is a deletion
    live            \* the watches whose context is not cancelled, and for what

registryVars == <<open, task, live>>

Call == [binding : Bindings, spec : Specs \cup {NoBinding}]

RegistryInit ==
    /\ open = TRUE
    /\ task = NoCall
    /\ live = [w \in Watches |-> Cancelled]

WatchesOf(watches, b) ==
    { w \in Watches : IF watches[w] = Cancelled THEN FALSE ELSE watches[w].binding = b }

\* The watch made from spec stands in the way of the call
Supersedes(newSpec, spec) ==
    IF newSpec = NoBinding THEN TRUE ELSE hasBindingChanged(newSpec, spec)

WantsWatch(spec) == IF spec = NoBinding THEN FALSE ELSE ~IsDisabled(spec)

Begin(c) ==
    /\ task = NoCall
    /\ task' = c
    /\ UNCHANGED <<open, live>>

\* Only a watch of the call's own binding, and only if the call supersedes it
Cancel(w) ==
    /\ w \in WatchesOf(live, task.binding)
    /\ Supersedes(task.spec, live[w].spec)
    /\ live' = [live EXCEPT ![w] = Cancelled]

Withdraw(w) ==
    /\ task # NoCall
    /\ Cancel(w)
    /\ UNCHANGED <<open, task>>

Serve(w) ==
    /\ open
    /\ task # NoCall
    /\ WantsWatch(task.spec)
    /\ WatchesOf(live, task.binding) = {}
    /\ live[w] = Cancelled
    /\ live' = [live EXCEPT ![w] = task]
    /\ UNCHANGED <<open, task>>

\* The binding has the watch the call asked for, and no other
Answered(watches) ==
    IF WantsWatch(task.spec)
    THEN \E w \in Watches : /\ WatchesOf(watches, task.binding) = {w}
                            /\ ~Supersedes(task.spec, watches[w].spec)
    ELSE WatchesOf(watches, task.binding) = {}

\* The call returns; the cancellation a deletion asks for may be its last act
Finish ==
    /\ task # NoCall
    /\ \/ UNCHANGED live
       \/ \E w \in Watches : Cancel(w)
    /\ open => Answered(live')
    /\ task' = NoCall
    /\ UNCHANGED open

\* Cancelling the manager's context cancels every watch
Close ==
    /\ open
    /\ open' = FALSE
    /\ live' = [w \in Watches |-> Cancelled]
    /\ UNCHANGED task

RegistryNext ==
    \/ \E c \in Call : Begin(c)
    \/ \E w \in Watches : Withdraw(w) \/ Serve(w)
    \/ Finish
    \/ Close

RegistrySpec == RegistryInit /\ [][RegistryNext]_registryVars
=============================================================================
