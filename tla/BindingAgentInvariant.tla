------------------------ MODULE BindingAgentInvariant ------------------------
(***************************************************************************)
(* The inductive invariant of BindingAgent: what holds between any two     *)
(* steps of HandleProfileBindingChange, while the thread that holds the    *)
(* mutex has taken the maps apart.  BindingAgentProofs shows that it is    *)
(* inductive and that it implies the safety properties of BindingAgent.    *)
(***************************************************************************)
EXTENDS BindingAgent

RangePc == {"rangeCancel", "rangeDelete"}

\* Where each thread can be, what it is handling there, and who has the mutex
ControlInv ==
    /\ pc[Worker] \in WorkerPc \cup HandlePc
    /\ pc[Starter] \in StarterPc \cup HandlePc
    /\ \A t \in Threads : call[t] # NoCall <=> pc[t] \in HandlePc \cup RangePc
    /\ \A t \in Threads : mutex = t <=> pc[t] \in CriticalPc
    /\ \A t \in Threads :
           pc[t] \in {"setup", "create", "store", "activate"} => ~IsDelete(t)
    /\ \A t \in Threads :
           pc[t] \notin {"cancel", "store", "rangeCancel"} => hand[t] = NoWatch
    /\ running => pc[Starter] \in {"list", "next", "waiting"} \cup HandlePc

\* The maps of a binding nobody is in the middle of changing
Agree(b) ==
    IF activeBindings[b] = NoBinding \/ IsDisabled(activeBindings[b])
    THEN bindingWatches[b] = NoWatch
    ELSE /\ bindingWatches[b] # NoWatch
         /\ watch[bindingWatches[b]] = [binding |-> b, spec |-> activeBindings[b]]

\* What thread t, which holds the mutex, has done to the maps of its binding
Progress(t) ==
    LET b    == call[t].binding
        spec == call[t].spec
    IN  /\ pc[t] = "locked" => Agree(b)
        /\ pc[t] = "stop" =>
               IF IsDelete(t) THEN activeBindings[b] = NoBinding
                              ELSE Agree(b) /\ IsChange(t)
        /\ pc[t] = "cancel" =>
               /\ bindingWatches[b] = NoWatch
               /\ IF IsDelete(t) THEN activeBindings[b] = NoBinding ELSE IsChange(t)
               /\ hand[t] # NoWatch /\ ~IsDelete(t) =>
                      watch[hand[t]].spec = activeBindings[b]
        /\ pc[t] \in {"setup", "create", "store"} => bindingWatches[b] = NoWatch
        /\ pc[t] \in {"create", "store"} => ~IsDisabled(spec)
        /\ pc[t] = "store" => hand[t] # NoWatch /\ watch[hand[t]] = call[t]
        /\ pc[t] = "activate" =>
               IF IsDisabled(spec)
               THEN bindingWatches[b] = NoWatch
               ELSE /\ bindingWatches[b] # NoWatch
                    /\ watch[bindingWatches[b]] = call[t]

\* Every watch that is not cancelled is in the map or in the hand of the thread
\* with the mutex ...
UncancelledIsHeld ==
    \A w \in Watches : watch[w] # Cancelled =>
        \/ bindingWatches[watch[w].binding] = w
        \/ \E t \in Threads : mutex = t /\ hand[t] = w

\* ... and conversely, under the key of its binding
MappedIsUncancelled ==
    \A b \in Bindings : bindingWatches[b] # NoWatch =>
        /\ watch[bindingWatches[b]] # Cancelled
        /\ watch[bindingWatches[b]].binding = b

HandIsUncancelled ==
    \A t \in Threads : hand[t] # NoWatch =>
        /\ watch[hand[t]] # Cancelled
        /\ watch[hand[t]].binding = call[t].binding

HolderProgress == \A t \in Threads : mutex = t => Progress(t)

OthersAgree ==
    \A b \in Bindings :
        (\A t \in Threads : mutex = t => call[t].binding # b) => Agree(b)

WatchInv ==
    running => /\ UncancelledIsHeld
               /\ MappedIsUncancelled
               /\ HandIsUncancelled
               /\ HolderProgress
               /\ OthersAgree

\* What the worker holds is current unless an event is on its way, and what it
\* left behind is in step
WorkerInv ==
    running =>
        /\ pc[Starter] \in CriticalPc => lastCaller[call[Starter].binding] = Starter
        /\ pc[Worker] \in CriticalPc => lastCaller[call[Worker].binding] = Worker
        /\ \A b \in Bindings : b \notin queue =>
               IF call[Worker] # NoCall /\ call[Worker].binding = b
               THEN call[Worker].spec = RequestedSpec(b)
               ELSE lastCaller[b] = Worker => InStep(b)

IInv ==
    /\ TypeOK
    /\ ControlInv
    /\ WatchInv
    /\ WorkerInv
=============================================================================
