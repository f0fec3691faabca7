------------------------ MODULE CommandEventExecutor ------------------------
(***************************************************************************)
(* CommandEventExecutor (src/ESPressio_CommandEventExecutor.hpp): runs     *)
(* inbound command events on one worker behind a bounded queue.            *)
(*                                                                         *)
(* Three kinds of threads meet here.  Dispatchers (the EventManager, or a  *)
(* direct caller of QueueEvent, StackEvent, TryQueueEvent and              *)
(* TryStackEvent) run SubmitEvent.  The worker runs ProcessWork.           *)
(* Controllers run Prepare and ShutdownExecutor.  Nothing but the atomic   *)
(* _prepared orders them, so every access to shared state is a step.       *)
(*                                                                         *)
(* TaskExecutor and EventManager belong to other libraries; they appear    *)
(* here as this code uses them, in the definitions named Task... and in    *)
(* the variables task, queue and receiver.                                 *)
(***************************************************************************)
EXTENDS Integers, SequencesExt

CONSTANTS
  Dispatchers, Controllers,
  Events,      \* the events offered, each of them once
  NoEvent,
  Inbound,     \* those that are InboundCommandEvents
  Remote,      \* those whose origin is not local
  Completing,  \* those whose sender expects Completion
  QueueDepth,  \* ESPRESSIO_COMMAND_EVENT_EXECUTOR_QUEUE_DEPTH
  MaxPrepares  \* bound: number of calls of Prepare in a behaviour

ASSUME ExecutorAssumption ==
  /\ NoEvent \notin Events
  /\ Inbound \subseteq Events /\ Remote \subseteq Events /\ Completing \subseteq Events
  /\ QueueDepth \in Nat \ {0}
  /\ MaxPrepares \in Nat

VARIABLES
  prepared,   \* _prepared
  registry,   \* _registry is not null
  task,       \* the state of _executor
  queue,      \* the work items waiting in _executor
  receiver,   \* the executor is registered with the EventManager
  phase,      \* the worker: how far ProcessWork is
  hand,       \* the worker: the event of its work item
  routed,     \* the worker: the local variable "routed"
  dpc, offer, \* per dispatcher: how far SubmitEvent is, and with which event
  cpc,        \* per controller: how far Prepare or ShutdownExecutor is
  prepares,   \* number of Prepares begun
  overlapped, \* history: two lifecycle calls were in progress at one time
  refs,       \* per event: references taken and not yet given back
  fate,       \* history, per event
  sent,       \* history: events whose response a route accepted
  announced   \* history, per event: the flag of its CommandCompletedEvent

controlVars  == <<prepared, registry, task, receiver, cpc, prepares, overlapped>>
workerVars   == <<phase, hand, routed, sent, announced>>
dispatchVars == <<dpc, offer>>
vars == <<controlVars, workerVars, dispatchVars, queue, refs, fate>>

TaskStates == {"new", "initialized", "running", "stopping"}
Fates == {"fresh", "refused", "submitting", "admitted", "discarded", "failed",
          "completed", "reclaimed"}
Settled == {"discarded", "failed", "completed", "reclaimed"}

-----------------------------------------------------------------------------
Init ==
  /\ prepared = FALSE
  /\ registry = FALSE
  /\ task = "new"
  /\ queue = <<>>
  /\ receiver = FALSE
  /\ phase = "waiting"
  /\ hand = NoEvent
  /\ routed = FALSE
  /\ dpc = [d \in Dispatchers |-> "idle"]
  /\ offer = [d \in Dispatchers |-> NoEvent]
  /\ cpc = [c \in Controllers |-> "idle"]
  /\ prepares = 0
  /\ overlapped = FALSE
  /\ refs = [e \in Events |-> 0]
  /\ fate = [e \in Events |-> "fresh"]
  /\ sent = {}
  /\ announced = [e \in Events |-> "none"]

-----------------------------------------------------------------------------
(* SubmitEvent, on a dispatcher's thread.                                  *)

MayEnter(e) == prepared /\ e \in Inbound

SubmitRefuse(d, e) ==
  /\ dpc[d] = "idle"
  /\ fate[e] = "fresh"
  /\ ~MayEnter(e)
  /\ fate' = [fate EXCEPT ![e] = "refused"]
  /\ UNCHANGED <<controlVars, workerVars, dispatchVars, queue, refs>>

\* The executor's own reference is taken before the event is handed over.
SubmitReference(d, e) ==
  /\ dpc[d] = "idle"
  /\ fate[e] = "fresh"
  /\ MayEnter(e)
  /\ refs' = [refs EXCEPT ![e] = @ + 1]
  /\ fate' = [fate EXCEPT ![e] = "submitting"]
  /\ dpc' = [dpc EXCEPT ![d] = "referenced"]
  /\ offer' = [offer EXCEPT ![d] = e]
  /\ UNCHANGED <<controlVars, workerVars, queue>>

\* _executor.Submit succeeds: running, and room in the queue (Reject policy).
TaskAdmits == task = "running" /\ Len(queue) < QueueDepth

\* Mutant: a rejected event keeps the reference that was taken for it.
RefsAfterReject_Leaks(e) == refs

RefsAfterReject(e) == [refs EXCEPT ![e] = @ - 1]

SubmitHandOver(d) ==
  /\ dpc[d] = "referenced"
  /\ LET e == offer[d] IN
       \/ /\ TaskAdmits
          /\ queue' = Append(queue, e)
          /\ fate' = [fate EXCEPT ![e] = "admitted"]
          /\ refs' = refs
       \/ /\ ~TaskAdmits
          /\ queue' = queue
          /\ fate' = [fate EXCEPT ![e] = "refused"]
          /\ refs' = RefsAfterReject(e)
  /\ dpc' = [dpc EXCEPT ![d] = "idle"]
  /\ offer' = [offer EXCEPT ![d] = NoEvent]
  /\ UNCHANGED <<controlVars, workerVars>>

-----------------------------------------------------------------------------
(* ProcessWork, on the worker's thread.                                    *)

\* Mutant: "routed" is a member, and keeps the value of the item before.
RoutedAtStart_CarriedOver == routed

RoutedAtStart == FALSE

WorkerTake ==
  /\ task = "running"
  /\ phase = "waiting"
  /\ queue # <<>>
  /\ hand' = Head(queue)
  /\ queue' = Tail(queue)
  /\ phase' = "taken"
  /\ routed' = RoutedAtStart
  /\ UNCHANGED <<controlVars, dispatchVars, refs, fate, sent, announced>>

\* ProcessWork returns, by whichever path: the guard gives the reference back.
WorkerDone(how) ==
  /\ phase' = "waiting"
  /\ hand' = NoEvent
  /\ refs' = [refs EXCEPT ![hand] = @ - 1]
  /\ fate' = [fate EXCEPT ![hand] = how]
  /\ UNCHANGED <<controlVars, dispatchVars, queue, routed, sent>>

\* Without a registry the event is dropped: no response, no completion.
WorkerDiscard ==
  /\ phase = "taken"
  /\ ~registry
  /\ WorkerDone("discarded")
  /\ UNCHANGED announced

WorkerCheck ==
  /\ phase = "taken"
  /\ registry
  /\ phase' = "checked"
  /\ UNCHANGED <<controlVars, dispatchVars, queue, refs, fate, hand, routed,
                 sent, announced>>

\* Mutant: nothing catches the exception, and the worker's thread ends.
WorkerThrow_Escapes ==
  /\ phase \in {"checked", "invoked", "answered"}
  /\ phase' = "dead"
  /\ UNCHANGED <<controlVars, dispatchVars, queue, refs, fate, hand, routed,
                 sent, announced>>

\* Invoke, SendCommandResponse or the construction of the completion event
\* throws; the exception is swallowed.
WorkerThrow ==
  /\ phase \in {"checked", "invoked", "answered"}
  /\ phase = "checked" => registry
  /\ WorkerDone("failed")
  /\ UNCHANGED announced

\* The pointer is read again and Invoke returns a result, good or bad.  (Had
\* the pointer become null since the check, the call would be undefined; the
\* worker takes no further step then.)
WorkerInvoke ==
  /\ phase = "checked"
  /\ registry
  /\ phase' = "invoked"
  /\ UNCHANGED <<controlVars, dispatchVars, queue, refs, fate, hand, routed,
                 sent, announced>>

WantsAnswer(e) == e \in Completing \cap Remote

\* Route accepts the response or does not; nobody else is answered.
WorkerAnswer ==
  /\ phase = "invoked"
  /\ IF WantsAnswer(hand)
     THEN \E accepted \in BOOLEAN :
            /\ routed' = accepted
            /\ sent' = IF accepted THEN sent \cup {hand} ELSE sent
     ELSE UNCHANGED <<routed, sent>>
  /\ phase' = "answered"
  /\ UNCHANGED <<controlVars, dispatchVars, queue, refs, fate, hand, announced>>

WorkerAnnounce ==
  /\ phase = "answered"
  /\ announced' = [announced EXCEPT ![hand] = IF routed THEN "routed" ELSE "unrouted"]
  /\ WorkerDone("completed")

-----------------------------------------------------------------------------
(* Prepare and ShutdownExecutor, on a controller's thread.                 *)

Step(c, from, to) ==
  /\ cpc[c] = from
  /\ cpc' = [cpc EXCEPT ![c] = to]
  /\ overlapped' = (overlapped \/ \E b \in Controllers \ {c} : cpc[b] # "idle")

\* The flag is read; when it is set, Prepare returns TRUE and does nothing.
PrepareBegin(c) ==
  /\ Step(c, "idle", "preparing")
  /\ ~prepared
  /\ prepares < MaxPrepares
  /\ prepares' = prepares + 1
  /\ UNCHANGED <<prepared, registry, task, receiver, workerVars, dispatchVars,
                 queue, refs, fate>>

\* _executor.Initialize succeeds, or had been called before.
PrepareInitialize(c) ==
  /\ Step(c, "preparing", "initialized")
  /\ registry' = TRUE
  /\ task' = IF task = "new" THEN "initialized" ELSE task
  /\ UNCHANGED <<prepared, receiver, prepares, workerVars, dispatchVars, queue,
                 refs, fate>>

PrepareInitializeFails(c) ==
  /\ Step(c, "preparing", "idle")
  /\ task = "new"
  /\ registry' = FALSE
  /\ UNCHANGED <<prepared, task, receiver, prepares, workerVars, dispatchVars,
                 queue, refs, fate>>

\* _executor.Start succeeds, or the worker was running already.
PrepareStart(c) ==
  /\ Step(c, "initialized", "started")
  /\ task \in {"initialized", "running"}
  /\ task' = "running"
  /\ UNCHANGED <<prepared, registry, receiver, prepares, workerVars,
                 dispatchVars, queue, refs, fate>>

\* Mutant: Prepare goes on as if the worker had started.
PrepareStartFails_Ignored(c) ==
  /\ Step(c, "initialized", "started")
  /\ task # "running"
  /\ UNCHANGED <<prepared, registry, task, receiver, prepares, workerVars,
                 dispatchVars, queue, refs, fate>>

\* Start fails: there is no worker to stop, and Prepare returns FALSE.
PrepareStartFails(c) ==
  /\ Step(c, "initialized", "idle")
  /\ task # "running"
  /\ registry' = FALSE
  /\ UNCHANGED <<prepared, task, receiver, prepares, workerVars, dispatchVars,
                 queue, refs, fate>>

PreparePublish(c) ==
  /\ Step(c, "started", "published")
  /\ prepared' = TRUE
  /\ UNCHANGED <<registry, task, receiver, prepares, workerVars, dispatchVars,
                 queue, refs, fate>>

PrepareRegister(c) ==
  /\ Step(c, "published", "idle")
  /\ receiver' = TRUE
  /\ UNCHANGED <<prepared, registry, task, prepares, workerVars, dispatchVars,
                 queue, refs, fate>>

\* The flag is exchanged for FALSE; what it was decides the order of the rest.
ShutdownPrepared(c) ==
  /\ Step(c, "idle", "unregistering")
  /\ prepared
  /\ prepared' = FALSE
  /\ UNCHANGED <<registry, task, receiver, prepares, workerVars, dispatchVars,
                 queue, refs, fate>>

ShutdownUnprepared(c) ==
  /\ Step(c, "idle", "halting")
  /\ ~prepared
  /\ registry' = FALSE
  /\ UNCHANGED <<prepared, task, receiver, prepares, workerVars, dispatchVars,
                 queue, refs, fate>>

\* Mutant: the registry is forgotten before the worker has stopped.
RegistryWhileStopping_Forgotten == FALSE

RegistryWhileStopping == registry

ShutdownUnregister(c) ==
  /\ Step(c, "unregistering", "stopping")
  /\ receiver' = FALSE
  /\ registry' = RegistryWhileStopping
  /\ UNCHANGED <<prepared, task, prepares, workerVars, dispatchVars, queue, refs,
                 fate>>

\* _executor.Stop: admissions end, the worker finishes the item in its hand,
\* and ReleaseWork gives back the reference of every item still queued.  When
\* nothing runs there is nothing to join or to reclaim.
TaskStopBegin(c) ==
  /\ \/ Step(c, "stopping", "joining")
     \/ Step(c, "halting", "halted")
  /\ task' = IF task = "running" THEN "stopping" ELSE task
  /\ UNCHANGED <<prepared, registry, receiver, prepares, workerVars,
                 dispatchVars, queue, refs, fate>>

\* Mutant: the item the worker finished is released as well.
ReleaseWork_EveryEvent(items) == [e \in Events |-> refs[e] - 1]

ReleaseWork(items) ==
  [e \in Events |-> IF e \in ToSet(items) THEN refs[e] - 1 ELSE refs[e]]

TaskStopEnd(c) ==
  /\ \/ Step(c, "joining", "stopped")
     \/ Step(c, "halted", "idle")
  /\ IF task = "stopping"
     THEN /\ phase = "waiting"
          /\ task' = "initialized"
          /\ queue' = <<>>
          /\ refs' = ReleaseWork(queue)
          /\ fate' = [e \in Events |->
                        IF e \in ToSet(queue) THEN "reclaimed" ELSE fate[e]]
     ELSE UNCHANGED <<task, queue, refs, fate>>
  /\ UNCHANGED <<prepared, registry, receiver, prepares, workerVars, dispatchVars>>

\* The last statement of ShutdownExecutor when it found the flag set.
ShutdownForget(c) ==
  /\ Step(c, "stopped", "idle")
  /\ registry' = FALSE
  /\ UNCHANGED <<prepared, task, receiver, prepares, workerVars, dispatchVars,
                 queue, refs, fate>>

-----------------------------------------------------------------------------
Submit(d) ==
  \/ \E e \in Events : SubmitRefuse(d, e) \/ SubmitReference(d, e)
  \/ SubmitHandOver(d)

Worker ==
  \/ WorkerTake \/ WorkerDiscard \/ WorkerCheck \/ WorkerThrow
  \/ WorkerInvoke \/ WorkerAnswer \/ WorkerAnnounce

Prepare(c) ==
  \/ PrepareBegin(c)
  \/ PrepareInitialize(c) \/ PrepareInitializeFails(c)
  \/ PrepareStart(c) \/ PrepareStartFails(c)
  \/ PreparePublish(c) \/ PrepareRegister(c)

ShutdownExecutor(c) ==
  \/ ShutdownPrepared(c) \/ ShutdownUnprepared(c)
  \/ ShutdownUnregister(c) \/ TaskStopBegin(c) \/ TaskStopEnd(c)
  \/ ShutdownForget(c)

Next ==
  \/ \E d \in Dispatchers : Submit(d)
  \/ Worker
  \/ \E c \in Controllers : Prepare(c) \/ ShutdownExecutor(c)

Spec == Init /\ [][Next]_vars

\* A call that has begun is carried on, and the worker is scheduled; nobody is
\* obliged to begin a call.
FairSpec ==
  /\ Spec
  /\ WF_vars(Worker)
  /\ \A d \in Dispatchers : WF_vars(SubmitHandOver(d))
  /\ \A c \in Controllers :
       WF_vars(cpc[c] # "idle" /\ (Prepare(c) \/ ShutdownExecutor(c)))

-----------------------------------------------------------------------------
ControllerPhases ==
  {"idle", "preparing", "initialized", "started", "published", "unregistering",
   "stopping", "joining", "stopped", "halting", "halted"}

\* Every variable holds a value of its type; no reference is given back that
\* was not taken.
TypeOK ==
  /\ prepared \in BOOLEAN /\ registry \in BOOLEAN /\ receiver \in BOOLEAN
  /\ task \in TaskStates
  /\ queue \in Seq(Events) /\ Len(queue) <= QueueDepth
  /\ phase \in {"waiting", "taken", "checked", "invoked", "answered"}
  /\ hand \in Events \cup {NoEvent}
  /\ routed \in BOOLEAN
  /\ dpc \in [Dispatchers -> {"idle", "referenced"}]
  /\ offer \in [Dispatchers -> Events \cup {NoEvent}]
  /\ cpc \in [Controllers -> ControllerPhases]
  /\ prepares \in 0 .. MaxPrepares /\ overlapped \in BOOLEAN
  /\ refs \in [Events -> {0, 1}]
  /\ fate \in [Events -> Fates]
  /\ sent \subseteq Events
  /\ announced \in [Events -> {"none", "routed", "unrouted"}]

AllIdle == \A c \in Controllers : cpc[c] = "idle"

\* The executor holds a reference to exactly the events it may still touch: in
\* the queue, in the worker's hand, or between the taking of the reference and
\* Submit.  A missing one is a use after free, a surplus one a leak.
ReferencesBalanced ==
  \A e \in Events :
    refs[e] = 1 <=> \/ e \in ToSet(queue)
                    \/ e = hand
                    \/ \E d \in Dispatchers : offer[d] = e

\* As long as no two lifecycle calls have overlapped, whatever the executor has
\* admitted finds a registry to run in: Prepare sets it before the first
\* admission, and ShutdownExecutor forgets it only when the worker has stopped.
RegistryOutlivesWork ==
  ~overlapped /\ (queue # <<>> \/ phase \in {"taken", "checked"}) => registry

\* The doc of IsPrepared and Prepare: when the flag is set and no lifecycle
\* call is in progress, events are received and executed.
PreparedMeansActive ==
  prepared /\ AllIdle => task = "running" /\ registry /\ receiver

\* When ShutdownExecutor has returned nothing of the executor is left running,
\* also when events were being submitted while it stopped.
ShutdownIsComplete ==
  ~prepared /\ AllIdle =>
    /\ task # "running" /\ ~receiver /\ ~registry
    /\ queue = <<>> /\ phase = "waiting"

\* Controllers that take turns can believe the flag, whichever of them calls
\* what how often, whatever fails in Prepare and whoever submits meanwhile.
FlagTellsTheTruth == ~overlapped => PreparedMeansActive /\ ShutdownIsComplete

\* The completion event tells the truth about the response: it says "routed"
\* for exactly the events whose own response a route accepted, and only remote
\* senders that expect Completion are answered.
AnnouncedAsSent ==
  /\ sent \subseteq Completing \cap Remote
  /\ \A e \in Events :
       fate[e] = "completed" => (announced[e] = "routed" <=> e \in sent)

\* Every admitted event is processed or reclaimed, also when it throws and also
\* when the executor shuts down around it, unless lifecycle calls overlap.
AdmittedIsSettled ==
  \A e \in Events : fate[e] = "admitted" ~> fate[e] \in Settled \/ overlapped

=============================================================================
