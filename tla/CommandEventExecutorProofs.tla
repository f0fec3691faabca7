---------------------- MODULE CommandEventExecutorProofs -------------------
(***************************************************************************)
(* The safety of CommandEventExecutor for every number of dispatchers,     *)
(* controllers and events, and every depth of the queue.                   *)
(***************************************************************************)
EXTENDS CommandEventExecutor, SequenceLemmas

\* An event is in one place at most, and its fate says in which.
Custody ==
  /\ \A d \in Dispatchers : dpc[d] = "referenced" <=> offer[d] # NoEvent
  /\ \A b, d \in Dispatchers : offer[b] = offer[d] /\ offer[d] # NoEvent => b = d
  /\ phase = "waiting" <=> hand = NoEvent
  /\ \A i, j \in 1 .. Len(queue) : queue[i] = queue[j] => i = j
  /\ hand \notin ToSet(queue)
  /\ \A e \in Events :
       /\ fate[e] = "submitting" <=> \E d \in Dispatchers : offer[d] = e
       /\ fate[e] = "admitted" <=> e \in ToSet(queue) \/ e = hand
       /\ refs[e] = 1 <=> fate[e] \in {"submitting", "admitted"}

\* What the worker remembers of its item is about this item.
Answering ==
  /\ AnnouncedAsSent
  /\ \A e \in Events : fate[e] \in {"fresh", "submitting"} \/ e \in ToSet(queue)
                         => e \notin sent
  /\ phase \in {"taken", "checked", "invoked"} => ~routed /\ hand \notin sent
  /\ phase = "answered" => (routed <=> hand \in sent)

\* The lifecycle when calls of Prepare and ShutdownExecutor take turns: how far
\* the call in progress is fixes the flag, the registry, the receiver and the
\* worker, and nothing is left to execute unless the worker runs.
Quiet == queue = <<>> /\ phase = "waiting"

StageHolds(stage) ==
  /\ stage # "idle" => (prepared <=> stage = "published")
  /\ receiver <=> \/ stage = "unregistering"
                  \/ stage = "idle" /\ prepared
  /\ registry <=> \/ stage \in {"initialized", "started", "published",
                                "unregistering", "stopping", "joining", "stopped"}
                  \/ stage = "idle" /\ prepared
  /\ task = "running" <=> \/ stage \in {"started", "published", "unregistering",
                                        "stopping"}
                          \/ stage = "idle" /\ prepared
  /\ task = "stopping" <=> stage = "joining"
  /\ task \in {"running", "stopping"} \/ Quiet

Lifecycle ==
  ~overlapped =>
    \/ AllIdle /\ StageHolds("idle")
    \/ \E c \in Controllers : /\ cpc[c] # "idle"
                              /\ \A b \in Controllers \ {c} : cpc[b] = "idle"
                              /\ StageHolds(cpc[c])

IInv == TypeOK /\ Custody /\ Answering /\ Lifecycle
-----------------------------------------------------------------------------
LEMMA InitInvariant == Init => IInv
<1>. SUFFICES ASSUME Init PROVE IInv
  OBVIOUS
<1>. USE DEF Init
<1>1. queue \in Seq(Events) /\ Len(queue) = 0 /\ ToSet(queue) = {}
  BY EmptySeq DEF ToSet
<1>2. TypeOK
  <2>1. Len(queue) <= QueueDepth /\ prepares \in 0 .. MaxPrepares
    BY <1>1, ExecutorAssumption
  <2>2. queue \in Seq(Events)
    BY <1>1
  <2>. QED
    BY <2>1, <2>2 DEF TypeOK, TaskStates, Fates, ControllerPhases
<1>3. Custody
  BY <1>1, ExecutorAssumption DEF Custody
<1>4. Answering
  BY <1>1 DEF Answering, AnnouncedAsSent
<1>5. Lifecycle
  BY DEF Lifecycle, AllIdle, StageHolds, Quiet
<1>. QED
  BY <1>2, <1>3, <1>4, <1>5 DEF IInv

-----------------------------------------------------------------------------
(* The lifecycle depends on the controllers' variables and on the queue and  *)
(* the worker only through Quiet.                                            *)

LEMMA LifecycleKept ==
  ASSUME Lifecycle, UNCHANGED controlVars, ~(task \in {"running", "stopping"}) /\ Quiet => Quiet'
  PROVE  Lifecycle'
<1>1. \A stage : StageHolds(stage) => StageHolds(stage)'
  BY DEF StageHolds, controlVars
<1>. QED
  BY <1>1 DEF Lifecycle, AllIdle, controlVars

LEMMA SubmitRefuseInvariant ==
  ASSUME IInv, NEW d \in Dispatchers, NEW e \in Events, SubmitRefuse(d, e)
  PROVE  IInv'
<1>1. /\ fate[e] = "fresh" /\ fate' = [fate EXCEPT ![e] = "refused"]
      /\ UNCHANGED <<controlVars, workerVars, dispatchVars, queue, refs>>
      /\ TypeOK /\ Custody /\ Answering /\ Lifecycle
  BY DEF SubmitRefuse, IInv
<1>2. \A f \in Events : fate'[f] = IF f = e THEN "refused" ELSE fate[f]
  BY <1>1 DEF TypeOK
<1>3. TypeOK'
  BY <1>1 DEF TypeOK, Fates, controlVars, workerVars, dispatchVars
<1>4. Custody'
  BY <1>1, <1>2 DEF Custody, workerVars, dispatchVars
<1>5. Answering'
  BY <1>1, <1>2 DEF Answering, AnnouncedAsSent, workerVars
<1>6. Lifecycle'
  BY <1>1, LifecycleKept DEF Quiet, workerVars
<1>. QED
  BY <1>3, <1>4, <1>5, <1>6 DEF IInv

LEMMA SubmitReferenceInvariant ==
  ASSUME IInv, NEW d \in Dispatchers, NEW e \in Events, SubmitReference(d, e)
  PROVE  IInv'
<1>1. /\ dpc[d] = "idle" /\ fate[e] = "fresh"
      /\ refs' = [refs EXCEPT ![e] = refs[e] + 1]
      /\ fate' = [fate EXCEPT ![e] = "submitting"]
      /\ dpc' = [dpc EXCEPT ![d] = "referenced"]
      /\ offer' = [offer EXCEPT ![d] = e]
      /\ UNCHANGED <<controlVars, workerVars, queue>>
      /\ TypeOK /\ Custody /\ Answering /\ Lifecycle
  BY DEF SubmitReference, IInv
<1>2. /\ refs[e] = 0 /\ e # NoEvent /\ offer[d] = NoEvent
      /\ e \notin ToSet(queue) /\ e # hand
      /\ \A b \in Dispatchers : offer[b] # e
  BY <1>1, ExecutorAssumption DEF TypeOK, Custody
<1>3. /\ \A f \in Events : /\ fate'[f] = IF f = e THEN "submitting" ELSE fate[f]
                           /\ refs'[f] = IF f = e THEN 1 ELSE refs[f]
      /\ \A b \in Dispatchers : /\ offer'[b] = IF b = d THEN e ELSE offer[b]
                                /\ dpc'[b] = IF b = d THEN "referenced" ELSE dpc[b]
  BY <1>1, <1>2 DEF TypeOK
<1>4. TypeOK'
  <2>1. refs' \in [Events -> {0, 1}]
    BY <1>1, <1>2 DEF TypeOK
  <2>. QED
    BY <1>1, <2>1 DEF TypeOK, Fates, controlVars, workerVars
<1>5. Custody'
  <2>1. /\ \A b \in Dispatchers : dpc'[b] = "referenced" <=> offer'[b] # NoEvent
        /\ \A b, c \in Dispatchers : offer'[b] = offer'[c] /\ offer'[c] # NoEvent => b = c
    BY <1>1, <1>2, <1>3 DEF Custody
  <2>2. \A f \in Events :
          /\ fate'[f] = "submitting" <=> \E b \in Dispatchers : offer'[b] = f
          /\ fate'[f] = "admitted" <=> f \in ToSet(queue) \/ f = hand
          /\ refs'[f] = 1 <=> fate'[f] \in {"submitting", "admitted"}
    <3>. TAKE f \in Events
    <3>1. CASE f = e
      BY <1>1, <1>2, <1>3, <3>1
    <3>2. CASE f # e
      <4>1. (\E b \in Dispatchers : offer'[b] = f) <=> (\E b \in Dispatchers : offer[b] = f)
        BY <1>2, <1>3, <3>2, ExecutorAssumption
      <4>. QED
        BY <1>1, <1>3, <3>2, <4>1 DEF Custody
    <3>. QED
      BY <3>1, <3>2
  <2>. QED
    BY <1>1, <2>1, <2>2 DEF Custody, workerVars
<1>6. Answering'
  BY <1>1, <1>3 DEF Answering, AnnouncedAsSent, workerVars
<1>7. Lifecycle'
  BY <1>1, LifecycleKept DEF Quiet, workerVars
<1>. QED
  BY <1>4, <1>5, <1>6, <1>7 DEF IInv

LEMMA SubmitHandOverInvariant ==
  ASSUME IInv, NEW d \in Dispatchers, SubmitHandOver(d)
  PROVE  IInv'
<1>. DEFINE e == offer[d]
<1>1. /\ dpc[d] = "referenced"
      /\ \/ /\ TaskAdmits
            /\ queue' = Append(queue, e)
            /\ fate' = [fate EXCEPT ![e] = "admitted"]
            /\ refs' = refs
         \/ /\ ~TaskAdmits
            /\ queue' = queue
            /\ fate' = [fate EXCEPT ![e] = "refused"]
            /\ refs' = [refs EXCEPT ![e] = refs[e] - 1]
      /\ dpc' = [dpc EXCEPT ![d] = "idle"]
      /\ offer' = [offer EXCEPT ![d] = NoEvent]
      /\ UNCHANGED <<controlVars, workerVars>>
      /\ TypeOK /\ Custody /\ Answering /\ Lifecycle
  BY DEF SubmitHandOver, RefsAfterReject, IInv
<1>2. /\ e \in Events /\ e # NoEvent /\ fate[e] = "submitting" /\ refs[e] = 1
      /\ e \notin ToSet(queue) /\ e # hand
      /\ \A b \in Dispatchers : offer[b] = e => b = d
  BY <1>1 DEF TypeOK, Custody
<1>3. \A b \in Dispatchers : /\ offer'[b] = IF b = d THEN NoEvent ELSE offer[b]
                             /\ dpc'[b] = IF b = d THEN "idle" ELSE dpc[b]
  BY <1>1 DEF TypeOK
<1>. HIDE DEF e
<1>4. CASE /\ TaskAdmits
           /\ queue' = Append(queue, e)
           /\ fate' = [fate EXCEPT ![e] = "admitted"]
           /\ refs' = refs
  <2>1. /\ queue' \in Seq(Events) /\ Len(queue') = Len(queue) + 1
        /\ \A i \in 1 .. Len(queue) : queue'[i] = queue[i]
        /\ queue'[Len(queue) + 1] = e
        /\ ToSet(queue') = ToSet(queue) \cup {e}
        /\ Len(queue) \in Nat
    BY <1>1, <1>2, <1>4, AppendProperties, AppendToSet, LenProperties DEF TypeOK
  <2>2. \A f \in Events : fate'[f] = IF f = e THEN "admitted" ELSE fate[f]
    BY <1>1, <1>2, <1>4 DEF TypeOK
  <2>3. TypeOK'
    <3>1. Len(queue') <= QueueDepth
      BY <1>4, <2>1, ExecutorAssumption DEF TaskAdmits
    <3>. QED
      BY <1>1, <1>2, <1>4, <2>1, <3>1 DEF TypeOK, Fates, controlVars, workerVars
  <2>4. Custody'
    <3>1. \A i, j \in 1 .. Len(queue') : queue'[i] = queue'[j] => i = j
      <4>1. \A i \in 1 .. Len(queue) : queue[i] # e
        BY <1>1, <1>2, LenProperties DEF ToSet, TypeOK
      <4>2. \A i, j \in 1 .. Len(queue) : queue[i] = queue[j] => i = j
        BY <1>1 DEF Custody
      <4>. QED
        BY <2>1, <4>1, <4>2
    <3>2. /\ \A b \in Dispatchers : dpc'[b] = "referenced" <=> offer'[b] # NoEvent
          /\ \A b, c \in Dispatchers : offer'[b] = offer'[c] /\ offer'[c] # NoEvent => b = c
      BY <1>1, <1>3 DEF Custody
    <3>3. \A f \in Events :
            /\ fate'[f] = "submitting" <=> \E b \in Dispatchers : offer'[b] = f
            /\ fate'[f] = "admitted" <=> f \in ToSet(queue') \/ f = hand
            /\ refs'[f] = 1 <=> fate'[f] \in {"submitting", "admitted"}
      BY <1>1, <1>2, <1>3, <1>4, <2>1, <2>2, ExecutorAssumption DEF Custody
    <3>. QED
      BY <1>1, <1>2, <2>1, <3>1, <3>2, <3>3 DEF Custody, workerVars
  <2>5. Answering'
    BY <1>1, <1>2, <2>1, <2>2 DEF Answering, AnnouncedAsSent, workerVars
  <2>6. Lifecycle'
    BY <1>1, <1>4, LifecycleKept DEF TaskAdmits
  <2>. QED
    BY <2>3, <2>4, <2>5, <2>6 DEF IInv
<1>5. CASE /\ queue' = queue
           /\ fate' = [fate EXCEPT ![e] = "refused"]
           /\ refs' = [refs EXCEPT ![e] = refs[e] - 1]
  <2>1. \A f \in Events : /\ fate'[f] = IF f = e THEN "refused" ELSE fate[f]
                          /\ refs'[f] = IF f = e THEN 0 ELSE refs[f]
    BY <1>1, <1>2, <1>5 DEF TypeOK
  <2>2. TypeOK'
    <3>1. refs' \in [Events -> {0, 1}]
      BY <1>1, <1>2, <1>5 DEF TypeOK
    <3>. QED
      BY <1>1, <1>2, <1>5, <3>1 DEF TypeOK, Fates, controlVars, workerVars
  <2>3. Custody'
    BY <1>1, <1>2, <1>3, <1>5, <2>1, ExecutorAssumption DEF Custody, workerVars
  <2>4. Answering'
    BY <1>1, <1>2, <1>5, <2>1 DEF Answering, AnnouncedAsSent, workerVars
  <2>5. Lifecycle'
    BY <1>1, <1>5, LifecycleKept DEF Quiet, workerVars
  <2>. QED
    BY <2>2, <2>3, <2>4, <2>5 DEF IInv
<1>. QED
  BY <1>1, <1>4, <1>5 DEF e

-----------------------------------------------------------------------------
(* The worker.                                                              *)

LEMMA WorkerTakeInvariant ==
  ASSUME IInv, WorkerTake
  PROVE  IInv'
<1>. DEFINE e == Head(queue)
<1>1. /\ task = "running" /\ phase = "waiting" /\ queue # <<>>
      /\ hand' = e /\ queue' = Tail(queue) /\ phase' = "taken" /\ routed' = FALSE
      /\ UNCHANGED <<controlVars, dispatchVars, refs, fate, sent, announced>>
      /\ TypeOK /\ Custody /\ Answering /\ Lifecycle
  BY DEF WorkerTake, RoutedAtStart, IInv
<1>2. /\ e \in Events /\ e = queue[1]
      /\ queue' \in Seq(Events) /\ Len(queue') = Len(queue) - 1
      /\ \A i \in 1 .. Len(queue') : queue'[i] = queue[i + 1]
      /\ ToSet(queue) = {e} \cup ToSet(queue')
      /\ Len(queue) \in Nat /\ Len(queue) >= 1
  BY <1>1, HeadTailProperties, HeadTailToSet DEF TypeOK
<1>3. e \notin ToSet(queue') /\ hand = NoEvent /\ e # NoEvent
  <2>1. \A i, j \in 1 .. Len(queue) : queue[i] = queue[j] => i = j
    BY <1>1 DEF Custody
  <2>2. ToSet(queue') = {queue'[i] : i \in 1 .. Len(queue')}
    BY <1>2, LenProperties DEF ToSet
  <2>3. \A i \in 1 .. Len(queue') : queue'[i] # e
    BY <1>2, <2>1
  <2>. QED
    BY <1>1, <1>2, <2>2, <2>3, ExecutorAssumption DEF Custody
<1>. HIDE DEF e
<1>4. TypeOK'
  <2>1. Len(queue') <= QueueDepth
    BY <1>1, <1>2, ExecutorAssumption DEF TypeOK
  <2>. QED
    BY <1>1, <1>2, <2>1 DEF TypeOK, controlVars, dispatchVars
<1>5. Custody'
  <2>1. \A i, j \in 1 .. Len(queue') : queue'[i] = queue'[j] => i = j
    <3>1. \A i, j \in 1 .. Len(queue) : queue[i] = queue[j] => i = j
      BY <1>1 DEF Custody
    <3>. QED
      BY <1>2, <3>1
  <2>2. \A f \in Events : f \in ToSet(queue') \/ f = hand' <=> f \in ToSet(queue) \/ f = hand
    BY <1>1, <1>2, <1>3, ExecutorAssumption
  <2>. QED
    BY <1>1, <1>2, <1>3, <2>1, <2>2 DEF Custody, dispatchVars
<1>6. Answering'
  BY <1>1, <1>2, <1>3 DEF Answering, AnnouncedAsSent
<1>7. Lifecycle'
  BY <1>1, LifecycleKept
<1>. QED
  BY <1>4, <1>5, <1>6, <1>7 DEF IInv

\* The worker moves on with the item in its hand.
LEMMA WorkerMovesOn ==
  ASSUME IInv, phase \in {"taken", "checked", "invoked"},
         phase' \in {"checked", "invoked", "answered"},
         UNCHANGED <<controlVars, dispatchVars, queue, refs, fate, hand, announced>>,
         routed' \in BOOLEAN, sent' \subseteq Events, Answering'
  PROVE  IInv'
<1>1. TypeOK /\ Custody /\ Lifecycle
  BY DEF IInv
<1>2. TypeOK'
  BY <1>1 DEF TypeOK, controlVars, dispatchVars
<1>3. Custody'
  BY <1>1 DEF Custody, dispatchVars
<1>4. Lifecycle'
  BY <1>1, LifecycleKept DEF Quiet
<1>. QED
  BY <1>2, <1>3, <1>4 DEF IInv

LEMMA WorkerCheckInvariant ==
  ASSUME IInv, WorkerCheck \/ WorkerInvoke
  PROVE  IInv'
<1>1. /\ phase \in {"taken", "checked"} /\ phase' \in {"checked", "invoked"}
      /\ UNCHANGED <<controlVars, dispatchVars, queue, refs, fate, hand, routed,
                     sent, announced>>
      /\ TypeOK /\ Answering
  BY DEF WorkerCheck, WorkerInvoke, IInv
<1>2. Answering'
  BY <1>1 DEF Answering, AnnouncedAsSent
<1>. QED
  BY <1>1, <1>2, WorkerMovesOn DEF TypeOK

LEMMA WorkerAnswerInvariant ==
  ASSUME IInv, WorkerAnswer
  PROVE  IInv'
<1>1. /\ phase = "invoked" /\ phase' = "answered"
      /\ UNCHANGED <<controlVars, dispatchVars, queue, refs, fate, hand, announced>>
      /\ TypeOK /\ Custody /\ Answering
  BY DEF WorkerAnswer, IInv
<1>2. /\ hand \in Events /\ hand \notin ToSet(queue) /\ fate[hand] = "admitted"
      /\ routed = FALSE /\ hand \notin sent
  BY <1>1 DEF TypeOK, Custody, Answering
<1>3. \/ WantsAnswer(hand) /\ routed' = TRUE /\ sent' = sent \cup {hand}
      \/ routed' = FALSE /\ sent' = sent
  BY <1>2 DEF WorkerAnswer
<1>4. /\ routed' \in BOOLEAN /\ sent' \subseteq Events
      /\ routed' <=> hand \in sent'
      /\ \A f \in Events : f # hand => (f \in sent' <=> f \in sent)
      /\ sent' \subseteq sent \cup ({hand} \cap Completing \cap Remote)
  BY <1>1, <1>2, <1>3 DEF TypeOK, WantsAnswer
<1>5. Answering'
  <2>1. sent' \subseteq Completing \cap Remote
    BY <1>1, <1>4 DEF Answering, AnnouncedAsSent
  <2>2. \A f \in Events : fate[f] = "completed" => (announced[f] = "routed" <=> f \in sent')
    BY <1>1, <1>2, <1>4 DEF Answering, AnnouncedAsSent
  <2>3. \A f \in Events : fate[f] \in {"fresh", "submitting"} \/ f \in ToSet(queue)
                            => f \notin sent'
    BY <1>1, <1>2, <1>4 DEF Answering
  <2>. QED
    BY <1>1, <1>4, <2>1, <2>2, <2>3 DEF Answering, AnnouncedAsSent
<1>. QED
  BY <1>1, <1>4, <1>5, WorkerMovesOn

\* ProcessWork returns, with whichever outcome.
LEMMA WorkerDoneInvariant ==
  ASSUME IInv, NEW how \in {"discarded", "failed", "completed"},
         phase # "waiting", WorkerDone(how),
         announced' \in [Events -> {"none", "routed", "unrouted"}],
         \A f \in Events \ {hand} : announced'[f] = announced[f],
         how = "completed" => (announced'[hand] = "routed" <=> hand \in sent)
  PROVE  IInv'
<1>1. /\ phase' = "waiting" /\ hand' = NoEvent
      /\ refs' = [refs EXCEPT ![hand] = refs[hand] - 1]
      /\ fate' = [fate EXCEPT ![hand] = how]
      /\ UNCHANGED <<controlVars, dispatchVars, queue, routed, sent>>
      /\ TypeOK /\ Custody /\ Answering /\ Lifecycle
  BY DEF WorkerDone, IInv
<1>2. /\ hand \in Events /\ hand \notin ToSet(queue)
      /\ fate[hand] = "admitted" /\ refs[hand] = 1
      /\ \A d \in Dispatchers : offer[d] # hand
  BY <1>1 DEF TypeOK, Custody
<1>3. /\ \A f \in Events : /\ fate'[f] = IF f = hand THEN how ELSE fate[f]
                           /\ refs'[f] = IF f = hand THEN 0 ELSE refs[f]
      /\ refs' \in [Events -> {0, 1}] /\ fate' \in [Events -> Fates]
  BY <1>1, <1>2 DEF TypeOK, Fates
<1>4. TypeOK'
  BY <1>1, <1>3 DEF TypeOK, controlVars, dispatchVars
<1>5. Custody'
  <2>1. \A f \in Events :
          /\ fate'[f] = "submitting" <=> \E d \in Dispatchers : offer[d] = f
          /\ fate'[f] = "admitted" <=> f \in ToSet(queue) \/ f = NoEvent
          /\ refs'[f] = 1 <=> fate'[f] \in {"submitting", "admitted"}
    <3>. TAKE f \in Events
    <3>1. CASE f = hand
      BY <1>2, <1>3, <3>1, ExecutorAssumption
    <3>2. CASE f # hand
      BY <1>1, <1>3, <3>2, ExecutorAssumption DEF Custody
    <3>. QED
      BY <3>1, <3>2
  <2>2. NoEvent \notin ToSet(queue)
    BY <1>1, LenProperties, ElementOfSeq, ExecutorAssumption DEF TypeOK, ToSet
  <2>. QED
    BY <1>1, <2>1, <2>2 DEF Custody, dispatchVars
<1>6. Answering'
  BY <1>1, <1>2, <1>3, ExecutorAssumption DEF Answering, AnnouncedAsSent
<1>7. Lifecycle'
  BY <1>1, LifecycleKept DEF Quiet
<1>. QED
  BY <1>4, <1>5, <1>6, <1>7 DEF IInv

LEMMA WorkerInvariant ==
  ASSUME IInv, Worker
  PROVE  IInv'
<1>0. TypeOK
  BY DEF IInv
<1>1. CASE WorkerTake
  BY <1>1, WorkerTakeInvariant
<1>2. CASE WorkerDiscard
  BY <1>0, <1>2, WorkerDoneInvariant DEF WorkerDiscard, TypeOK
<1>3. CASE WorkerCheck \/ WorkerInvoke
  BY <1>3, WorkerCheckInvariant
<1>4. CASE WorkerThrow
  BY <1>0, <1>4, WorkerDoneInvariant DEF WorkerThrow, TypeOK
<1>5. CASE WorkerAnswer
  BY <1>5, WorkerAnswerInvariant
<1>6. CASE WorkerAnnounce
  <2>1. /\ phase = "answered" /\ WorkerDone("completed")
        /\ announced' = [announced EXCEPT ![hand] = IF routed THEN "routed" ELSE "unrouted"]
        /\ hand \in Events /\ (routed <=> hand \in sent)
    BY <1>0, <1>6 DEF WorkerAnnounce, IInv, TypeOK, Custody, Answering
  <2>2. /\ announced' \in [Events -> {"none", "routed", "unrouted"}]
        /\ \A f \in Events \ {hand} : announced'[f] = announced[f]
        /\ announced'[hand] = "routed" <=> routed
    BY <1>0, <2>1 DEF TypeOK
  <2>. QED
    BY <2>1, <2>2, WorkerDoneInvariant
<1>. QED
  BY <1>1, <1>2, <1>3, <1>4, <1>5, <1>6 DEF Worker

-----------------------------------------------------------------------------
(* Prepare and ShutdownExecutor.                                            *)

\* What a controller's step leaves alone, unless it stops the worker.
LEMMA ControllerStep ==
  ASSUME IInv, NEW c \in Controllers,
         NEW from \in ControllerPhases, NEW to \in ControllerPhases, Step(c, from, to),
         prepared' \in BOOLEAN, registry' \in BOOLEAN, receiver' \in BOOLEAN,
         task' \in TaskStates, prepares' \in 0 .. MaxPrepares
  PROVE  /\ UNCHANGED <<workerVars, dispatchVars, queue, refs, fate>>
              => TypeOK' /\ Custody' /\ Answering'
         /\ ~overlapped' => StageHolds(from)
         /\ (~overlapped' => StageHolds(to)') => Lifecycle'
<1>1. /\ cpc[c] = from /\ cpc' = [cpc EXCEPT ![c] = to]
      /\ overlapped' = (overlapped \/ \E b \in Controllers \ {c} : cpc[b] # "idle")
      /\ TypeOK /\ Custody /\ Answering /\ Lifecycle
  BY DEF Step, IInv
<1>2. /\ cpc'[c] = to /\ \A b \in Controllers \ {c} : cpc'[b] = cpc[b]
      /\ cpc' \in [Controllers -> ControllerPhases] /\ overlapped' \in BOOLEAN
  BY <1>1 DEF TypeOK
<1>3. ASSUME UNCHANGED <<workerVars, dispatchVars, queue, refs, fate>>
      PROVE  TypeOK' /\ Custody' /\ Answering'
  BY <1>1, <1>2, <1>3
     DEF TypeOK, Custody, Answering, AnnouncedAsSent, workerVars, dispatchVars
<1>4. ASSUME ~overlapped'
      PROVE  StageHolds(from) /\ \A b \in Controllers \ {c} : cpc'[b] = "idle"
  <2>1. ~overlapped /\ \A b \in Controllers \ {c} : cpc[b] = "idle"
    BY <1>1, <1>4
  <2>2. CASE AllIdle /\ StageHolds("idle")
    BY <1>1, <1>2, <2>1, <2>2 DEF AllIdle
  <2>3. CASE \E b \in Controllers : /\ cpc[b] # "idle"
                                    /\ StageHolds(cpc[b])
    BY <1>1, <1>2, <2>1, <2>3
  <2>. QED
    BY <1>1, <2>1, <2>2, <2>3 DEF Lifecycle
<1>5. ASSUME ~overlapped' => StageHolds(to)'
      PROVE  Lifecycle'
  <2>. SUFFICES ASSUME ~overlapped'
                PROVE  \/ AllIdle' /\ StageHolds("idle")'
                       \/ \E b \in Controllers :
                            /\ cpc'[b] # "idle"
                            /\ \A a \in Controllers \ {b} : cpc'[a] = "idle"
                            /\ StageHolds(cpc[b])'
    BY DEF Lifecycle
  <2>1. CASE to = "idle"
    BY <1>2, <1>4, <1>5, <2>1 DEF AllIdle
  <2>2. CASE to # "idle"
    BY <1>2, <1>4, <1>5, <2>2
  <2>. QED
    BY <2>1, <2>2
<1>. QED
  BY <1>3, <1>4, <1>5

\* A step that leaves the worker and the dispatchers alone and carries the
\* lifecycle on from where it was keeps the invariant.
LEMMA ControllerKeepsInvariant ==
  ASSUME IInv, NEW c \in Controllers,
         NEW from \in ControllerPhases, NEW to \in ControllerPhases, Step(c, from, to),
         UNCHANGED <<workerVars, dispatchVars, queue, refs, fate>>,
         prepared' \in BOOLEAN, registry' \in BOOLEAN, receiver' \in BOOLEAN,
         task' \in TaskStates, prepares' \in 0 .. MaxPrepares,
         StageHolds(from) => StageHolds(to)'
  PROVE  IInv'
BY ControllerStep DEF IInv

LEMMA PrepareInvariant ==
  ASSUME IInv, NEW c \in Controllers, Prepare(c)
  PROVE  IInv'
<1>0. /\ prepared \in BOOLEAN /\ registry \in BOOLEAN /\ receiver \in BOOLEAN
      /\ task \in TaskStates /\ prepares \in 0 .. MaxPrepares
  BY DEF IInv, TypeOK
<1>. DEFINE Rest == UNCHANGED <<workerVars, dispatchVars, queue, refs, fate>>
<1>1. CASE PrepareBegin(c)
  <2>1. /\ Step(c, "idle", "preparing") /\ ~prepared /\ Rest
        /\ UNCHANGED <<prepared, registry, task, receiver>>
        /\ prepares' \in 0 .. MaxPrepares
    BY <1>0, <1>1, ExecutorAssumption DEF PrepareBegin
  <2>2. StageHolds("idle") => StageHolds("preparing")'
    BY <1>0, <2>1 DEF StageHolds, Quiet, TaskStates, workerVars
  <2>. QED
    BY <1>0, <2>1, <2>2, ControllerKeepsInvariant DEF ControllerPhases, TaskStates
<1>2. CASE PrepareInitialize(c)
  <2>1. /\ Step(c, "preparing", "initialized") /\ Rest
        /\ registry' = TRUE /\ task' = IF task = "new" THEN "initialized" ELSE task
        /\ UNCHANGED <<prepared, receiver, prepares>>
    BY <1>2 DEF PrepareInitialize
  <2>2. StageHolds("preparing") => StageHolds("initialized")'
    BY <1>0, <2>1 DEF StageHolds, Quiet, TaskStates, workerVars
  <2>. QED
    BY <1>0, <2>1, <2>2, ControllerKeepsInvariant DEF ControllerPhases, TaskStates
<1>3. CASE PrepareInitializeFails(c)
  <2>1. /\ Step(c, "preparing", "idle") /\ Rest /\ registry' = FALSE
        /\ UNCHANGED <<prepared, task, receiver, prepares>>
    BY <1>3 DEF PrepareInitializeFails
  <2>2. StageHolds("preparing") => StageHolds("idle")'
    BY <1>0, <2>1 DEF StageHolds, Quiet, TaskStates, workerVars
  <2>. QED
    BY <1>0, <2>1, <2>2, ControllerKeepsInvariant DEF ControllerPhases, TaskStates
<1>4. CASE PrepareStart(c)
  <2>1. /\ Step(c, "initialized", "started") /\ Rest /\ task' = "running"
        /\ UNCHANGED <<prepared, registry, receiver, prepares>>
    BY <1>4 DEF PrepareStart
  <2>2. StageHolds("initialized") => StageHolds("started")'
    BY <1>0, <2>1 DEF StageHolds, Quiet, TaskStates, workerVars
  <2>. QED
    BY <1>0, <2>1, <2>2, ControllerKeepsInvariant DEF ControllerPhases, TaskStates
<1>5. CASE PrepareStartFails(c)
  <2>1. /\ Step(c, "initialized", "idle") /\ Rest /\ registry' = FALSE
        /\ UNCHANGED <<prepared, task, receiver, prepares>>
    BY <1>5 DEF PrepareStartFails
  <2>2. StageHolds("initialized") => StageHolds("idle")'
    BY <1>0, <2>1 DEF StageHolds, Quiet, TaskStates, workerVars
  <2>. QED
    BY <1>0, <2>1, <2>2, ControllerKeepsInvariant DEF ControllerPhases, TaskStates
<1>6. CASE PreparePublish(c)
  <2>1. /\ Step(c, "started", "published") /\ Rest /\ prepared' = TRUE
        /\ UNCHANGED <<registry, task, receiver, prepares>>
    BY <1>6 DEF PreparePublish
  <2>2. StageHolds("started") => StageHolds("published")'
    BY <1>0, <2>1 DEF StageHolds, Quiet, TaskStates, workerVars
  <2>. QED
    BY <1>0, <2>1, <2>2, ControllerKeepsInvariant DEF ControllerPhases, TaskStates
<1>7. CASE PrepareRegister(c)
  <2>1. /\ Step(c, "published", "idle") /\ Rest /\ receiver' = TRUE
        /\ UNCHANGED <<prepared, registry, task, prepares>>
    BY <1>7 DEF PrepareRegister
  <2>2. StageHolds("published") => StageHolds("idle")'
    BY <1>0, <2>1 DEF StageHolds, Quiet, TaskStates, workerVars
  <2>. QED
    BY <1>0, <2>1, <2>2, ControllerKeepsInvariant DEF ControllerPhases, TaskStates
<1>. QED
  BY <1>1, <1>2, <1>3, <1>4, <1>5, <1>6, <1>7 DEF Prepare

\* Stop: the worker's hand is empty, so what ReleaseWork reclaims is what is
\* left in the queue, each of them once.
LEMMA ReclaimKeepsCustody ==
  ASSUME IInv, phase = "waiting", queue' = <<>>, refs' = ReleaseWork(queue),
         fate' = [e \in Events |-> IF e \in ToSet(queue) THEN "reclaimed" ELSE fate[e]],
         UNCHANGED <<workerVars, dispatchVars>>
  PROVE  /\ refs' \in [Events -> {0, 1}] /\ fate' \in [Events -> Fates]
         /\ Custody' /\ Answering'
<1>1. TypeOK /\ Custody /\ Answering
  BY DEF IInv
<1>2. queue' \in Seq(Events) /\ Len(queue') = 0 /\ ToSet(queue') = {} /\ hand = NoEvent
  BY <1>1, EmptySeq DEF ToSet, Custody
<1>3. \A e \in Events :
        /\ fate'[e] = IF e \in ToSet(queue) THEN "reclaimed" ELSE fate[e]
        /\ refs'[e] = IF e \in ToSet(queue) THEN 0 ELSE refs[e]
  BY <1>1 DEF TypeOK, Custody, ReleaseWork
<1>4. refs' \in [Events -> {0, 1}] /\ fate' \in [Events -> Fates]
  <2>1. refs' \in [Events -> {0, 1}]
    BY <1>1, <1>3 DEF TypeOK, ReleaseWork
  <2>. QED
    BY <1>1, <2>1 DEF TypeOK, Fates
<1>5. Custody'
  <2>1. \A e \in Events :
          /\ fate'[e] = "submitting" <=> \E d \in Dispatchers : offer[d] = e
          /\ fate'[e] # "admitted"
          /\ refs'[e] = 1 <=> fate'[e] \in {"submitting", "admitted"}
    <3>. TAKE e \in Events
    <3>1. CASE e \in ToSet(queue)
      BY <1>1, <1>3, <3>1 DEF Custody
    <3>2. CASE e \notin ToSet(queue)
      BY <1>1, <1>2, <1>3, <3>2, ExecutorAssumption DEF Custody
    <3>. QED
      BY <3>1, <3>2
  <2>. QED
    BY <1>1, <1>2, <2>1, ExecutorAssumption DEF Custody, workerVars, dispatchVars
<1>6. Answering'
  BY <1>1, <1>2, <1>3 DEF Answering, AnnouncedAsSent, workerVars
<1>. QED
  BY <1>4, <1>5, <1>6

LEMMA ShutdownInvariant ==
  ASSUME IInv, NEW c \in Controllers, ShutdownExecutor(c)
  PROVE  IInv'
<1>0. /\ prepared \in BOOLEAN /\ registry \in BOOLEAN /\ receiver \in BOOLEAN
      /\ task \in TaskStates /\ prepares \in 0 .. MaxPrepares
  BY DEF IInv, TypeOK
<1>. DEFINE Rest == UNCHANGED <<workerVars, dispatchVars, queue, refs, fate>>
<1>1. CASE ShutdownPrepared(c)
  <2>1. /\ Step(c, "idle", "unregistering") /\ Rest /\ prepared /\ prepared' = FALSE
        /\ UNCHANGED <<registry, task, receiver, prepares>>
    BY <1>1 DEF ShutdownPrepared
  <2>2. StageHolds("idle") => StageHolds("unregistering")'
    BY <1>0, <2>1 DEF StageHolds, Quiet, TaskStates, workerVars
  <2>. QED
    BY <1>0, <2>1, <2>2, ControllerKeepsInvariant DEF ControllerPhases, TaskStates
<1>2. CASE ShutdownUnprepared(c)
  <2>1. /\ Step(c, "idle", "halting") /\ Rest /\ ~prepared /\ registry' = FALSE
        /\ UNCHANGED <<prepared, task, receiver, prepares>>
    BY <1>2 DEF ShutdownUnprepared
  <2>2. StageHolds("idle") => StageHolds("halting")'
    BY <1>0, <2>1 DEF StageHolds, Quiet, TaskStates, workerVars
  <2>. QED
    BY <1>0, <2>1, <2>2, ControllerKeepsInvariant DEF ControllerPhases, TaskStates
<1>3. CASE ShutdownUnregister(c)
  <2>1. /\ Step(c, "unregistering", "stopping") /\ Rest /\ receiver' = FALSE
        /\ UNCHANGED <<prepared, registry, task, prepares>>
    BY <1>3 DEF ShutdownUnregister, RegistryWhileStopping
  <2>2. StageHolds("unregistering") => StageHolds("stopping")'
    BY <1>0, <2>1 DEF StageHolds, Quiet, TaskStates, workerVars
  <2>. QED
    BY <1>0, <2>1, <2>2, ControllerKeepsInvariant DEF ControllerPhases, TaskStates
<1>4. CASE TaskStopBegin(c)
  <2>1. /\ Step(c, "stopping", "joining") \/ Step(c, "halting", "halted")
        /\ task' = IF task = "running" THEN "stopping" ELSE task
        /\ Rest /\ UNCHANGED <<prepared, registry, receiver, prepares>>
    BY <1>4 DEF TaskStopBegin
  <2>2. /\ StageHolds("stopping") => StageHolds("joining")'
        /\ StageHolds("halting") => StageHolds("halted")'
    BY <1>0, <2>1 DEF StageHolds, Quiet, TaskStates, workerVars
  <2>3. CASE Step(c, "stopping", "joining")
    BY <1>0, <2>1, <2>2, <2>3, ControllerKeepsInvariant
       DEF ControllerPhases, TaskStates
  <2>4. CASE Step(c, "halting", "halted")
    BY <1>0, <2>1, <2>2, <2>4, ControllerKeepsInvariant
       DEF ControllerPhases, TaskStates
  <2>. QED
    BY <2>1, <2>3, <2>4
<1>5. CASE TaskStopEnd(c)
  <2>1. /\ Step(c, "joining", "stopped") \/ Step(c, "halted", "idle")
        /\ UNCHANGED <<prepared, registry, receiver, prepares, workerVars, dispatchVars>>
    BY <1>5 DEF TaskStopEnd
  <2>2. /\ task' \in TaskStates /\ TypeOK' /\ Custody' /\ Answering'
        /\ StageHolds("joining") => StageHolds("stopped")'
        /\ StageHolds("halted") => StageHolds("idle")'
    <3>1. CASE task = "stopping"
      <4>1. /\ phase = "waiting" /\ task' = "initialized" /\ queue' = <<>>
            /\ refs' = ReleaseWork(queue)
            /\ fate' = [e \in Events |->
                          IF e \in ToSet(queue) THEN "reclaimed" ELSE fate[e]]
        BY <1>5, <3>1 DEF TaskStopEnd
      <4>2. /\ refs' \in [Events -> {0, 1}] /\ fate' \in [Events -> Fates]
            /\ Custody' /\ Answering'
        BY <2>1, <4>1, ReclaimKeepsCustody
      <4>3. cpc' \in [Controllers -> ControllerPhases] /\ overlapped' \in BOOLEAN
        BY <2>1 DEF IInv, TypeOK, Step, ControllerPhases
      <4>4. queue' \in Seq(Events) /\ Len(queue') <= QueueDepth
        BY <4>1, EmptySeq, ExecutorAssumption
      <4>5. TypeOK'
        BY <2>1, <4>1, <4>2, <4>3, <4>4
           DEF IInv, TypeOK, TaskStates, workerVars, dispatchVars
      <4>. QED
        BY <2>1, <3>1, <4>1, <4>2, <4>5 DEF StageHolds, Quiet, TaskStates, workerVars
    <3>2. CASE task # "stopping"
      <4>1. Rest /\ task' = task
        BY <1>5, <2>1, <3>2 DEF TaskStopEnd
      <4>2. TypeOK' /\ Custody' /\ Answering'
        BY <1>0, <2>1, <4>1, ControllerStep DEF ControllerPhases
      <4>3. /\ StageHolds("joining") => StageHolds("stopped")'
            /\ StageHolds("halted") => StageHolds("idle")'
        BY <1>0, <2>1, <3>2, <4>1 DEF StageHolds, Quiet, TaskStates, workerVars
      <4>. QED
        BY <1>0, <4>1, <4>2, <4>3
    <3>. QED
      BY <3>1, <3>2
  <2>3. CASE Step(c, "joining", "stopped")
    BY <1>0, <2>1, <2>2, <2>3, ControllerStep
       DEF IInv, ControllerPhases
  <2>4. CASE Step(c, "halted", "idle")
    BY <1>0, <2>1, <2>2, <2>4, ControllerStep
       DEF IInv, ControllerPhases
  <2>. QED
    BY <2>1, <2>3, <2>4
<1>6. CASE ShutdownForget(c)
  <2>1. /\ Step(c, "stopped", "idle") /\ Rest /\ registry' = FALSE
        /\ UNCHANGED <<prepared, task, receiver, prepares>>
    BY <1>6 DEF ShutdownForget
  <2>2. StageHolds("stopped") => StageHolds("idle")'
    BY <1>0, <2>1 DEF StageHolds, Quiet, TaskStates, workerVars
  <2>. QED
    BY <1>0, <2>1, <2>2, ControllerKeepsInvariant DEF ControllerPhases, TaskStates
<1>. QED
  BY <1>1, <1>2, <1>3, <1>4, <1>5, <1>6 DEF ShutdownExecutor

-----------------------------------------------------------------------------
LEMMA NextInvariant == IInv /\ [Next]_vars => IInv'
<1>. SUFFICES ASSUME IInv, [Next]_vars PROVE IInv'
  OBVIOUS
<1>1. ASSUME NEW d \in Dispatchers, Submit(d) PROVE IInv'
  BY <1>1, SubmitRefuseInvariant, SubmitReferenceInvariant, SubmitHandOverInvariant
     DEF Submit
<1>2. CASE Worker
  BY <1>2, WorkerInvariant
<1>3. ASSUME NEW c \in Controllers, Prepare(c) \/ ShutdownExecutor(c) PROVE IInv'
  BY <1>3, PrepareInvariant, ShutdownInvariant
<1>4. CASE UNCHANGED vars
  <2>1. TypeOK' /\ Custody' /\ Answering'
    BY <1>4 DEF IInv, vars, controlVars, workerVars, dispatchVars, TypeOK, Custody,
                Answering, AnnouncedAsSent
  <2>2. Lifecycle'
    BY <1>4, LifecycleKept DEF IInv, vars, workerVars, Quiet
  <2>. QED
    BY <2>1, <2>2 DEF IInv
<1>. QED
  BY <1>1, <1>2, <1>3, <1>4 DEF Next

\* The inductive invariant holds in every state the executor reaches.
THEOREM InvariantHolds == Spec => []IInv
BY InitInvariant, NextInvariant, PTL DEF Spec

\* Every variable keeps its type: the queue never exceeds its depth, and no
\* reference is given back twice.
THEOREM TypeCorrect == Spec => []TypeOK
<1>. IInv => TypeOK
  BY DEF IInv
<1>. QED
  BY InvariantHolds, PTL

\* Exactly the events in the queue, in the worker's hand or on their way into
\* the queue are referenced, however submissions, exceptions and Stop interleave.
THEOREM NoLeakNoUseAfterFree == Spec => []ReferencesBalanced
<1>1. IInv => ReferencesBalanced
  BY DEF IInv, Custody, ReferencesBalanced
<1>. QED
  BY <1>1, InvariantHolds, PTL

\* As long as lifecycle calls take turns, what the queue and the worker hold
\* finds a registry.
THEOREM RegistryIsThere == Spec => []RegistryOutlivesWork
<1>1. IInv => RegistryOutlivesWork
  BY DEF IInv, Lifecycle, StageHolds, Quiet, RegistryOutlivesWork
<1>. QED
  BY <1>1, InvariantHolds, PTL

\* As long as lifecycle calls take turns, the flag is set between them exactly
\* when the executor receives and executes; when it is not, nothing is left.
THEOREM FlagIsTrue == Spec => []FlagTellsTheTruth
<1>1. IInv => FlagTellsTheTruth
  BY DEF IInv, Lifecycle, AllIdle, StageHolds, Quiet, FlagTellsTheTruth,
         PreparedMeansActive, ShutdownIsComplete
<1>. QED
  BY <1>1, InvariantHolds, PTL

\* A completion event says of its own response, and of no other, whether it was
\* routed; nobody is answered who did not ask.
THEOREM AnnouncementIsTrue == Spec => []AnnouncedAsSent
<1>1. IInv => AnnouncedAsSent
  BY DEF IInv, Answering
<1>. QED
  BY <1>1, InvariantHolds, PTL

-----------------------------------------------------------------------------
(* What is behind AdmittedIsSettled: no event leaves the executor's hands  *)
(* unsettled, and what is in them is cared for.                            *)

\* Events are settled once: a fate that has been settled stays, and an admitted
\* event is in the executor's hands until it is settled.
FateIsFinal ==
  [][\A e \in Events :
       /\ fate[e] \in Settled \cup {"refused"} => fate'[e] = fate[e]
       /\ fate[e] = "admitted" => fate'[e] \in Settled \cup {"admitted"}]_vars

\* While lifecycle calls take turns, an event that is admitted is in the care of
\* a worker that runs and has a registry, or of a Stop that is under way.
AdmittedIsCaredFor ==
  ~overlapped => \A e \in Events : fate[e] = "admitted" =>
    /\ registry
    /\ \/ task = "running"
       \/ task = "stopping" /\ \E c \in Controllers : cpc[c] = "joining"

LEMMA FateStep ==
  ASSUME IInv, [Next]_vars, NEW e \in Events
  PROVE  /\ fate[e] \in Settled \cup {"refused"} => fate'[e] = fate[e]
         /\ fate[e] = "admitted" => fate'[e] \in Settled \cup {"admitted"}
<1>0. /\ fate \in [Events -> Fates] /\ hand \in Events \cup {NoEvent}
      /\ phase # "waiting" => hand \in Events /\ fate[hand] = "admitted"
      /\ \A d \in Dispatchers : dpc[d] = "referenced" =>
           offer[d] \in Events /\ fate[offer[d]] = "submitting"
      /\ \A f \in ToSet(queue) : f \in Events => fate[f] = "admitted"
  BY DEF IInv, TypeOK, Custody
<1>. USE DEF Settled
<1>1. ASSUME NEW d \in Dispatchers, NEW f \in Events, SubmitRefuse(d, f)
      PROVE  fate[f] = "fresh" /\ \A g \in Events \ {f} : fate'[g] = fate[g]
  BY <1>0, <1>1 DEF SubmitRefuse
<1>2. ASSUME NEW d \in Dispatchers, NEW f \in Events, SubmitReference(d, f)
      PROVE  fate[f] = "fresh" /\ \A g \in Events \ {f} : fate'[g] = fate[g]
  BY <1>0, <1>2 DEF SubmitReference
<1>3. ASSUME NEW d \in Dispatchers, SubmitHandOver(d)
      PROVE  /\ offer[d] \in Events /\ fate[offer[d]] = "submitting"
             /\ \A g \in Events \ {offer[d]} : fate'[g] = fate[g]
  BY <1>0, <1>3 DEF SubmitHandOver
<1>4. ASSUME NEW how \in {"discarded", "failed", "completed"}, WorkerDone(how),
             phase # "waiting"
      PROVE  /\ fate[hand] = "admitted" /\ fate'[hand] = how
             /\ \A g \in Events \ {hand} : fate'[g] = fate[g]
  BY <1>0, <1>4 DEF WorkerDone
<1>5. CASE Worker
  <2>1. CASE UNCHANGED fate
    BY <2>1
  <2>2. CASE \E how \in {"discarded", "failed", "completed"} :
               WorkerDone(how) /\ phase # "waiting"
    BY <1>4, <2>2
  <2>. QED
    BY <1>5, <2>1, <2>2 DEF Worker, WorkerTake, WorkerDiscard, WorkerCheck, WorkerThrow,
                            WorkerInvoke, WorkerAnswer, WorkerAnnounce
<1>6. ASSUME NEW c \in Controllers, Prepare(c)
      PROVE  UNCHANGED fate
  BY <1>6 DEF Prepare, PrepareBegin, PrepareInitialize, PrepareInitializeFails,
              PrepareStart, PrepareStartFails, PreparePublish, PrepareRegister
<1>7. ASSUME NEW c \in Controllers, ShutdownExecutor(c)
      PROVE  \/ UNCHANGED fate
             \/ fate' = [f \in Events |-> IF f \in ToSet(queue) THEN "reclaimed" ELSE fate[f]]
  BY <1>7 DEF ShutdownExecutor, ShutdownPrepared, ShutdownUnprepared,
              ShutdownUnregister, TaskStopBegin, TaskStopEnd, ShutdownForget
<1>8. CASE UNCHANGED vars
  BY <1>8 DEF vars
<1>9. CASE \E d \in Dispatchers : Submit(d)
  BY <1>1, <1>2, <1>3, <1>9 DEF Submit
<1>10. CASE \E c \in Controllers : Prepare(c) \/ ShutdownExecutor(c)
  BY <1>0, <1>6, <1>7, <1>10
<1>. QED
  BY <1>5, <1>8, <1>9, <1>10 DEF Next

\* An event that was submitted is settled at most once and, once admitted, only
\* by being processed or reclaimed, with any lifecycle calls at any time.
THEOREM EventsAreSettledOnce == Spec => FateIsFinal
<1>1. ASSUME IInv, [Next]_vars
      PROVE  \A e \in Events :
               /\ fate[e] \in Settled \cup {"refused"} => fate'[e] = fate[e]
               /\ fate[e] = "admitted" => fate'[e] \in Settled \cup {"admitted"}
  BY <1>1, FateStep
<1>. QED
  BY <1>1, InvariantHolds, PTL DEF Spec, FateIsFinal

\* No admitted event is stranded: until lifecycle calls overlap, there is a worker
\* that can take it and a registry to run it in, or a Stop that reclaims it.
THEOREM AdmittedIsNotStranded == Spec => []AdmittedIsCaredFor
<1>1. ASSUME IInv, ~overlapped, NEW e \in Events, fate[e] = "admitted"
      PROVE  /\ registry
             /\ \/ task = "running"
                \/ task = "stopping" /\ \E c \in Controllers : cpc[c] = "joining"
  <2>1. ~Quiet
    <3>1. e \in ToSet(queue) \/ e = hand
      BY <1>1 DEF IInv, Custody
    <3>2. CASE e \in ToSet(queue)
      BY <3>2, EmptySeq DEF Quiet, ToSet
    <3>3. CASE e = hand
      BY <1>1, <3>3, ExecutorAssumption DEF Quiet, IInv, Custody
    <3>. QED
      BY <3>1, <3>2, <3>3
  <2>2. task \in {"running", "stopping"}
    BY <1>1, <2>1 DEF IInv, Lifecycle, StageHolds
  <2>. QED
    BY <1>1, <2>2 DEF IInv, Lifecycle, StageHolds
<1>2. IInv => AdmittedIsCaredFor
  BY <1>1 DEF AdmittedIsCaredFor
<1>. QED
  BY <1>2, InvariantHolds, PTL

=============================================================================
