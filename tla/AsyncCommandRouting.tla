------------------------ MODULE AsyncCommandRouting -------------------------
(***************************************************************************)
(* A command that crosses a transport.  On the requesting side the pool    *)
(* (PendingRequestPool) and the timeouts (ResponseTimeoutRegistry); on the *)
(* executing side the queue and the worker of CommandEventExecutor, as far *)
(* as messages show them; between the two a network that loses, delays,    *)
(* reorders and repeats.                                                   *)
(*                                                                         *)
(* The transport adapters at both ends belong to the application.  They do *)
(* what the library asks of them: wait in the pool before anything is      *)
(* sent, acknowledge what the executor has queued, complete by correlation *)
(* identifier.  The network keeps a message until it loses it, and may     *)
(* deliver it any number of times.                                         *)
(***************************************************************************)
EXTENDS Naturals, SequencesExt

CONSTANTS
  Capacity, RequestIds, Destinations, NoDestination, Expirers, CountModulus,
  CallbackMayThrow, MaxTime, MaxRequests,    \* of PendingRequestPool
  Paths, Timeouts, InitialDefault,           \* of ResponseTimeoutRegistry
  Budget,      \* bound: changes to the timeouts and requests, together
  Results,     \* what Invoke returns
  QueueDepth   \* room in the queue of the executor

ASSUME RoutingAssumption ==
  /\ {Capacity, MaxTime, MaxRequests} \subseteq Nat    \* as PendingRequestPool has it
  /\ RequestIds \subseteq Nat
  /\ CountModulus \in Nat \ {0}
  /\ CallbackMayThrow \in BOOLEAN
  /\ {Budget, QueueDepth} \subseteq Nat
  /\ Timeouts \subseteq Nat /\ {0, InitialDefault} \subseteq Timeouts
  /\ "accepted" \notin Results

VARIABLES
  entries, expired, clock, reply, issued, outcome,  \* PendingRequestPool
  timeouts, transportDefault, configured, changes,  \* ResponseTimeoutRegistry
  sent,       \* the request envelopes, in the order of their tickets
  requests,   \* tickets of the request messages in the network
  inbox,      \* the requests the executor has queued
  responses,  \* the response messages in the network
  ran,        \* history: what executions of each request have returned
  credited    \* history: the responses Complete has credited to each request,
              \* with what had become of the request before

pool   == <<entries, expired, clock, reply, issued, outcome>>
times  == <<timeouts, transportDefault, configured, changes>>
device == <<inbox, ran>>
vars   == <<pool, times, device, sent, requests, responses, credited>>

Pool  == INSTANCE PendingRequestPool
Times == INSTANCE ResponseTimeoutRegistry

Tickets == 1 .. MaxRequests

Envelope ==
  [RequestId : RequestIds, ResponseExpectation : {"Acceptance", "Completion"}]

\* Request is a history field: the ticket of the request that is answered.
Response ==
  [RequestId : RequestIds \cup {0}, Result : Results \cup {"accepted"}, Request : Tickets]

Init ==
  /\ Pool!Init
  /\ Times!Init
  /\ changes = 0
  /\ sent = <<>>
  /\ requests = {}
  /\ inbox = <<>>
  /\ responses = {}
  /\ ran = [k \in Tickets |-> {}]
  /\ credited = [k \in Tickets |-> {}]

-----------------------------------------------------------------------------
(* The requesting side.                                                    *)

Configure ==
  /\ changes + issued < Budget
  /\ changes' = changes + 1
  /\ Times!Next
  /\ UNCHANGED <<pool, device, sent, requests, responses, credited>>

\* The discipline of identifiers: one is used again when nothing that carries
\* it is under way.  (With a counter of 64 bits none is used twice.)
IsQuiet(id) ==
  \A k \in DOMAIN sent : sent[k].RequestId = id =>
    /\ k \notin requests
    /\ k \notin ToSet(inbox)
    /\ \A r \in responses : r.Request # k

\* The request waits in the pool before the transport sends it.
Send(id, expectation, path, override, destination, mode) ==
  /\ changes + issued < Budget
  /\ IsQuiet(id)
  /\ clock + Times!Resolve(path, override) <= MaxTime
  /\ Pool!AddSuccess(id, destination, clock + Times!Resolve(path, override), mode)
  /\ sent' = Append(sent, [RequestId |-> id, ResponseExpectation |-> expectation])
  /\ requests' = requests \cup {issued'}
  /\ UNCHANGED <<times, device, responses, credited>>

\* The pool refuses, and nothing is sent.
SendRefused(id) ==
  /\ IsQuiet(id)
  /\ Pool!AddDuplicate(id) \/ Pool!AddExhausted(id)
  /\ UNCHANGED <<times, device, sent, requests, responses, credited>>

\* A response arrives.  Whether one of many is the last is the adapter's to say.
Receive(r, finalResponse) ==
  /\ Pool!CompleteSuccess(r.RequestId, finalResponse)
  /\ LET entry == entries[Min(Pool!SlotsHolding(r.RequestId))]
     IN  credited' = [credited EXCEPT ![entry.Ticket] =
                        @ \cup {[Answer |-> r, Before |-> outcome[entry.Ticket]]}]
  /\ UNCHANGED <<times, device, sent, requests, responses>>

ReceiveUnexpected(r) ==
  /\ Pool!CompleteNotFound(r.RequestId)
  /\ UNCHANGED <<times, device, sent, requests, responses, credited>>

Wait ==
  /\ Pool!Expire \/ Pool!Tick
  /\ UNCHANGED <<times, device, sent, requests, responses, credited>>

-----------------------------------------------------------------------------
(* The network.                                                            *)

Lose ==
  /\ \/ \E k \in requests : requests' = requests \ {k} /\ UNCHANGED responses
     \/ \E r \in responses : responses' = responses \ {r} /\ UNCHANGED requests
  /\ UNCHANGED <<pool, times, device, sent, credited>>

-----------------------------------------------------------------------------
(* The executing side.                                                     *)

\* Mutant: the envelope of the response keeps its default identifier.
Answer_NotCorrelated(k, result) == [RequestId |-> 0, Result |-> result, Request |-> k]

Answer(k, result) == [RequestId |-> sent[k].RequestId, Result |-> result, Request |-> k]

\* An inbound request is queued; who expects acceptance hears of it at once.
Accept(k) ==
  /\ Len(inbox) < QueueDepth
  /\ inbox' = Append(inbox, k)
  /\ responses' = IF sent[k].ResponseExpectation = "Acceptance"
                  THEN responses \cup {Answer(k, "accepted")} ELSE responses
  /\ UNCHANGED <<pool, times, sent, requests, ran, credited>>

IsAnswered(k) == sent[k].ResponseExpectation = "Completion"

\* ProcessWork: the registry is invoked, and the result takes the route the
\* request came by.
Process(result) ==
  /\ inbox # <<>>
  /\ LET k == Head(inbox)
     IN  /\ ran' = [ran EXCEPT ![k] = @ \cup {result}]
         /\ responses' = IF IsAnswered(k)
                         THEN responses \cup {Answer(k, result)} ELSE responses
  /\ inbox' = Tail(inbox)
  /\ UNCHANGED <<pool, times, sent, requests, credited>>

\* The result gets lost on the device: Invoke has thrown, or Route has found
\* the transport gone.
ProcessInVain ==
  /\ inbox # <<>>
  /\ inbox' = Tail(inbox)
  /\ \E result \in Results \cup {"thrown"} :
       ran' = [ran EXCEPT ![Head(inbox)] = @ \cup ({result} \cap Results)]
  /\ UNCHANGED <<pool, times, sent, requests, responses, credited>>

\* ShutdownExecutor: what is queued is released.
ReleaseWork ==
  /\ inbox # <<>>
  /\ inbox' = <<>>
  /\ UNCHANGED <<pool, times, sent, requests, ran, responses, credited>>

-----------------------------------------------------------------------------
Requester ==
  \/ Configure
  \/ \E id \in RequestIds :
       \/ SendRefused(id)
       \/ \E expectation \in {"Acceptance", "Completion"}, path \in Paths,
             override \in Timeouts, destination \in Destinations, mode \in Pool!Modes :
            Send(id, expectation, path, override, destination, mode)
  \/ \E r \in responses :
       \/ ReceiveUnexpected(r)
       \/ \E finalResponse \in BOOLEAN : Receive(r, finalResponse)
  \/ Wait

Executing ==
  \/ \E k \in requests : Accept(k)
  \/ \E result \in Results : Process(result)
  \/ ProcessInVain \/ ReleaseWork

Next == Requester \/ Lose \/ Executing

Spec == Init /\ [][Next]_vars

-----------------------------------------------------------------------------
\* Every variable holds a value of its type, and each request in the pool has
\* an envelope that bears its identifier.
TypeOK ==
  /\ Pool!TypeOK
  /\ changes \in 0 .. Budget
  /\ sent \in Seq(Envelope) /\ Len(sent) = issued
  /\ \A i \in Pool!ActiveSlots(entries) :
       entries[i].RequestId = sent[entries[i].Ticket].RequestId
  /\ requests \subseteq 1 .. issued
  /\ inbox \in Seq(1 .. issued) /\ Len(inbox) <= QueueDepth
  /\ responses \subseteq Response
  /\ ran \in [Tickets -> SUBSET Results]
  /\ \A k \in Tickets : \A c \in credited[k] :
       c.Answer \in Response /\ c.Before \in Pool!Outcomes

\* Whatever the network does with messages, and although identifiers are used
\* again, a request is credited with answers to itself only, of the kind it
\* asked for: acceptance when it was queued, or what an execution returned.
AnswersAreOwn ==
  \A k \in 1 .. issued : \A c \in credited[k] :
    /\ c.Answer.Request = k
    /\ c.Answer.Result \in IF sent[k].ResponseExpectation = "Completion"
                           THEN ran[k] ELSE {"accepted"}

\* A late or repeated answer has no effect: nothing is credited to a request
\* that was completed or has timed out, however its slot is used by then.
LateAnswersIgnored ==
  \A k \in Tickets : \A c \in credited[k] : c.Before = "pending"

\* A requester waits as long as it was told last: by the request, else by the
\* command's default, else by the transport's.
WaitsAsConfigured ==
  \A path \in Paths, override \in Timeouts :
    Times!Resolve(path, override) = Times!Configured(path, override)

=============================================================================
