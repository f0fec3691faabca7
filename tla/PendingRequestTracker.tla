------------------------ MODULE PendingRequestTracker -----------------------
(***************************************************************************)
(* What CommandPendingRequestPool promises its callers, without slots,     *)
(* scans or snapshots: a bounded set of requests, each under an identifier *)
(* of its own, from which a request leaves when its last response arrives  *)
(* or when its deadline has passed, and never both.                        *)
(***************************************************************************)
EXTENDS Naturals, FiniteSets

CONSTANTS
  Capacity, RequestIds, Destinations, CallbackMayThrow, MaxTime, MaxRequests

VARIABLES
  awaiting,  \* the requests that still wait for a response
  timedOut,  \* the requests taken as expired and not yet called back for
  clock,
  reply,     \* the status the last Add or Complete returned
  issued     \* the number of requests accepted so far

vars == <<awaiting, timedOut, clock, reply, issued>>

Times == 0 .. MaxTime

Init ==
  /\ awaiting = {}
  /\ timedOut = {}
  /\ clock = 0
  /\ reply = "Success"
  /\ issued = 0

Known(id) == \E r \in awaiting : r.id = id

\* Add, by its three answers.
Accept(id, destination, deadline, mode) ==
  /\ ~Known(id)
  /\ Cardinality(awaiting) < Capacity
  /\ issued < MaxRequests
  /\ issued' = issued + 1
  /\ awaiting' = awaiting \cup {[id          |-> id,
                                 destination |-> destination,
                                 deadline    |-> deadline,
                                 mode        |-> mode,
                                 ticket      |-> issued']}
  /\ reply' = "Success"
  /\ UNCHANGED <<timedOut, clock>>

Refuse(id) ==
  /\ \/ Known(id) /\ reply' = "DuplicateRequestId"
     \/ ~Known(id) /\ Cardinality(awaiting) = Capacity
                   /\ reply' = "CapacityExhausted"
  /\ UNCHANGED <<awaiting, timedOut, clock, issued>>

\* Complete: a Single request leaves with any response, a Multiple one with
\* the final one, and the identifier is free again.
Answer(id, finalResponse) ==
  /\ Known(id)
  /\ awaiting' = {r \in awaiting : r.id # id \/ ~(r.mode = "Single" \/ finalResponse)}
  /\ reply' = "Success"
  /\ UNCHANGED <<timedOut, clock, issued>>

AnswerUnknown(id) ==
  /\ ~Known(id)
  /\ reply' = "NotFound"
  /\ UNCHANGED <<awaiting, timedOut, clock, issued>>

\* Expire: every request due at "now" leaves at once.
TimeOut(now) ==
  LET due == {r \in awaiting : r.deadline <= now}
  IN  /\ due # {}
      /\ awaiting' = awaiting \ due
      /\ timedOut' = timedOut \cup due
      /\ UNCHANGED <<clock, reply, issued>>

Report(r) ==
  /\ timedOut' = timedOut \ {r}
  /\ UNCHANGED <<awaiting, clock, reply, issued>>

\* An expiry callback throws: some requests are forgotten with it.
Abandon ==
  /\ CallbackMayThrow
  /\ timedOut # {}
  /\ timedOut' \in SUBSET timedOut
  /\ timedOut' # timedOut
  /\ UNCHANGED <<awaiting, clock, reply, issued>>

Tick ==
  /\ clock < MaxTime
  /\ clock' = clock + 1
  /\ UNCHANGED <<awaiting, timedOut, reply, issued>>

Next ==
  \/ \E id \in RequestIds :
       \/ \E destination \in Destinations, deadline \in Times,
             mode \in {"Single", "Multiple"} :
            Accept(id, destination, deadline, mode)
       \/ Refuse(id)
       \/ \E finalResponse \in BOOLEAN : Answer(id, finalResponse)
       \/ AnswerUnknown(id)
  \/ \E now \in 0 .. clock : TimeOut(now)
  \/ \E r \in timedOut : Report(r)
  \/ Abandon
  \/ Tick

Spec == Init /\ [][Next]_vars

=============================================================================
