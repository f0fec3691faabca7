---------------------- MODULE AsyncCommandRoutingProofs ---------------------
(***************************************************************************)
(* The safety of AsyncCommandRouting for every network, capacity, queue    *)
(* and number of requests: what a requester is told of its request is told *)
(* by that request, and while it waits.                                    *)
(***************************************************************************)
EXTENDS AsyncCommandRouting, SequenceLemmas

ActiveEntries == Pool!ActiveSlots(entries)

Timeout == [Path : Paths, Milliseconds : Timeouts]

Credit == [Answer : Response, Before : Pool!Outcomes]

\* The timeouts hold one entry for each path that was given one, with what it
\* was given last.
TimesOK ==
  /\ timeouts \in Seq(Timeout)
  /\ transportDefault \in Timeouts
  /\ configured \in [Paths -> Timeouts]
  /\ \A m, n \in 1 .. Len(timeouts) : timeouts[m].Path = timeouts[n].Path => m = n
  /\ \A n \in 1 .. Len(timeouts) :
       configured[timeouts[n].Path] = timeouts[n].Milliseconds
  /\ \A path \in Paths :
       configured[path] # 0 => \E n \in 1 .. Len(timeouts) : timeouts[n].Path = path

\* The pool's part: each entry stands for a pending request of its own, and no
\* snapshot for a pending one.
Outstanding ==
  /\ \A i \in ActiveEntries :
       entries[i].Ticket \in 1 .. issued /\ outcome[entries[i].Ticket] = "pending"
  /\ \A i, j \in ActiveEntries : entries[i].Ticket = entries[j].Ticket => i = j
  /\ \A e \in Expirers : \A i \in Pool!ActiveSlots(expired[e]) :
       /\ expired[e][i].Ticket \in 1 .. issued
       /\ outcome[expired[e][i].Ticket] # "pending"

\* A request that some message or work item still carries.
UnderWay(k) ==
  \/ k \in requests
  \/ k \in ToSet(inbox)
  \/ \E r \in responses : r.Request = k

\* The discipline of identifiers, as it shows in the pool: while anything of a
\* request is under way, its identifier names this request or none.
NamesItself ==
  \A k \in 1 .. issued : UnderWay(k) =>
    \A i \in ActiveEntries :
      entries[i].RequestId = sent[k].RequestId => entries[i].Ticket = k

\* What a request may be told: what its executions returned, or acceptance.
Truths(k) ==
  IF sent[k].ResponseExpectation = "Completion" THEN ran[k] ELSE {"accepted"}

ResponsesAreTrue ==
  \A r \in responses :
    /\ r.Request \in 1 .. issued
    /\ r.RequestId = sent[r.Request].RequestId
    /\ r.Result \in Truths(r.Request)

\* What Complete has credited, to requests that were sent.
CreditsTyped ==
  /\ credited \in [Tickets -> SUBSET Credit]
  /\ \A k \in Tickets : k \notin 1 .. issued => credited[k] = {}

IInv ==
  /\ TypeOK
  /\ CreditsTyped
  /\ TimesOK
  /\ Outstanding
  /\ NamesItself
  /\ ResponsesAreTrue
  /\ AnswersAreOwn
  /\ LateAnswersIgnored

-----------------------------------------------------------------------------
(* The pool, as far as requests and their identifiers go.                   *)

LEMMA ConstantsTyped ==
  /\ Capacity \in Nat /\ MaxTime \in Nat /\ MaxRequests \in Nat
  /\ CountModulus \in Nat \ {0}
  /\ QueueDepth \in Nat /\ Budget \in Nat
BY RoutingAssumption

LEMMA FirstSlot ==
  ASSUME NEW S, S \subseteq Pool!Slots, S # {}
  PROVE  Pool!Min(S) \in S /\ Pool!Min(S) = Min(S)
<1>1. S \in SUBSET Nat
  BY ConstantsTyped DEF Pool!Slots
<1>2. Pool!Min(S) = Min(S)
  BY DEF Pool!Min, Min
<1>. QED
  BY <1>1, <1>2, MinOfNaturals

LEMMA ClearedTyped == Pool!Cleared \in Pool!Entry /\ ~Pool!Cleared.Active
BY ConstantsTyped DEF Pool!Cleared, Pool!Entry, Pool!Times, Pool!Modes

\* A call that adds nothing: entries stay, or leave, under their identifiers.
PoolShrinks ==
  /\ Pool!TypeOK' /\ Outstanding' /\ issued' = issued
  /\ ActiveEntries' \subseteq ActiveEntries
  /\ \A i \in ActiveEntries' :
       /\ entries'[i].RequestId = entries[i].RequestId
       /\ entries'[i].Ticket = entries[i].Ticket

LEMMA PoolAdds ==
  ASSUME Pool!TypeOK, Outstanding,
         NEW id \in RequestIds, NEW destination \in Destinations,
         NEW deadline \in Pool!Times, NEW mode \in Pool!Modes,
         Pool!AddSuccess(id, destination, deadline, mode)
  PROVE  /\ Pool!TypeOK' /\ Outstanding'
         /\ issued' = issued + 1 /\ issued' \in Tickets
         /\ \A i \in ActiveEntries : entries[i].RequestId # id
         /\ \A i \in ActiveEntries' :
              IF i \in ActiveEntries
              THEN /\ entries'[i].RequestId = entries[i].RequestId
                   /\ entries'[i].Ticket = entries[i].Ticket
              ELSE entries'[i].RequestId = id /\ entries'[i].Ticket = issued'
<1>. DEFINE slot == Pool!Min(Pool!FreeSlots(entries))
            new  == Pool!NewEntry(id, destination, deadline, mode, issued')
<1>1. /\ ~Pool!IsDuplicate(id) /\ Pool!FreeSlots(entries) # {}
      /\ issued < MaxRequests /\ issued' = issued + 1
      /\ entries' = [entries EXCEPT ![slot] = new]
      /\ outcome' = [outcome EXCEPT ![issued'] = "pending"]
      /\ reply' = "Success" /\ expired' = expired /\ clock' = clock
  BY DEF Pool!AddSuccess
<1>2. slot \in Pool!Slots /\ ~entries[slot].Active
  BY <1>1, FirstSlot DEF Pool!FreeSlots
<1>3. /\ issued \in Nat /\ issued' \in Pool!Tickets /\ issued' \in 1 .. issued'
      /\ issued' \notin 1 .. issued /\ 1 .. issued \subseteq 1 .. issued'
      /\ 1 .. issued' \subseteq Pool!Tickets
  BY <1>1, ConstantsTyped DEF Pool!TypeOK, Pool!Tickets
<1>4. new \in Pool!Entry /\ new.Active /\ new.RequestId = id /\ new.Ticket = issued'
  BY <1>3, ConstantsTyped DEF Pool!NewEntry, Pool!Entry
<1>. HIDE DEF slot, new
<1>5. Pool!TypeOK'
  <2>1. entries' \in [Pool!Slots -> Pool!Entry]
    BY <1>1, <1>2, <1>4 DEF Pool!TypeOK
  <2>2. outcome' \in [Pool!Tickets -> Pool!Outcomes]
    BY <1>1, <1>3 DEF Pool!TypeOK, Pool!Outcomes
  <2>3. issued' \in 0 .. MaxRequests /\ reply' \in Pool!Statuses
    BY <1>1, <1>3, ConstantsTyped DEF Pool!Statuses
  <2>. QED
    BY <1>1, <2>1, <2>2, <2>3 DEF Pool!TypeOK
<1>6. /\ ActiveEntries' = ActiveEntries \cup {slot} /\ slot \notin ActiveEntries
      /\ entries'[slot] = new
      /\ \A i \in ActiveEntries : entries'[i] = entries[i]
  BY <1>1, <1>2, <1>4 DEF Pool!TypeOK, ActiveEntries, Pool!ActiveSlots
<1>7. \A i \in ActiveEntries : entries[i].RequestId # id
  BY <1>1 DEF Pool!IsDuplicate, Pool!SlotsHolding, ActiveEntries
<1>8. \A k \in 1 .. issued : outcome'[k] = outcome[k]
  BY <1>1, <1>3 DEF Pool!TypeOK
<1>9. outcome'[issued'] = "pending"
  BY <1>1, <1>3 DEF Pool!TypeOK
<1>10. Outstanding'
  <2>1. \A e \in Expirers : Pool!ActiveSlots(expired'[e]) = Pool!ActiveSlots(expired[e])
    BY <1>1
  <2>2. (\A i \in ActiveEntries :
           entries[i].Ticket \in 1 .. issued /\ outcome[entries[i].Ticket] = "pending")'
    BY <1>3, <1>4, <1>6, <1>8, <1>9 DEF Outstanding
  <2>3. (\A i, j \in ActiveEntries : entries[i].Ticket = entries[j].Ticket => i = j)'
    BY <1>3, <1>4, <1>6 DEF Outstanding
  <2>4. (\A e \in Expirers : \A i \in Pool!ActiveSlots(expired[e]) :
           /\ expired[e][i].Ticket \in 1 .. issued
           /\ outcome[expired[e][i].Ticket] # "pending")'
    BY <1>1, <1>3, <1>8, <2>1 DEF Outstanding
  <2>. QED
    BY <2>2, <2>3, <2>4 DEF Outstanding
<1>. QED
  BY <1>1, <1>3, <1>4, <1>5, <1>6, <1>7, <1>10 DEF Tickets, Pool!Tickets

LEMMA PoolCompletes ==
  ASSUME Pool!TypeOK, Outstanding, NEW id, NEW finalResponse \in BOOLEAN,
         Pool!CompleteSuccess(id, finalResponse)
  PROVE  /\ PoolShrinks
         /\ Min(Pool!SlotsHolding(id)) \in ActiveEntries
         /\ entries[Min(Pool!SlotsHolding(id))].RequestId = id
<1>. DEFINE slot  == Pool!Min(Pool!SlotsHolding(id))
            entry == entries[slot]
            after == Pool!AfterResponse(entry, finalResponse)
<1>1. /\ Pool!SlotsHolding(id) # {}
      /\ entries' = [entries EXCEPT ![slot] = after]
      /\ outcome' = IF Pool!Releases(entry, finalResponse)
                    THEN [outcome EXCEPT ![entry.Ticket] = "completed"] ELSE outcome
      /\ reply' = "Success" /\ expired' = expired /\ clock' = clock /\ issued' = issued
  BY DEF Pool!CompleteSuccess
<1>2. slot \in Pool!SlotsHolding(id) /\ slot = Min(Pool!SlotsHolding(id))
  BY <1>1, FirstSlot DEF Pool!SlotsHolding, Pool!ActiveSlots
<1>3. /\ slot \in ActiveEntries /\ slot \in Pool!Slots
      /\ entry \in Pool!Entry /\ entry.Active /\ entry.RequestId = id
  BY <1>2 DEF Pool!SlotsHolding, Pool!ActiveSlots, Pool!TypeOK, ActiveEntries
<1>4. /\ after \in Pool!Entry
      /\ Pool!Releases(entry, finalResponse) => ~after.Active
      /\ ~Pool!Releases(entry, finalResponse) =>
           /\ after.Active
           /\ after.RequestId = entry.RequestId /\ after.Ticket = entry.Ticket
  <2>1. (entry.ResponseCount + 1) % CountModulus \in 0 .. CountModulus - 1
    <3>1. entry.ResponseCount \in Nat
      BY <1>3, ConstantsTyped DEF Pool!Entry
    <3>. QED
      BY <3>1, ConstantsTyped
  <2>2. /\ Pool!CountResponse(entry) \in Pool!Entry
        /\ Pool!CountResponse(entry).Active = entry.Active
        /\ Pool!CountResponse(entry).RequestId = entry.RequestId
        /\ Pool!CountResponse(entry).Ticket = entry.Ticket
    BY <1>3, <2>1 DEF Pool!CountResponse, Pool!Entry
  <2>. QED
    BY <1>3, <2>2, ClearedTyped DEF Pool!AfterResponse
<1>5. entry.Ticket \in 1 .. issued /\ entry.Ticket \in Pool!Tickets
  <2>1. issued \in 0 .. MaxRequests
    BY DEF Pool!TypeOK
  <2>2. entry.Ticket \in 1 .. issued
    BY <1>3 DEF Outstanding
  <2>. QED
    BY <2>1, <2>2, ConstantsTyped DEF Pool!Tickets
<1>6. entry = entries[slot]
  OBVIOUS
<1>. HIDE DEF slot, entry, after
<1>7. Pool!TypeOK'
  <2>1. entries' \in [Pool!Slots -> Pool!Entry]
    BY <1>1, <1>3, <1>4 DEF Pool!TypeOK
  <2>2. outcome' \in [Pool!Tickets -> Pool!Outcomes]
    BY <1>1, <1>5 DEF Pool!TypeOK, Pool!Outcomes
  <2>. QED
    BY <1>1, <2>1, <2>2 DEF Pool!TypeOK, Pool!Statuses
<1>8. /\ ActiveEntries' = IF after.Active THEN ActiveEntries ELSE ActiveEntries \ {slot}
      /\ entries'[slot] = after
      /\ \A i \in ActiveEntries : i # slot => entries'[i] = entries[i]
  BY <1>1, <1>3, <1>4 DEF Pool!TypeOK, ActiveEntries, Pool!ActiveSlots
<1>9. \A i \in ActiveEntries' :
        /\ i \in ActiveEntries
        /\ entries'[i].RequestId = entries[i].RequestId
        /\ entries'[i].Ticket = entries[i].Ticket
  BY <1>3, <1>4, <1>6, <1>8
<1>10. \A k \in Pool!Tickets :
         outcome'[k] = IF Pool!Releases(entry, finalResponse) /\ k = entry.Ticket
                       THEN "completed" ELSE outcome[k]
  BY <1>1 DEF Pool!TypeOK
<1>11. 1 .. issued \subseteq Pool!Tickets
  BY ConstantsTyped DEF Pool!TypeOK, Pool!Tickets
<1>12. Outstanding'
  <2>1. \A e \in Expirers : Pool!ActiveSlots(expired'[e]) = Pool!ActiveSlots(expired[e])
    BY <1>1
  <2>2. (\A i, j \in ActiveEntries : entries[i].Ticket = entries[j].Ticket => i = j)'
    BY <1>9 DEF Outstanding
  <2>3. (\A i \in ActiveEntries :
           entries[i].Ticket \in 1 .. issued /\ outcome[entries[i].Ticket] = "pending")'
    <3>. SUFFICES ASSUME NEW i \in ActiveEntries'
                  PROVE  /\ entries[i].Ticket \in 1 .. issued
                         /\ outcome'[entries[i].Ticket] = "pending"
      BY <1>1, <1>9
    <3>1. /\ entries[i].Ticket \in 1 .. issued /\ entries[i].Ticket \in Pool!Tickets
          /\ outcome[entries[i].Ticket] = "pending"
      BY <1>9, <1>11 DEF Outstanding
    <3>2. Pool!Releases(entry, finalResponse) => i # slot
      BY <1>4, <1>8
    <3>3. i # slot => entries[i].Ticket # entry.Ticket
      BY <1>3, <1>6, <1>9 DEF Outstanding
    <3>. QED
      BY <1>10, <3>1, <3>2, <3>3
  <2>4. (\A e \in Expirers : \A i \in Pool!ActiveSlots(expired[e]) :
           /\ expired[e][i].Ticket \in 1 .. issued
           /\ outcome[expired[e][i].Ticket] # "pending")'
    BY <1>1, <1>10, <1>11, <2>1 DEF Outstanding
  <2>. QED
    BY <2>2, <2>3, <2>4 DEF Outstanding
<1>13. PoolShrinks
  BY <1>1, <1>7, <1>9, <1>12 DEF PoolShrinks
<1>. QED
  BY <1>2, <1>3, <1>6, <1>13

\* A change of clock and reply only.
LEMMA PoolRests ==
  ASSUME Pool!TypeOK, Outstanding, UNCHANGED <<entries, expired, issued, outcome>>,
         clock' \in Pool!Times, reply' \in Pool!Statuses
  PROVE  PoolShrinks
<1>1. ActiveEntries' = ActiveEntries
  BY DEF ActiveEntries, Pool!ActiveSlots
<1>2. Outstanding'
  BY <1>1 DEF Outstanding, Pool!ActiveSlots
<1>3. Pool!TypeOK'
  BY DEF Pool!TypeOK
<1>. QED
  BY <1>1, <1>2, <1>3 DEF PoolShrinks

LEMMA PoolCollects ==
  ASSUME Pool!TypeOK, Outstanding, NEW e \in Expirers, NEW now \in 0 .. clock,
         Pool!ExpireCollect(e, now)
  PROVE  PoolShrinks
<1>. DEFINE due  == Pool!DueSlots(now)
            snap == Pool!Snapshot(now)
<1>1. /\ entries' = [i \in Pool!Slots |-> IF i \in due THEN Pool!Cleared ELSE entries[i]]
      /\ expired' = [expired EXCEPT ![e] = snap]
      /\ outcome' = [k \in Pool!Tickets |-> IF k \in Pool!TicketsIn(snap) THEN "expired"
                                                                       ELSE outcome[k]]
      /\ UNCHANGED <<clock, reply, issued>>
  BY DEF Pool!ExpireCollect, Pool!AfterCollect
<1>2. due \subseteq ActiveEntries
  BY DEF Pool!DueSlots, Pool!IsDue, ActiveEntries, Pool!ActiveSlots
<1>3. /\ snap \in [Pool!Slots -> Pool!Entry]
      /\ Pool!ActiveSlots(snap) = due
      /\ \A i \in due : snap[i] = entries[i]
  BY <1>2, ClearedTyped
     DEF Pool!Snapshot, Pool!ActiveSlots, Pool!TypeOK, ActiveEntries
<1>. HIDE DEF due, snap
<1>4. /\ ActiveEntries' = ActiveEntries \ due
      /\ \A i \in ActiveEntries \ due : entries'[i] = entries[i]
  BY <1>1, <1>2, ClearedTyped DEF ActiveEntries, Pool!ActiveSlots
<1>5. Pool!TicketsIn(snap) = {entries[i].Ticket : i \in due}
  BY <1>3 DEF Pool!TicketsIn
<1>6. Pool!TypeOK'
  <2>1. entries' \in [Pool!Slots -> Pool!Entry]
    BY <1>1, ClearedTyped DEF Pool!TypeOK
  <2>2. expired' \in [Expirers -> [Pool!Slots -> Pool!Entry]]
    BY <1>1, <1>3 DEF Pool!TypeOK
  <2>3. outcome' \in [Pool!Tickets -> Pool!Outcomes]
    BY <1>1 DEF Pool!TypeOK, Pool!Outcomes
  <2>. QED
    BY <1>1, <2>1, <2>2, <2>3 DEF Pool!TypeOK
<1>7. 1 .. issued \subseteq Pool!Tickets
  BY ConstantsTyped DEF Pool!TypeOK, Pool!Tickets
<1>8. Outstanding'
  <2>1. (\A i, j \in ActiveEntries : entries[i].Ticket = entries[j].Ticket => i = j)'
    BY <1>4 DEF Outstanding
  <2>2. (\A i \in ActiveEntries :
           entries[i].Ticket \in 1 .. issued /\ outcome[entries[i].Ticket] = "pending")'
    <3>. SUFFICES ASSUME NEW i \in ActiveEntries \ due
                  PROVE  /\ entries[i].Ticket \in 1 .. issued
                         /\ outcome'[entries[i].Ticket] = "pending"
      BY <1>1, <1>4
    <3>1. /\ entries[i].Ticket \in 1 .. issued /\ entries[i].Ticket \in Pool!Tickets
          /\ outcome[entries[i].Ticket] = "pending"
      BY <1>7 DEF Outstanding
    <3>2. entries[i].Ticket \notin Pool!TicketsIn(snap)
      BY <1>2, <1>5 DEF Outstanding
    <3>. QED
      BY <1>1, <3>1, <3>2
  <2>3. (\A f \in Expirers : \A i \in Pool!ActiveSlots(expired[f]) :
           /\ expired[f][i].Ticket \in 1 .. issued
           /\ outcome[expired[f][i].Ticket] # "pending")'
    <3>. SUFFICES ASSUME NEW f \in Expirers, NEW i \in Pool!ActiveSlots(expired'[f])
                  PROVE  /\ expired'[f][i].Ticket \in 1 .. issued
                         /\ outcome'[expired'[f][i].Ticket] # "pending"
      BY <1>1
    <3>1. expired'[f] = IF f = e THEN snap ELSE expired[f]
      BY <1>1 DEF Pool!TypeOK
    <3>2. CASE f = e
      <4>1. i \in due /\ expired'[f][i] = entries[i]
        BY <1>3, <3>1, <3>2
      <4>2. entries[i].Ticket \in 1 .. issued /\ entries[i].Ticket \in Pool!TicketsIn(snap)
        BY <1>2, <1>5, <4>1 DEF Outstanding
      <4>. QED
        BY <1>1, <1>7, <4>1, <4>2
    <3>3. CASE f # e
      BY <1>1, <1>7, <3>1, <3>3 DEF Outstanding
    <3>. QED
      BY <3>2, <3>3
  <2>. QED
    BY <2>1, <2>2, <2>3 DEF Outstanding
<1>. QED
  BY <1>1, <1>4, <1>6, <1>8 DEF PoolShrinks

\* What callbacks do to the snapshots does not concern what is pending.
LEMMA SnapshotsShrink ==
  ASSUME Pool!TypeOK, Outstanding, NEW e \in Expirers,
         NEW rest \in [Pool!Slots -> Pool!Entry],
         Pool!ActiveSlots(rest) \subseteq Pool!ActiveSlots(expired[e]),
         \A i \in Pool!ActiveSlots(rest) : rest[i] = expired[e][i],
         expired' = [expired EXCEPT ![e] = rest],
         outcome' \in [Pool!Tickets -> Pool!Outcomes],
         \A k \in Pool!Tickets :
           \/ outcome'[k] = outcome[k]
           \/ outcome[k] # "pending" /\ outcome'[k] # "pending",
         UNCHANGED <<entries, clock, reply, issued>>
  PROVE  PoolShrinks
<1>1. Pool!TypeOK'
  BY DEF Pool!TypeOK
<1>2. ActiveEntries' = ActiveEntries
  BY DEF ActiveEntries, Pool!ActiveSlots
<1>3. 1 .. issued \subseteq Pool!Tickets
  BY ConstantsTyped DEF Pool!TypeOK, Pool!Tickets
<1>4. \A f \in Expirers : expired'[f] = IF f = e THEN rest ELSE expired[f]
  BY DEF Pool!TypeOK
<1>5. Outstanding'
  <2>1. (\A i \in ActiveEntries :
           entries[i].Ticket \in 1 .. issued /\ outcome[entries[i].Ticket] = "pending")'
    BY <1>2, <1>3 DEF Outstanding
  <2>2. (\A f \in Expirers : \A i \in Pool!ActiveSlots(expired[f]) :
           /\ expired[f][i].Ticket \in 1 .. issued
           /\ outcome[expired[f][i].Ticket] # "pending")'
    <3>. SUFFICES ASSUME NEW f \in Expirers, NEW i \in Pool!ActiveSlots(expired'[f])
                  PROVE  /\ expired'[f][i].Ticket \in 1 .. issued
                         /\ outcome'[expired'[f][i].Ticket] # "pending"
      OBVIOUS
    <3>1. i \in Pool!ActiveSlots(expired[f]) /\ expired'[f][i] = expired[f][i]
      BY <1>4
    <3>. QED
      BY <1>3, <3>1 DEF Outstanding
  <2>. QED
    BY <1>2, <2>1, <2>2 DEF Outstanding
<1>. QED
  BY <1>1, <1>2, <1>5 DEF PoolShrinks

LEMMA PoolReports ==
  ASSUME Pool!TypeOK, Outstanding, NEW e \in Expirers,
         Pool!ExpireReport(e) \/ Pool!ExpireThrow(e)
  PROVE  PoolShrinks
<1>. DEFINE slot   == Pool!Min(Pool!ActiveSlots(expired[e]))
            ticket == expired[e][slot].Ticket
<1>1. slot \in Pool!ActiveSlots(expired[e])
  BY FirstSlot DEF Pool!ExpireReport, Pool!ExpireThrow, Pool!Idle, Pool!ActiveSlots
<1>2. /\ expired[e] \in [Pool!Slots -> Pool!Entry]
      /\ outcome \in [Pool!Tickets -> Pool!Outcomes]
  BY DEF Pool!TypeOK
<1>3. \A k \in Pool!TicketsIn(expired[e]) : outcome[k] # "pending"
  BY DEF Pool!TicketsIn, Outstanding
<1>4. ticket \in Pool!TicketsIn(expired[e])
  BY <1>1 DEF Pool!TicketsIn
<1>5. CASE Pool!ExpireReport(e)
  <2>. DEFINE rest == [expired[e] EXCEPT ![slot] = Pool!Cleared]
  <2>1. /\ outcome' = [outcome EXCEPT ![ticket] = "reported"]
        /\ expired' = [expired EXCEPT ![e] = rest]
        /\ UNCHANGED <<entries, clock, reply, issued>>
    BY <1>5 DEF Pool!ExpireReport
  <2>. HIDE DEF slot
  <2>2. rest \in [Pool!Slots -> Pool!Entry]
    BY <1>2, ClearedTyped
  <2>3. /\ Pool!ActiveSlots(rest) \subseteq Pool!ActiveSlots(expired[e])
        /\ \A i \in Pool!ActiveSlots(rest) : rest[i] = expired[e][i]
    BY <1>2, ClearedTyped DEF Pool!ActiveSlots
  <2>. HIDE DEF rest, ticket
  <2>4. /\ outcome' \in [Pool!Tickets -> Pool!Outcomes]
        /\ \A k \in Pool!Tickets :
             \/ outcome'[k] = outcome[k]
             \/ outcome[k] # "pending" /\ outcome'[k] # "pending"
    BY <1>2, <1>3, <1>4, <2>1 DEF Pool!Outcomes
  <2>. QED
    BY <2>1, <2>2, <2>3, <2>4, SnapshotsShrink
<1>6. CASE Pool!ExpireThrow(e)
  <2>1. /\ outcome' = [k \in Pool!Tickets |->
                         CASE k = ticket -> "reported"
                           [] k \in Pool!TicketsIn(expired[e]) \ {ticket} -> "dropped"
                           [] OTHER -> outcome[k]]
        /\ expired' = [expired EXCEPT ![e] = Pool!EmptyTable]
        /\ UNCHANGED <<entries, clock, reply, issued>>
    BY <1>6 DEF Pool!ExpireThrow
  <2>2. /\ Pool!EmptyTable \in [Pool!Slots -> Pool!Entry]
        /\ Pool!ActiveSlots(Pool!EmptyTable) = {}
    BY ClearedTyped DEF Pool!EmptyTable, Pool!ActiveSlots
  <2>. HIDE DEF ticket
  <2>3. /\ outcome' \in [Pool!Tickets -> Pool!Outcomes]
        /\ \A k \in Pool!Tickets :
             \/ outcome'[k] = outcome[k]
             \/ outcome[k] # "pending" /\ outcome'[k] # "pending"
    BY <1>2, <1>3, <1>4, <2>1 DEF Pool!Outcomes
  <2>. QED
    BY <2>1, <2>2, <2>3, SnapshotsShrink
<1>. QED
  BY <1>5, <1>6

LEMMA PoolWaits ==
  ASSUME Pool!TypeOK, Outstanding, Pool!Expire \/ Pool!Tick
  PROVE  PoolShrinks
<1>1. CASE Pool!Tick
  <2>1. clock' \in Pool!Times /\ UNCHANGED <<entries, expired, reply, issued, outcome>>
    BY <1>1, ConstantsTyped DEF Pool!Tick, Pool!TypeOK, Pool!Times
  <2>. QED
    BY <2>1, PoolRests DEF Pool!TypeOK
<1>2. CASE Pool!Expire
  BY <1>2, PoolCollects, PoolReports DEF Pool!Expire
<1>. QED
  BY <1>1, <1>2

-----------------------------------------------------------------------------
(* The timeouts.                                                            *)

LEMMA PositionsAreDomain ==
  ASSUME NEW S, NEW s \in Seq(S)
  PROVE  /\ Len(s) \in Nat
         /\ \A n : n \in DOMAIN s <=> n \in 1 .. Len(s)
         /\ \A n \in 1 .. Len(s) : s[n] \in S
BY LenProperties, ElementOfSeq

LEMMA TimesInit == Times!Init => TimesOK
<1>. SUFFICES ASSUME Times!Init PROVE TimesOK
  OBVIOUS
<1>1. timeouts = <<>> /\ configured = [path \in Paths |-> 0] /\ transportDefault = InitialDefault
  BY DEF Times!Init
<1>2. Len(timeouts) = 0 /\ timeouts \in Seq(Timeout)
  BY <1>1
<1>. QED
  BY <1>1, <1>2, RoutingAssumption DEF TimesOK

LEMMA TimesStep == TimesOK /\ Times!Next => TimesOK'
<1>. SUFFICES ASSUME TimesOK, Times!Next PROVE TimesOK'
  OBVIOUS
<1>1. CASE \E milliseconds \in Timeouts : Times!SetTransportDefault(milliseconds)
  BY <1>1 DEF Times!SetTransportDefault, TimesOK
<1>2. ASSUME NEW path \in Paths, NEW milliseconds \in Timeouts,
             Times!SetCommandDefault(path, milliseconds)
      PROVE  TimesOK'
  <2>. DEFINE given == [Path |-> path, Milliseconds |-> milliseconds]
  <2>1. /\ timeouts' = Times!WithDefault(path, milliseconds)
        /\ configured' = [configured EXCEPT ![path] = milliseconds]
        /\ transportDefault' = transportDefault
    BY <1>2 DEF Times!SetCommandDefault
  <2>2. /\ timeouts \in Seq(Timeout) /\ configured \in [Paths -> Timeouts]
        /\ transportDefault \in Timeouts
        /\ \A m, n \in 1 .. Len(timeouts) : timeouts[m].Path = timeouts[n].Path => m = n
        /\ \A n \in 1 .. Len(timeouts) :
             configured[timeouts[n].Path] = timeouts[n].Milliseconds
        /\ \A p \in Paths :
             configured[p] # 0 => \E n \in 1 .. Len(timeouts) : timeouts[n].Path = p
    BY DEF TimesOK
  <2>3. /\ Len(timeouts) \in Nat
        /\ \A n : n \in DOMAIN timeouts <=> n \in 1 .. Len(timeouts)
        /\ \A n \in 1 .. Len(timeouts) : timeouts[n] \in Timeout
    BY <2>2, PositionsAreDomain
  <2>4. /\ configured' \in [Paths -> Timeouts]
        /\ \A p \in Paths :
             configured'[p] = IF p = path THEN milliseconds ELSE configured[p]
    BY <2>1, <2>2
  <2>5. given \in Timeout /\ given.Path = path /\ given.Milliseconds = milliseconds
    BY DEF Timeout
  <2>6. CASE \E n \in 1 .. Len(timeouts) : timeouts[n].Path = path
    <3>1. timeouts' = [n \in 1 .. Len(timeouts) |->
                         IF timeouts[n].Path = path
                         THEN [timeouts[n] EXCEPT !.Milliseconds = milliseconds]
                         ELSE timeouts[n]]
      <4>1. timeouts' = [n \in DOMAIN timeouts |->
                           IF timeouts[n].Path = path
                           THEN [timeouts[n] EXCEPT !.Milliseconds = milliseconds]
                           ELSE timeouts[n]]
        BY <2>1, <2>3, <2>6 DEF Times!WithDefault
      <4>2. DOMAIN timeouts = 1 .. Len(timeouts)
        BY <2>2, LenProperties
      <4>. QED
        BY <4>1, <4>2
    <3>2. \A n \in 1 .. Len(timeouts) :
            /\ timeouts'[n] \in Timeout
            /\ timeouts'[n].Path = timeouts[n].Path
            /\ timeouts'[n].Milliseconds = IF timeouts[n].Path = path THEN milliseconds
                                           ELSE timeouts[n].Milliseconds
      BY <2>3, <3>1 DEF Timeout
    <3>3. timeouts' \in Seq(Timeout) /\ Len(timeouts') = Len(timeouts)
      <4>1. timeouts' \in [1 .. Len(timeouts) -> Timeout]
        BY <3>1, <3>2
      <4>2. timeouts' \in Seq(Timeout)
        BY <2>3, <4>1, SeqDef
      <4>. QED
        BY <2>3, <4>1, <4>2, LenProperties
    <3>. QED
      BY <2>1, <2>2, <2>3, <2>4, <2>6, <3>2, <3>3 DEF TimesOK, Timeout
  <2>7. CASE ~ \E n \in 1 .. Len(timeouts) : timeouts[n].Path = path
    <3>1. timeouts' = Append(timeouts, given)
      BY <2>1, <2>3, <2>7 DEF Times!WithDefault
    <3>. HIDE DEF given
    <3>2. /\ timeouts' \in Seq(Timeout) /\ Len(timeouts') = Len(timeouts) + 1
          /\ \A n \in 1 .. Len(timeouts) : timeouts'[n] = timeouts[n]
          /\ timeouts'[Len(timeouts) + 1] = given
      BY <2>2, <2>5, <3>1, AppendProperties
    <3>3. \A n \in 1 .. Len(timeouts') :
            \/ n \in 1 .. Len(timeouts)
            \/ n = Len(timeouts) + 1
      BY <2>3, <3>2
    <3>4. 1 .. Len(timeouts) \subseteq 1 .. Len(timeouts')
          /\ Len(timeouts) + 1 \in 1 .. Len(timeouts')
      BY <2>3, <3>2
    <3>5. \A n \in 1 .. Len(timeouts) : timeouts[n].Path \in Paths
      BY <2>3 DEF Timeout
    <3>6. \A m, n \in 1 .. Len(timeouts') :
            timeouts'[m].Path = timeouts'[n].Path => m = n
      BY <2>2, <2>5, <2>7, <3>2, <3>3
    <3>7. \A n \in 1 .. Len(timeouts') :
            configured'[timeouts'[n].Path] = timeouts'[n].Milliseconds
      <4>. SUFFICES ASSUME NEW n \in 1 .. Len(timeouts')
                    PROVE  configured'[timeouts'[n].Path] = timeouts'[n].Milliseconds
        OBVIOUS
      <4>1. CASE n \in 1 .. Len(timeouts)
        BY <2>2, <2>4, <2>7, <3>2, <3>5, <4>1
      <4>2. CASE n = Len(timeouts) + 1
        BY <2>4, <2>5, <3>2, <4>2
      <4>. QED
        BY <3>3, <4>1, <4>2
    <3>8. \A p \in Paths : configured'[p] # 0 =>
            \E n \in 1 .. Len(timeouts') : timeouts'[n].Path = p
      <4>. SUFFICES ASSUME NEW p \in Paths, configured'[p] # 0
                    PROVE  \E n \in 1 .. Len(timeouts') : timeouts'[n].Path = p
        OBVIOUS
      <4>1. CASE p = path
        BY <2>5, <3>2, <3>4, <4>1
      <4>2. CASE p # path
        BY <2>2, <2>4, <3>2, <3>4, <4>2
      <4>. QED
        BY <4>1, <4>2
    <3>. QED
      BY <2>1, <2>2, <2>4, <3>2, <3>6, <3>7, <3>8 DEF TimesOK
  <2>. QED
    BY <2>6, <2>7
<1>. QED
  BY <1>1, <1>2 DEF Times!Next

\* With one entry for each path the first that is not 0 is the last that was
\* given.
LEMMA ResolvesAsConfigured ==
  ASSUME TimesOK, NEW path \in Paths, NEW override \in Timeouts
  PROVE  /\ Times!Resolve(path, override) = Times!Configured(path, override)
         /\ Times!Resolve(path, override) \in Timeouts
<1>1. /\ timeouts \in Seq(Timeout) /\ transportDefault \in Timeouts
      /\ configured \in [Paths -> Timeouts]
  BY DEF TimesOK
<1>2. /\ Len(timeouts) \in Nat
      /\ \A n : n \in DOMAIN timeouts <=> n \in 1 .. Len(timeouts)
  BY <1>1, PositionsAreDomain
<1>. DEFINE found == Times!Found(path)
<1>3. \A n : n \in found <=> /\ n \in 1 .. Len(timeouts)
                             /\ timeouts[n].Path = path /\ timeouts[n].Milliseconds # 0
  BY <1>2 DEF Times!Found
<1>4. \A n \in found : timeouts[n].Milliseconds = configured[path]
  BY <1>3 DEF TimesOK
<1>5. found = {} <=> configured[path] = 0
  BY <1>3 DEF TimesOK
<1>6. found # {} => Times!Min(found) \in found
  <2>1. found \in SUBSET Nat
    BY <1>2, <1>3
  <2>2. Times!Min(found) = Min(found)
    BY DEF Times!Min, Min
  <2>. QED
    BY <2>1, <2>2, MinOfNaturals
<1>. HIDE DEF found
<1>7. /\ found # {} => timeouts[Times!Min(found)].Milliseconds = configured[path]
      /\ configured[path] \in Timeouts
  BY <1>1, <1>4, <1>6
<1>8. Times!Resolve(path, override) =
        IF override # 0 THEN override
        ELSE IF found # {} THEN timeouts[Times!Min(found)].Milliseconds
        ELSE transportDefault
  BY DEF Times!Resolve, found
<1>9. Times!Configured(path, override) =
        IF override # 0 THEN override
        ELSE IF configured[path] # 0 THEN configured[path] ELSE transportDefault
  BY DEF Times!Configured
<1>. QED
  BY <1>1, <1>5, <1>7, <1>8, <1>9

-----------------------------------------------------------------------------
(* The steps of the two sides and of the network.                           *)

LEMMA InitInvariant == Init => IInv
<1>. SUFFICES ASSUME Init PROVE IInv
  OBVIOUS
<1>1. /\ Pool!Init /\ Times!Init /\ changes = 0 /\ sent = <<>> /\ requests = {}
      /\ inbox = <<>> /\ responses = {}
      /\ ran = [k \in Tickets |-> {}] /\ credited = [k \in Tickets |-> {}]
  BY DEF Init
<1>2. Pool!ActiveSlots(Pool!EmptyTable) = {}
  BY DEF Pool!ActiveSlots, Pool!EmptyTable, Pool!Cleared
<1>3. /\ Pool!TypeOK /\ issued = 0 /\ entries = Pool!EmptyTable
      /\ \A e \in Expirers : expired[e] = Pool!EmptyTable
  BY <1>1, ClearedTyped, ConstantsTyped
     DEF Pool!Init, Pool!TypeOK, Pool!EmptyTable, Pool!Statuses, Pool!Outcomes, Pool!Times
<1>4. Outstanding /\ ActiveEntries = {}
  BY <1>2, <1>3 DEF Outstanding, ActiveEntries
<1>5. TypeOK
  <2>1. sent \in Seq(Envelope) /\ Len(sent) = issued
    BY <1>1, <1>3
  <2>2. inbox \in Seq(1 .. issued) /\ Len(inbox) <= QueueDepth
    BY <1>1, ConstantsTyped
  <2>. QED
    BY <1>1, <1>3, <1>4, <2>1, <2>2, ConstantsTyped DEF TypeOK, ActiveEntries
<1>6. ~ \E k : k \in 1 .. issued
  BY <1>3
<1>. QED
  BY <1>1, <1>4, <1>5, <1>6, TimesInit
     DEF IInv, CreditsTyped, NamesItself, ResponsesAreTrue, AnswersAreOwn,
         LateAnswersIgnored

\* A step that changes nothing but the timeouts.
LEMMA ConfigureStep ==
  ASSUME IInv, Configure
  PROVE  IInv'
<1>1. /\ changes + issued < Budget /\ changes' = changes + 1 /\ Times!Next
      /\ UNCHANGED <<pool, device, sent, requests, responses, credited>>
  BY DEF Configure
<1>2. TimesOK'
  BY <1>1, TimesStep DEF IInv
<1>3. changes' \in 0 .. Budget
  BY <1>1, ConstantsTyped DEF IInv, TypeOK, Pool!TypeOK
<1>4. Pool!TypeOK' /\ Outstanding' /\ ActiveEntries' = ActiveEntries
  BY <1>1 DEF pool, IInv, TypeOK, Pool!TypeOK, Outstanding, ActiveEntries, Pool!ActiveSlots
<1>5. TypeOK'
  BY <1>1, <1>3, <1>4 DEF pool, device, IInv, TypeOK, ActiveEntries, Pool!ActiveSlots
<1>6. NamesItself' /\ ResponsesAreTrue' /\ AnswersAreOwn' /\ LateAnswersIgnored'
  BY <1>1, <1>4
     DEF pool, device, IInv, NamesItself, UnderWay, ResponsesAreTrue, Truths, AnswersAreOwn,
         LateAnswersIgnored
<1>7. CreditsTyped'
  BY <1>1 DEF pool, IInv, CreditsTyped
<1>. QED
  BY <1>2, <1>4, <1>5, <1>6, <1>7 DEF IInv

\* A call of the pool that adds nothing to it, and may credit a true answer to
\* a pending request.
LEMMA ShrinkStep ==
  ASSUME IInv, PoolShrinks, UNCHANGED <<times, device, sent, requests, responses>>,
         credited' \in [Tickets -> SUBSET Credit],
         \A k \in Tickets : \A c \in credited'[k] :
           \/ c \in credited[k]
           \/ /\ k \in 1 .. issued
              /\ c.Answer.Request = k /\ c.Answer.Result \in Truths(k)
              /\ c.Before = "pending"
  PROVE  IInv'
<1>1. /\ Pool!TypeOK' /\ Outstanding' /\ issued' = issued
      /\ ActiveEntries' \subseteq ActiveEntries
      /\ \A i \in ActiveEntries' :
           /\ entries'[i].RequestId = entries[i].RequestId
           /\ entries'[i].Ticket = entries[i].Ticket
  BY DEF PoolShrinks
<1>2. \A k \in Tickets : \A c \in credited'[k] :
        c.Answer \in Response /\ c.Before \in Pool!Outcomes
  BY DEF Credit
<1>3. TypeOK'
  <2>1. \A i \in ActiveEntries' : entries'[i].RequestId = sent[entries'[i].Ticket].RequestId
    BY <1>1 DEF IInv, TypeOK, ActiveEntries
  <2>. QED
    BY <1>1, <1>2, <2>1 DEF times, device, IInv, TypeOK, ActiveEntries
<1>4. CreditsTyped'
  BY <1>1 DEF IInv, CreditsTyped
<1>5. TimesOK'
  BY DEF times, IInv, TimesOK
<1>6. NamesItself' /\ ResponsesAreTrue'
  BY <1>1 DEF times, device, IInv, NamesItself, UnderWay, ResponsesAreTrue, Truths
<1>7. 1 .. issued \subseteq Tickets
  BY ConstantsTyped DEF IInv, TypeOK, Pool!TypeOK, Tickets
<1>8. AnswersAreOwn' /\ LateAnswersIgnored'
  BY <1>1, <1>7 DEF times, device, IInv, AnswersAreOwn, LateAnswersIgnored, Truths
<1>. QED
  BY <1>1, <1>3, <1>4, <1>5, <1>6, <1>8 DEF IInv

\* A step that changes none of the pool: the network and the executing side.
LEMMA OtherSideStep ==
  ASSUME IInv, UNCHANGED <<pool, times, sent, credited>>,
         requests' \subseteq requests,
         inbox' \in Seq(1 .. issued), Len(inbox') <= QueueDepth,
         \A k \in ToSet(inbox') : UnderWay(k),
         \A r \in responses' :
           \/ r \in responses
           \/ /\ r \in Response /\ UnderWay(r.Request) /\ r.Request \in 1 .. issued
              /\ r.RequestId = sent[r.Request].RequestId /\ r.Result \in Truths(r.Request)',
         ran' \in [Tickets -> SUBSET Results],
         \A k \in Tickets : ran[k] \subseteq ran'[k]
  PROVE  IInv'
<1>1. /\ Pool!TypeOK' /\ Outstanding' /\ ActiveEntries' = ActiveEntries
      /\ issued' = issued /\ entries' = entries
  BY DEF pool, IInv, TypeOK, Pool!TypeOK, Outstanding, ActiveEntries, Pool!ActiveSlots
<1>2. 1 .. issued \subseteq Tickets
  BY ConstantsTyped DEF IInv, TypeOK, Pool!TypeOK, Tickets
<1>3. \A k \in 1 .. issued : Truths(k) \subseteq Truths(k)'
  BY <1>2 DEF Truths
<1>4. TypeOK'
  BY <1>1 DEF times, IInv, TypeOK, ActiveEntries
<1>5. CreditsTyped'
  BY <1>1 DEF IInv, CreditsTyped
<1>6. TimesOK'
  BY DEF times, IInv, TimesOK
<1>7. \A k : UnderWay(k)' => UnderWay(k)
  BY DEF UnderWay
<1>8. NamesItself'
  BY <1>1, <1>7 DEF IInv, NamesItself
<1>9. ResponsesAreTrue'
  BY <1>1, <1>3 DEF IInv, ResponsesAreTrue
<1>10. AnswersAreOwn' /\ LateAnswersIgnored'
  <2>1. \A k \in 1 .. issued : \A c \in credited[k] :
          c.Answer.Request = k /\ c.Answer.Result \in Truths(k)
    BY DEF IInv, AnswersAreOwn, Truths
  <2>2. \A k \in 1 .. issued : \A c \in credited[k] :
          c.Answer.Request = k /\ c.Answer.Result \in Truths(k)'
    BY <1>3, <2>1
  <2>. QED
    BY <1>1, <2>2 DEF IInv, AnswersAreOwn, LateAnswersIgnored, Truths
<1>. QED
  BY <1>1, <1>4, <1>5, <1>6, <1>8, <1>9, <1>10 DEF IInv

\* A request that is sent is the only one of its identifier that anything is
\* under way of.
LEMMA SendStep ==
  ASSUME IInv, NEW id \in RequestIds, NEW expectation \in {"Acceptance", "Completion"},
         NEW path \in Paths, NEW override \in Timeouts, NEW destination \in Destinations,
         NEW mode \in Pool!Modes,
         Send(id, expectation, path, override, destination, mode)
  PROVE  IInv'
<1>. DEFINE deadline == clock + Times!Resolve(path, override)
            envelope == [RequestId |-> id, ResponseExpectation |-> expectation]
<1>1. /\ IsQuiet(id) /\ deadline <= MaxTime
      /\ Pool!AddSuccess(id, destination, deadline, mode)
      /\ sent' = Append(sent, envelope)
      /\ requests' = requests \cup {issued'}
      /\ changes + issued < Budget
      /\ UNCHANGED <<times, device, responses, credited>>
  BY DEF Send
<1>2. Pool!TypeOK /\ Outstanding /\ TimesOK /\ issued \in Nat /\ clock \in Nat
  BY ConstantsTyped DEF IInv, TypeOK, Pool!TypeOK, Pool!Times
<1>3. deadline \in Pool!Times
  <2>1. Times!Resolve(path, override) \in Nat
    BY <1>2, ResolvesAsConfigured, RoutingAssumption
  <2>. QED
    BY <1>1, <1>2, <2>1, ConstantsTyped DEF Pool!Times
<1>. HIDE DEF deadline
<1>4. /\ Pool!TypeOK' /\ Outstanding'
      /\ issued' = issued + 1 /\ issued' \in Tickets
      /\ \A i \in ActiveEntries : entries[i].RequestId # id
      /\ \A i \in ActiveEntries' :
           IF i \in ActiveEntries
           THEN /\ entries'[i].RequestId = entries[i].RequestId
                /\ entries'[i].Ticket = entries[i].Ticket
           ELSE entries'[i].RequestId = id /\ entries'[i].Ticket = issued'
  BY <1>1, <1>2, <1>3, PoolAdds
<1>5. /\ envelope \in Envelope /\ envelope.RequestId = id
  BY DEF Envelope
<1>. HIDE DEF envelope
<1>6. /\ sent' \in Seq(Envelope) /\ Len(sent') = issued'
      /\ \A k \in 1 .. issued : sent'[k] = sent[k]
      /\ sent'[issued'] = envelope
  <2>1. sent \in Seq(Envelope) /\ Len(sent) = issued
    BY DEF IInv, TypeOK
  <2>2. sent' = Append(sent, envelope) /\ issued' = issued + 1
    BY <1>1, <1>4
  <2>. QED
    BY <1>5, <2>1, <2>2, AppendProperties
<1>7. /\ 1 .. issued \subseteq 1 .. issued' /\ issued' \in 1 .. issued'
      /\ \A k \in 1 .. issued' : k \in 1 .. issued \/ k = issued'
      /\ issued' \notin 1 .. issued
  BY <1>2, <1>4
<1>8. /\ inbox' = inbox /\ ran' = ran /\ responses' = responses /\ credited' = credited
      /\ changes' = changes /\ TimesOK'
  BY <1>1 DEF times, device, IInv, TimesOK
<1>9. \A i \in ActiveEntries : entries[i].Ticket \in 1 .. issued
  BY <1>2 DEF Outstanding
<1>10. TypeOK'
  <2>1. \A i \in ActiveEntries' : entries'[i].RequestId = sent'[entries'[i].Ticket].RequestId
    <3>. SUFFICES ASSUME NEW i \in ActiveEntries'
                  PROVE  entries'[i].RequestId = sent'[entries'[i].Ticket].RequestId
      OBVIOUS
    <3>1. CASE i \in ActiveEntries
      BY <1>4, <1>6, <1>9, <3>1 DEF IInv, TypeOK, ActiveEntries
    <3>2. CASE i \notin ActiveEntries
      BY <1>4, <1>5, <1>6, <3>2
    <3>. QED
      BY <3>1, <3>2
  <2>2. requests' \subseteq 1 .. issued'
    BY <1>1, <1>7 DEF IInv, TypeOK
  <2>3. inbox' \in Seq(1 .. issued') /\ Len(inbox') <= QueueDepth
    <3>1. inbox \in Seq(1 .. issued) /\ Len(inbox) <= QueueDepth
      BY DEF IInv, TypeOK
    <3>2. /\ Len(inbox) \in Nat /\ inbox \in [1 .. Len(inbox) -> 1 .. issued]
      BY <3>1, LenProperties
    <3>3. inbox \in [1 .. Len(inbox) -> 1 .. issued']
      BY <1>7, <3>2
    <3>4. inbox \in Seq(1 .. issued')
      BY <3>2, <3>3, SeqDef
    <3>. QED
      BY <1>8, <3>1, <3>4
  <2>. QED
    BY <1>4, <1>6, <1>8, <2>1, <2>2, <2>3 DEF IInv, TypeOK, ActiveEntries
<1>11. CreditsTyped'
  BY <1>7, <1>8 DEF IInv, CreditsTyped
<1>12. NamesItself'
  <2>. SUFFICES ASSUME NEW k \in 1 .. issued', UnderWay(k)',
                       NEW i \in ActiveEntries',
                       entries'[i].RequestId = sent'[k].RequestId
                PROVE  entries'[i].Ticket = k
    BY DEF NamesItself
  <2>1. CASE k = issued'
    BY <1>4, <1>5, <1>6, <2>1
  <2>2. CASE k # issued'
    <3>1. k \in 1 .. issued /\ UnderWay(k) /\ sent'[k] = sent[k]
      BY <1>1, <1>6, <1>7, <1>8, <2>2 DEF UnderWay
    <3>2. sent[k].RequestId # id
      <4>1. k \in DOMAIN sent
        BY <3>1, LenProperties DEF IInv, TypeOK
      <4>. QED
        BY <1>1, <3>1, <4>1 DEF IsQuiet, UnderWay
    <3>3. i \in ActiveEntries /\ entries'[i].RequestId = entries[i].RequestId
          /\ entries'[i].Ticket = entries[i].Ticket
      BY <1>4, <3>1, <3>2
    <3>. QED
      BY <3>1, <3>3 DEF IInv, NamesItself
  <2>. QED
    BY <2>1, <2>2
<1>13. \A k \in 1 .. issued : Truths(k)' = Truths(k)
  BY <1>6, <1>8 DEF Truths
<1>14. ResponsesAreTrue'
  BY <1>6, <1>7, <1>8, <1>13 DEF IInv, ResponsesAreTrue
<1>15. AnswersAreOwn'
  <2>1. \A k \in 1 .. issued : \A c \in credited[k] :
          c.Answer.Request = k /\ c.Answer.Result \in Truths(k)'
    <3>1. \A k \in 1 .. issued : \A c \in credited[k] :
            c.Answer.Request = k /\ c.Answer.Result \in Truths(k)
      BY DEF IInv, AnswersAreOwn, Truths
    <3>. QED
      BY <1>13, <3>1
  <2>2. credited[issued'] = {}
    BY <1>4, <1>7 DEF IInv, CreditsTyped
  <2>. QED
    BY <1>7, <1>8, <2>1, <2>2 DEF AnswersAreOwn, Truths
<1>16. LateAnswersIgnored'
  BY <1>8 DEF IInv, LateAnswersIgnored
<1>. QED
  BY <1>4, <1>8, <1>10, <1>11, <1>12, <1>14, <1>15, <1>16 DEF IInv

\* Pool calls that credit nothing.
LEMMA IdleStep ==
  ASSUME IInv, PoolShrinks,
         UNCHANGED <<times, device, sent, requests, responses, credited>>
  PROVE  IInv'
BY ShrinkStep DEF IInv, CreditsTyped

LEMMA SendRefusedStep ==
  ASSUME IInv, NEW id \in RequestIds, SendRefused(id)
  PROVE  IInv'
<1>1. /\ UNCHANGED <<entries, expired, clock, issued, outcome>>
      /\ reply' \in Pool!Statuses
  BY DEF SendRefused, Pool!AddDuplicate, Pool!AddExhausted, Pool!Statuses
<1>2. PoolShrinks
  BY <1>1, PoolRests DEF IInv, TypeOK, Pool!TypeOK
<1>. QED
  BY <1>2, IdleStep DEF SendRefused

LEMMA ReceiveUnexpectedStep ==
  ASSUME IInv, NEW r \in responses, ReceiveUnexpected(r)
  PROVE  IInv'
<1>1. /\ UNCHANGED <<entries, expired, clock, issued, outcome>>
      /\ reply' \in Pool!Statuses
  BY DEF ReceiveUnexpected, Pool!CompleteNotFound, Pool!Statuses
<1>2. PoolShrinks
  BY <1>1, PoolRests DEF IInv, TypeOK, Pool!TypeOK
<1>. QED
  BY <1>2, IdleStep DEF ReceiveUnexpected

LEMMA WaitStep ==
  ASSUME IInv, Wait
  PROVE  IInv'
<1>1. PoolShrinks
  BY PoolWaits DEF IInv, TypeOK, Wait
<1>. QED
  BY <1>1, IdleStep DEF Wait

\* The entry that takes a response is the one of the request it answers.
LEMMA ReceiveStep ==
  ASSUME IInv, NEW r \in responses, NEW finalResponse \in BOOLEAN,
         Receive(r, finalResponse)
  PROVE  IInv'
<1>. DEFINE slot   == Min(Pool!SlotsHolding(r.RequestId))
            ticket == entries[slot].Ticket
            credit == [Answer |-> r, Before |-> outcome[ticket]]
<1>1. /\ Pool!CompleteSuccess(r.RequestId, finalResponse)
      /\ credited' = [credited EXCEPT ![ticket] = @ \cup {credit}]
      /\ UNCHANGED <<times, device, sent, requests, responses>>
  BY DEF Receive
<1>2. /\ PoolShrinks /\ slot \in ActiveEntries
      /\ entries[slot].RequestId = r.RequestId
  BY <1>1, PoolCompletes DEF IInv, TypeOK
<1>. HIDE DEF slot
<1>3. /\ r.Request \in 1 .. issued /\ r.RequestId = sent[r.Request].RequestId
      /\ r.Result \in Truths(r.Request) /\ r \in Response
  BY DEF IInv, TypeOK, ResponsesAreTrue
<1>4. ticket = r.Request
  BY <1>2, <1>3 DEF IInv, NamesItself, UnderWay
<1>5. outcome[ticket] = "pending"
  BY <1>2 DEF IInv, Outstanding
<1>. HIDE DEF ticket
<1>6. /\ credit \in Credit /\ credit.Answer = r /\ credit.Before = "pending"
  BY <1>3, <1>5 DEF Credit, Pool!Outcomes
<1>. HIDE DEF credit
<1>7. credited \in [Tickets -> SUBSET Credit]
  BY DEF IInv, CreditsTyped
<1>8. /\ credited' \in [Tickets -> SUBSET Credit]
      /\ \A k \in Tickets :
           credited'[k] = IF k = ticket THEN credited[k] \cup {credit} ELSE credited[k]
  BY <1>1, <1>6, <1>7
<1>9. \A k \in Tickets : \A c \in credited'[k] :
        \/ c \in credited[k]
        \/ /\ k \in 1 .. issued
           /\ c.Answer.Request = k /\ c.Answer.Result \in Truths(k)
           /\ c.Before = "pending"
  BY <1>3, <1>4, <1>6, <1>8
<1>. QED
  BY <1>1, <1>2, <1>8, <1>9, ShrinkStep

LEMMA LoseStep ==
  ASSUME IInv, Lose
  PROVE  IInv'
<1>1. /\ requests' \subseteq requests /\ responses' \subseteq responses
      /\ inbox' = inbox /\ ran' = ran
      /\ UNCHANGED <<pool, times, sent, credited>>
  BY DEF Lose, device
<1>2. /\ inbox' \in Seq(1 .. issued) /\ Len(inbox') <= QueueDepth
      /\ ran' \in [Tickets -> SUBSET Results]
  BY <1>1 DEF IInv, TypeOK
<1>. QED
  BY <1>1, <1>2, OtherSideStep DEF UnderWay

LEMMA AcceptStep ==
  ASSUME IInv, NEW k \in requests, Accept(k)
  PROVE  IInv'
<1>1. /\ Len(inbox) < QueueDepth /\ inbox' = Append(inbox, k)
      /\ responses' = IF sent[k].ResponseExpectation = "Acceptance"
                      THEN responses \cup {Answer(k, "accepted")} ELSE responses
      /\ UNCHANGED <<pool, times, sent, requests, ran, credited>>
  BY DEF Accept
<1>2. /\ k \in 1 .. issued /\ inbox \in Seq(1 .. issued) /\ issued \in 0 .. MaxRequests
      /\ sent \in Seq(Envelope) /\ Len(sent) = issued
  BY DEF IInv, TypeOK, Pool!TypeOK
<1>3. /\ inbox' \in Seq(1 .. issued) /\ Len(inbox') = Len(inbox) + 1
      /\ ToSet(inbox') = ToSet(inbox) \cup {k} /\ Len(inbox) \in Nat
  BY <1>1, <1>2, AppendProperties, AppendToSet, LenProperties
<1>4. Len(inbox') <= QueueDepth
  BY <1>1, <1>3, ConstantsTyped
<1>5. sent[k] \in Envelope /\ k \in Tickets
  BY <1>2, ElementOfSeq, ConstantsTyped DEF Tickets
<1>6. /\ Answer(k, "accepted") \in Response
      /\ Answer(k, "accepted").Request = k
      /\ Answer(k, "accepted").RequestId = sent[k].RequestId
      /\ Answer(k, "accepted").Result = "accepted"
  BY <1>5 DEF Answer, Response, Envelope
<1>7. sent[k].ResponseExpectation = "Acceptance" => "accepted" \in Truths(k)'
  BY <1>1 DEF Truths
<1>8. ran' \in [Tickets -> SUBSET Results]
  BY <1>1 DEF IInv, TypeOK
<1>. QED
  BY <1>1, <1>2, <1>3, <1>4, <1>6, <1>7, <1>8, OtherSideStep DEF UnderWay

\* What leaves the queue was in it.
LEMMA Dequeued ==
  ASSUME IInv, inbox # <<>>, inbox' = Tail(inbox) \/ inbox' = <<>>
  PROVE  /\ Head(inbox) \in 1 .. issued /\ Head(inbox) \in Tickets
         /\ UnderWay(Head(inbox))
         /\ inbox' \in Seq(1 .. issued) /\ Len(inbox') <= QueueDepth
         /\ \A k \in ToSet(inbox') : UnderWay(k)
<1>1. inbox \in Seq(1 .. issued) /\ Len(inbox) <= QueueDepth /\ issued \in 0 .. MaxRequests
  BY DEF IInv, TypeOK, Pool!TypeOK
<1>2. /\ Head(inbox) \in 1 .. issued /\ Len(inbox) \in Nat /\ Len(inbox) >= 1
      /\ Tail(inbox) \in Seq(1 .. issued) /\ Len(Tail(inbox)) = Len(inbox) - 1
      /\ ToSet(inbox) = {Head(inbox)} \cup ToSet(Tail(inbox))
  BY <1>1, HeadTailProperties, HeadTailToSet
<1>3. <<>> \in Seq(1 .. issued) /\ Len(<<>>) = 0 /\ ToSet(<<>>) = {}
  BY DEF ToSet
<1>4. inbox' \in Seq(1 .. issued) /\ Len(inbox') <= QueueDepth
  <2>1. CASE inbox' = Tail(inbox)
    BY <1>1, <1>2, <2>1, ConstantsTyped
  <2>2. CASE inbox' = <<>>
    BY <1>3, <2>2, ConstantsTyped
  <2>. QED
    BY <2>1, <2>2
<1>5. ToSet(inbox') \subseteq ToSet(inbox)
  BY <1>2, <1>3
<1>6. Head(inbox) \in Tickets
  BY <1>1, <1>2, ConstantsTyped DEF Tickets
<1>. QED
  BY <1>2, <1>4, <1>5, <1>6 DEF UnderWay

LEMMA ProcessStep ==
  ASSUME IInv, NEW result \in Results, Process(result)
  PROVE  IInv'
<1>0. PICK k : k = Head(inbox)
  OBVIOUS
<1>1. /\ inbox # <<>> /\ inbox' = Tail(inbox)
      /\ ran' = [ran EXCEPT ![k] = @ \cup {result}]
      /\ responses' = IF IsAnswered(k) THEN responses \cup {Answer(k, result)} ELSE responses
      /\ UNCHANGED <<pool, times, sent, requests, credited>>
  BY <1>0 DEF Process
<1>2. /\ k \in 1 .. issued /\ k \in Tickets /\ UnderWay(k)
      /\ inbox' \in Seq(1 .. issued) /\ Len(inbox') <= QueueDepth
      /\ \A j \in ToSet(inbox') : UnderWay(j)
  BY <1>0, <1>1, Dequeued
<1>3. ran \in [Tickets -> SUBSET Results]
  BY DEF IInv, TypeOK
<1>4. /\ ran' \in [Tickets -> SUBSET Results]
      /\ \A j \in Tickets : ran[j] \subseteq ran'[j]
      /\ result \in ran'[k]
  BY <1>1, <1>2, <1>3
<1>5. sent[k] \in Envelope
  BY <1>2, ElementOfSeq DEF IInv, TypeOK
<1>6. /\ Answer(k, result) \in Response /\ Answer(k, result).Request = k
      /\ Answer(k, result).RequestId = sent[k].RequestId
      /\ Answer(k, result).Result = result
  BY <1>2, <1>5 DEF Answer, Response, Envelope
<1>7. IsAnswered(k) => result \in Truths(k)'
  BY <1>1, <1>4 DEF IsAnswered, Truths
<1>. QED
  BY <1>1, <1>2, <1>4, <1>6, <1>7, OtherSideStep

LEMMA ProcessInVainStep ==
  ASSUME IInv, ProcessInVain
  PROVE  IInv'
<1>1. /\ inbox # <<>> /\ inbox' = Tail(inbox)
      /\ UNCHANGED <<pool, times, sent, requests, responses, credited>>
  BY DEF ProcessInVain
<1>2. PICK result : ran' = [ran EXCEPT ![Head(inbox)] = @ \cup ({result} \cap Results)]
  BY DEF ProcessInVain
<1>3. ran \in [Tickets -> SUBSET Results]
  BY DEF IInv, TypeOK
<1>4. /\ ran' \in [Tickets -> SUBSET Results]
      /\ \A j \in Tickets : ran[j] \subseteq ran'[j]
  BY <1>1, <1>2, <1>3, Dequeued
<1>. QED
  BY <1>1, <1>4, Dequeued, OtherSideStep

LEMMA ReleaseWorkStep ==
  ASSUME IInv, ReleaseWork
  PROVE  IInv'
<1>1. /\ inbox # <<>> /\ inbox' = <<>>
      /\ UNCHANGED <<pool, times, sent, requests, ran, responses, credited>>
  BY DEF ReleaseWork
<1>2. ran' \in [Tickets -> SUBSET Results]
  BY <1>1 DEF IInv, TypeOK
<1>. QED
  BY <1>1, <1>2, Dequeued, OtherSideStep

LEMMA StutterStep ==
  ASSUME IInv, UNCHANGED vars
  PROVE  IInv'
<1>1. UNCHANGED <<entries, expired, clock, reply, issued, outcome>>
  BY DEF vars, pool
<1>2. PoolShrinks
  BY <1>1, PoolRests DEF IInv, TypeOK, Pool!TypeOK
<1>. QED
  BY <1>2, IdleStep DEF vars

LEMMA NextInvariant == IInv /\ [Next]_vars => IInv'
<1>. SUFFICES ASSUME IInv, [Next]_vars PROVE IInv'
  OBVIOUS
<1>1. CASE Requester
  BY <1>1, ConfigureStep, SendRefusedStep, SendStep, ReceiveUnexpectedStep, ReceiveStep,
     WaitStep DEF Requester
<1>2. CASE Executing
  BY <1>2, AcceptStep, ProcessStep, ProcessInVainStep, ReleaseWorkStep DEF Executing
<1>. QED
  BY <1>1, <1>2, LoseStep, StutterStep DEF Next

-----------------------------------------------------------------------------
(* The theorems.                                                            *)

\* Whatever the network does with messages, and however both sides' calls
\* interleave, every state satisfies the invariant.
THEOREM InvariantHolds == Spec => []IInv
BY InitInvariant, NextInvariant, PTL DEF Spec

\* Both sides and the network keep their types together, and what waits in the
\* pool has an envelope of its identifier.
THEOREM TypeCorrect == Spec => []TypeOK
<1>. IInv => TypeOK
  BY DEF IInv
<1>. QED
  BY InvariantHolds, PTL

\* However messages are lost, delayed, repeated and overtaken, a request is
\* credited with its own answers only.
THEOREM AnswersReachTheirRequest == Spec => []AnswersAreOwn
<1>. IInv => AnswersAreOwn
  BY DEF IInv
<1>. QED
  BY InvariantHolds, PTL

\* Nothing is credited to a request that was completed or has timed out.
THEOREM LateAnswersHaveNoEffect == Spec => []LateAnswersIgnored
<1>. IInv => LateAnswersIgnored
  BY DEF IInv
<1>. QED
  BY InvariantHolds, PTL

\* After any history of settings, Resolve has the precedence that is documented.
THEOREM TimeoutsAreAsGiven == Spec => []WaitsAsConfigured
<1>. IInv => WaitsAsConfigured
  BY ResolvesAsConfigured DEF IInv, WaitsAsConfigured
<1>. QED
  BY InvariantHolds, PTL

-----------------------------------------------------------------------------
(* The parts in the whole.  What is proved of the pool and of the timeouts  *)
(* alone holds of those of a requester.                                     *)

LEMMA PoolStep ==
  ASSUME IInv, [Next]_vars
  PROVE  [Pool!Next]_(Pool!vars)
<1>1. ASSUME NEW id \in RequestIds, NEW expectation \in {"Acceptance", "Completion"},
             NEW path \in Paths, NEW override \in Timeouts, NEW destination \in Destinations,
             NEW mode \in Pool!Modes,
             Send(id, expectation, path, override, destination, mode)
      PROVE  Pool!Next
  <2>. DEFINE deadline == clock + Times!Resolve(path, override)
  <2>1. deadline <= MaxTime /\ Pool!AddSuccess(id, destination, deadline, mode)
    BY <1>1 DEF Send
  <2>2. deadline \in Pool!Times
    <3>1. clock \in Nat /\ TimesOK
      BY ConstantsTyped DEF IInv, TypeOK, Pool!TypeOK, Pool!Times
    <3>2. Times!Resolve(path, override) \in Nat
      BY <3>1, ResolvesAsConfigured, RoutingAssumption
    <3>. QED
      BY <2>1, <3>1, <3>2, ConstantsTyped DEF Pool!Times
  <2>. HIDE DEF deadline
  <2>. QED
    BY <2>1, <2>2 DEF Pool!Next, Pool!Add
<1>2. ASSUME NEW id \in RequestIds, SendRefused(id)
      PROVE  Pool!Next
  BY <1>2 DEF SendRefused, Pool!Next, Pool!Add
<1>3. ASSUME NEW r \in responses
      PROVE  r.RequestId \in RequestIds
  <2>1. r.Request \in 1 .. issued /\ r.RequestId = sent[r.Request].RequestId
    BY DEF IInv, ResponsesAreTrue
  <2>2. sent \in Seq(Envelope) /\ Len(sent) = issued
    BY DEF IInv, TypeOK
  <2>3. sent[r.Request] \in Envelope
    BY <2>1, <2>2, ElementOfSeq
  <2>. QED
    BY <2>1, <2>3 DEF Envelope
<1>4. ASSUME NEW r \in responses, ReceiveUnexpected(r)
      PROVE  Pool!Next
  BY <1>3, <1>4 DEF ReceiveUnexpected, Pool!Next, Pool!Complete
<1>5. ASSUME NEW r \in responses, NEW finalResponse \in BOOLEAN, Receive(r, finalResponse)
      PROVE  Pool!Next
  BY <1>3, <1>5 DEF Receive, Pool!Next, Pool!Complete
<1>6. CASE Wait
  BY <1>6 DEF Wait, Pool!Next
<1>7. CASE UNCHANGED pool
  BY <1>7 DEF pool, Pool!vars
<1>8. CASE Requester
  <2>1. CASE Configure
    BY <1>7, <2>1 DEF Configure
  <2>. QED
    BY <1>1, <1>2, <1>4, <1>5, <1>6, <1>8, <2>1 DEF Requester
<1>9. Lose \/ Executing \/ UNCHANGED vars => UNCHANGED pool
  BY DEF Lose, Executing, Accept, Process, ProcessInVain, ReleaseWork, vars
<1>. QED
  BY <1>7, <1>8, <1>9 DEF Next

LEMMA TimesSteps ==
  ASSUME [Next]_vars
  PROVE  [Times!Next]_(Times!vars)
<1>1. CASE Configure
  BY <1>1 DEF Configure
<1>2. CASE UNCHANGED times
  BY <1>2 DEF times, Times!vars
<1>3. CASE Requester
  BY <1>1, <1>2, <1>3
     DEF Requester, Send, SendRefused, Receive, ReceiveUnexpected, Wait
<1>4. Lose \/ Executing \/ UNCHANGED vars => UNCHANGED times
  BY DEF Lose, Executing, Accept, Process, ProcessInVain, ReleaseWork, vars
<1>. QED
  BY <1>2, <1>3, <1>4 DEF Next

\* A requester uses its pool and its timeouts as any program may: behind every
\* call is an operation of the module, with arguments of its types, so that what
\* holds of PendingRequestPool and ResponseTimeoutRegistry alone holds here.
THEOREM PartsRunAsAlone == Spec => Pool!Spec /\ Times!Spec
<1>1. Init => Pool!Init /\ Times!Init
  BY DEF Init
<1>2. IInv /\ [Next]_vars => [Pool!Next]_(Pool!vars)
  BY PoolStep
<1>3. [Next]_vars => [Times!Next]_(Times!vars)
  BY TimesSteps
<1>. QED
  BY <1>1, <1>2, <1>3, InvariantHolds, PTL DEF Spec, Pool!Spec, Times!Spec

\* The pool once more, with its theorems: PendingRequestPoolProofs extends the
\* module that Pool is an instance of.
Proved == INSTANCE PendingRequestPoolProofs

LEMMA SameTables ==
  /\ \A S : Pool!Min(S) = Proved!Min(S)
  /\ \A t : Pool!ActiveSlots(t) = Proved!ActiveSlots(t)
  /\ \A t : Pool!FreeSlots(t) = Proved!FreeSlots(t)
  /\ \A t : Pool!TicketsIn(t) = Proved!TicketsIn(t)
  /\ \A id : Pool!SlotsHolding(id) = Proved!SlotsHolding(id)
  /\ \A now : Pool!DueSlots(now) = Proved!DueSlots(now)
  /\ Pool!Cleared = Proved!Cleared /\ Pool!EmptyTable = Proved!EmptyTable
BY DEF Pool!Min, Proved!Min, Pool!ActiveSlots, Proved!ActiveSlots, Pool!FreeSlots,
       Proved!FreeSlots, Pool!TicketsIn, Proved!TicketsIn, Pool!SlotsHolding,
       Proved!SlotsHolding, Pool!DueSlots, Proved!DueSlots, Pool!IsDue, Proved!IsDue,
       Pool!Cleared, Proved!Cleared, Pool!EmptyTable, Proved!EmptyTable, Pool!Slots,
       Proved!Slots

LEMMA SameInit == Pool!Init <=> Proved!Init
BY SameTables DEF Pool!Init, Proved!Init, Pool!Tickets, Proved!Tickets

LEMMA SameAdd == Pool!Add <=> Proved!Add
<1>1. ASSUME NEW id
      PROVE  /\ Pool!AddDuplicate(id) <=> Proved!AddDuplicate(id)
             /\ Pool!AddExhausted(id) <=> Proved!AddExhausted(id)
  BY SameTables
     DEF Pool!AddDuplicate, Proved!AddDuplicate, Pool!AddExhausted, Proved!AddExhausted,
         Pool!IsDuplicate, Proved!IsDuplicate
<1>2. ASSUME NEW id, NEW destination, NEW deadline, NEW mode
      PROVE  Pool!AddSuccess(id, destination, deadline, mode)
               <=> Proved!AddSuccess(id, destination, deadline, mode)
  BY SameTables
     DEF Pool!AddSuccess, Proved!AddSuccess, Pool!IsDuplicate, Proved!IsDuplicate,
         Pool!NewEntry, Proved!NewEntry
<1>. QED
  BY <1>1, <1>2
     DEF Pool!Add, Proved!Add, Pool!Times, Proved!Times, Pool!Modes, Proved!Modes

LEMMA SameComplete == Pool!Complete <=> Proved!Complete
<1>1. ASSUME NEW id
      PROVE  Pool!CompleteNotFound(id) <=> Proved!CompleteNotFound(id)
  BY SameTables DEF Pool!CompleteNotFound, Proved!CompleteNotFound
<1>2. ASSUME NEW entry, NEW finalResponse
      PROVE  /\ Pool!Releases(entry, finalResponse) = Proved!Releases(entry, finalResponse)
             /\ Pool!AfterResponse(entry, finalResponse)
                  = Proved!AfterResponse(entry, finalResponse)
  BY SameTables
     DEF Pool!Releases, Proved!Releases, Pool!AfterResponse, Proved!AfterResponse,
         Pool!CountResponse, Proved!CountResponse
<1>3. ASSUME NEW id, NEW finalResponse
      PROVE  Pool!CompleteSuccess(id, finalResponse) <=> Proved!CompleteSuccess(id, finalResponse)
  BY <1>2, SameTables DEF Pool!CompleteSuccess, Proved!CompleteSuccess
<1>. QED
  BY <1>1, <1>3 DEF Pool!Complete, Proved!Complete

LEMMA SameExpire == Pool!Expire <=> Proved!Expire
<1>1. ASSUME NEW now
      PROVE  /\ Pool!AfterCollect(now) = Proved!AfterCollect(now)
             /\ Pool!Snapshot(now) = Proved!Snapshot(now)
  BY SameTables
     DEF Pool!AfterCollect, Proved!AfterCollect, Pool!Snapshot, Proved!Snapshot, Pool!Slots,
         Proved!Slots
<1>2. ASSUME NEW e
      PROVE  Pool!Idle(e) <=> Proved!Idle(e)
  BY SameTables DEF Pool!Idle, Proved!Idle
<1>3. ASSUME NEW e, NEW now
      PROVE  Pool!ExpireCollect(e, now) <=> Proved!ExpireCollect(e, now)
  BY <1>1, <1>2, SameTables
     DEF Pool!ExpireCollect, Proved!ExpireCollect, Pool!Tickets, Proved!Tickets
<1>4. ASSUME NEW e
      PROVE  Pool!ExpireReport(e) <=> Proved!ExpireReport(e)
  BY <1>2, SameTables DEF Pool!ExpireReport, Proved!ExpireReport
<1>5. ASSUME NEW e
      PROVE  Pool!ExpireThrow(e) <=> Proved!ExpireThrow(e)
  BY <1>2, SameTables
     DEF Pool!ExpireThrow, Proved!ExpireThrow, Pool!Tickets, Proved!Tickets
<1>. QED
  BY <1>3, <1>4, <1>5 DEF Pool!Expire, Proved!Expire

LEMMA SamePool == [Pool!Next]_(Pool!vars) <=> [Proved!Next]_(Proved!vars)
BY SameAdd, SameComplete, SameExpire
   DEF Pool!Next, Proved!Next, Pool!Tick, Proved!Tick, Pool!vars, Proved!vars

\* Between a lossy network and a device that may fail, a requester's pool is the
\* bounded set of requests that PendingRequestTracker describes: no identifier
\* names two requests, each request is in one place, none times out early, and
\* its outcome is final.
THEOREM PoolKeepsItsPromises ==
  Spec => /\ Proved!ImplementsTracker
          /\ []Proved!UniqueActiveIds
          /\ []Proved!TrackedOnce
          /\ []Proved!NoEarlyTimeout
          /\ Proved!OutcomeIsFinal
<1>1. Proved!PoolAssumption
  BY RoutingAssumption DEF Proved!PoolAssumption
<1>2. Spec => Proved!Spec
  <2>1. Pool!Init => Proved!Init
    BY SameInit
  <2>2. [Pool!Next]_(Pool!vars) => [Proved!Next]_(Proved!vars)
    BY SamePool
  <2>. QED
    BY <2>1, <2>2, PartsRunAsAlone, PTL DEF Pool!Spec, Proved!Spec
<1>3. Proved!Spec => Proved!ImplementsTracker
  BY <1>1, Proved!PoolIsATracker
<1>4. Proved!Spec => []Proved!UniqueActiveIds
  BY <1>1, Proved!UniqueIds
<1>5. Proved!Spec => []Proved!TrackedOnce
  BY <1>1, Proved!RequestsTrackedOnce
<1>6. Proved!Spec => []Proved!NoEarlyTimeout
  BY <1>1, Proved!NoRequestTimesOutEarly
<1>7. Proved!Spec => Proved!OutcomeIsFinal
  BY <1>1, Proved!OutcomesAreFinal
<1>. QED
  BY <1>2, <1>3, <1>4, <1>5, <1>6, <1>7, PTL

=============================================================================
