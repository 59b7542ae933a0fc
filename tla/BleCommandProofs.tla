--------------------------- MODULE BleCommandProofs ---------------------------
(***************************************************************************)
(* The invariants and action properties of BleCommand for every cache,     *)
(* queue and event budget.                                                 *)
(***************************************************************************)
EXTENDS BleCommand, TLAPS

Events == {NoiseEvent} \cup [type : SaveEvents \cup {"STARTED"}, by : Actors]
Entries == [valid : {TRUE}, pending : BOOLEAN, request : Requests,
            result : Results \cup {"none"}]

\* An entry that is not pending has an answer to repeat.
AnswersAreKept ==
  \A i \in Slots : cache[i].valid /\ ~cache[i].pending => cache[i].result \in Results

\* The event that answers a save is handled in the pass it is pushed in, so there
\* is one at most, and the pending save is its own.
OutcomeIsHandled ==
  /\ \A n \in DOMAIN events : events[n].type \in SaveEvents => phase = "EVENTS"
  /\ \A m, n \in DOMAIN events :
       events[m].type \in SaveEvents /\ events[n].type \in SaveEvents => m = n
  /\ \A n \in DOMAIN events :
       pendingSave # 0 /\ events[n].type \in SaveEvents
         => events[n].by = cache[pendingSave].request.id

\* The events of a pass so far: the start of the save, those of other kinds.
Started == IF saving = NoOperation THEN 0 ELSE 1
EventsFit ==
  /\ phase = "RADIO" => Len(events) = 0
  /\ phase = "COMMANDS" => Len(events) =< Started
  /\ phase \in {"TASKS", "PERSISTENCE"} => Len(events) =< noise + Started
  /\ phase = "EVENTS" => Len(events) =< budget

IInv ==
  TypeOK /\ PendingIsInFlight /\ AnswersAreKept /\ OutcomeIsHandled /\ EventsFit

\* The type invariant by what a step touches.
CacheTypes ==
  /\ cache \in [Slots -> {Blank} \cup Entries]
  /\ cacheNext \in Slots /\ pendingSave \in 0 .. Depth
PriorityTypes == priority \in Seq(Responses) /\ Len(priority) =< PriorityDepth
EventTypes == events \in Seq(Events) /\ Len(events) =< QueueCapacity
SavingTypes ==
  /\ saving \in {NoOperation} \cup [kind : {"SAVE", "FACTORY_RESET"}, by : Actors]
  /\ dirty \in BOOLEAN
PassTypes ==
  /\ phase \in {"RADIO", "COMMANDS", "TASKS", "PERSISTENCE", "EVENTS"}
  /\ budget \in 0 .. FramesPerRun + EventsPerRun
  /\ noise \in 0 .. NoisePerRun
RecentTypes == recent \in Seq(Transactions) /\ Len(recent) < Depth

LEMMA TypeParts ==
  TypeOK <=> /\ CacheTypes /\ PriorityTypes /\ EventTypes
             /\ SavingTypes /\ PassTypes /\ RecentTypes
BY DEF TypeOK, CacheTypes, PriorityTypes, EventTypes, SavingTypes, PassTypes,
       RecentTypes, Events, Entries

LEMMA TypePartsNext ==
  TypeOK' <=> /\ CacheTypes' /\ PriorityTypes' /\ EventTypes'
              /\ SavingTypes' /\ PassTypes' /\ RecentTypes'
BY DEF TypeOK, CacheTypes, PriorityTypes, EventTypes, SavingTypes, PassTypes,
       RecentTypes, Events, Entries

-----------------------------------------------------------------------------
(* Lemmas about the operators.                                             *)

LEMMA Counts ==
  /\ {Depth, FramesPerRun, PriorityDepth, NoisePerRun, EventsPerRun, QueueCapacity}
       \subseteq Nat
  /\ Depth >= 2 /\ FramesPerRun >= 1 /\ PriorityDepth >= 1
  /\ NoisePerRun + 2 =< EventsPerRun /\ EventsPerRun =< QueueCapacity
BY DepthAssumption, EventBudget

\* The slot after a slot.
LEMMA RingSlot ==
  ASSUME NEW c \in Slots
  PROVE  /\ ((c - 1 + 0) % Depth) + 1 = c
         /\ ((c - 1 + 1) % Depth) + 1 = IF c = Depth THEN 1 ELSE c + 1
         /\ (c % Depth) + 1 \in Slots
<1>1. Depth \in Nat /\ Depth >= 2 /\ c \in Nat /\ 1 =< c /\ c =< Depth
  BY DepthAssumption DEF Slots
<1>2. (c - 1) % Depth = c - 1
  BY <1>1
<1>3. c % Depth = IF c = Depth THEN 0 ELSE c
  BY <1>1
<1> QED
  BY <1>1, <1>2, <1>3 DEF Slots

\* One entry at most is pending, so the next slot or the one after it is free.
LEMMA AllocatedIsFree ==
  ASSUME CacheTypes, PendingIsInFlight
  PROVE  /\ Allocated \in Slots /\ ~cache[Allocated].pending
         /\ (Allocated % Depth) + 1 \in Slots
<1> DEFINE At(o) == ((cacheNext - 1 + o) % Depth) + 1
<1>1. cacheNext \in Slots
  BY DEF CacheTypes
<1>2. At(0) \in Slots /\ At(1) \in Slots /\ At(0) # At(1)
  <2>1. At(0) = cacheNext /\ At(1) = IF cacheNext = Depth THEN 1 ELSE cacheNext + 1
    BY <1>1, RingSlot, Zenon
  <2> HIDE DEF At
  <2> QED
    BY <1>1, <2>1, DepthAssumption DEF Slots
<1>3. {0, 1} \subseteq 0 .. Depth - 1
  BY DepthAssumption
<1>4. \E o \in 0 .. Depth - 1 : Free(o) /\ \A q \in 0 .. o - 1 : ~Free(q)
  <2>1. CASE Free(0)
    BY <2>1, <1>3
  <2>2. CASE ~Free(0)
    <3>1. Free(1)
      BY <2>2, <1>2 DEF Free, PendingIsInFlight
    <3>2. \A q \in 0 .. 1 - 1 : q = 0
      OBVIOUS
    <3> QED
      BY <2>2, <3>1, <3>2, <1>3
  <2> QED
    BY <2>1, <2>2
<1> DEFINE offset == CHOOSE o \in 0 .. Depth - 1 :
                       Free(o) /\ \A q \in 0 .. o - 1 : ~Free(q)
<1>5. offset \in 0 .. Depth - 1 /\ Free(offset)
  BY <1>4
<1>6. At(offset) \in Slots
  <2>1. cacheNext - 1 + offset \in Nat /\ Depth \in Nat \ {0}
    BY <1>1, <1>5, DepthAssumption DEF Slots
  <2>2. (cacheNext - 1 + offset) % Depth \in 0 .. Depth - 1
    BY <2>1
  <2> QED
    BY <2>1, <2>2 DEF Slots
<1>7. Allocated = At(offset)
  BY DEF Allocated
<1> QED
  BY <1>5, <1>6, <1>7, RingSlot DEF Free

LEMMA PushedEvents ==
  ASSUME NEW q \in Seq(Events), NEW e \in Events, Len(q) =< QueueCapacity
  PROVE  /\ Pushed(q, e) \in Seq(Events) /\ Len(Pushed(q, e)) =< QueueCapacity
         /\ Len(Pushed(q, e)) =< Len(q) + 1
         /\ \A n \in DOMAIN Pushed(q, e) :
              \/ n \in DOMAIN q /\ Pushed(q, e)[n] = q[n]
              \/ n = Len(q) + 1 /\ Pushed(q, e)[n] = e
         /\ Len(q) < QueueCapacity =>
              /\ Pushed(q, e) = Append(q, e)
              /\ Len(Pushed(q, e)) = Len(q) + 1 /\ Pushed(q, e)[Len(q) + 1] = e
              /\ \A n \in DOMAIN q : n \in DOMAIN Pushed(q, e) /\ Pushed(q, e)[n] = q[n]
BY Counts DEF Pushed

LEMMA QueuedResponses ==
  ASSUME PriorityTypes, NEW request \in Requests, NEW result \in Results
  PROVE  /\ Queued(priority, request, result) \in Seq(Responses)
         /\ Len(Queued(priority, request, result)) =< PriorityDepth
<1>1. [request |-> request, result |-> result] \in Responses
  BY DEF Responses
<1> QED
  BY <1>1, Counts DEF Queued, PriorityTypes

LEMMA RemembersTypes ==
  ASSUME RecentTypes, NEW id \in Transactions, Remember(id)
  PROVE  RecentTypes'
<1>1. Append(recent, id) \in Seq(Transactions) /\ Len(Append(recent, id)) = Len(recent) + 1
  BY DEF RecentTypes
<1>2. Len(recent) \in Nat
  BY DEF RecentTypes
<1> QED
  BY <1>1, <1>2, Counts DEF RecentTypes, Remember
-----------------------------------------------------------------------------
(* The invariant holds at start and is kept by every step.                 *)

LEMMA InitInvariant == Init => IInv
<1> SUFFICES ASSUME Init PROVE IInv
  OBVIOUS
<1>1. CacheTypes
  BY Counts DEF Init, CacheTypes, Slots
<1>2. PriorityTypes /\ EventTypes /\ RecentTypes
  BY Counts DEF Init, PriorityTypes, EventTypes, RecentTypes
<1>3. SavingTypes /\ PassTypes
  BY Counts DEF Init, SavingTypes, PassTypes
<1>4. PendingIsInFlight /\ AnswersAreKept
  BY DEF Init, PendingIsInFlight, AnswersAreKept, Blank, Slots
<1>5. OutcomeIsHandled /\ EventsFit
  BY DEF Init, OutcomeIsHandled, EventsFit
<1> QED
  BY <1>1, <1>2, <1>3, <1>4, <1>5, TypeParts DEF IInv

\* A request of the phone that leaves cache and events alone.
LEMMA RepeatKeeps ==
  ASSUME IInv, NEW request \in Requests, Conflict(request) \/ Duplicate(request)
  PROVE  IInv'
<1>1. /\ CacheTypes /\ PriorityTypes /\ EventTypes /\ SavingTypes /\ PassTypes /\ RecentTypes
      /\ phase = "COMMANDS" /\ budget > 0 /\ budget' = budget - 1
      /\ UNCHANGED <<cache, cacheNext, pendingSave, saving, dirty, events, phase,
                     noise, recent>>
  BY TypeParts DEF IInv, Conflict, Duplicate, Dispatch, serviceVars
<1>2. PriorityTypes'
  <2>1. CASE Conflict(request)
    BY <1>1, <2>1, QueuedResponses DEF Conflict, Results, PriorityTypes
  <2>2. CASE Duplicate(request)
    <3>1. PICK i \in Known(request) :
            priority' = IF cache[i].pending THEN priority
                        ELSE Queued(priority, request, cache[i].result)
      BY <2>2 DEF Duplicate
    <3>2. cache[i].pending \/ cache[i].result \in Results
      BY DEF IInv, AnswersAreKept, Known
    <3> QED
      BY <1>1, <3>1, <3>2, QueuedResponses DEF PriorityTypes
  <2> QED
    BY <2>1, <2>2
<1>3. CacheTypes' /\ EventTypes' /\ SavingTypes' /\ RecentTypes'
  BY <1>1 DEF CacheTypes, EventTypes, SavingTypes, RecentTypes
<1>4. PassTypes'
  BY <1>1, Counts DEF PassTypes
<1>5. PendingIsInFlight' /\ AnswersAreKept'
  BY <1>1 DEF IInv, PendingIsInFlight, AnswersAreKept
<1>6. OutcomeIsHandled' /\ EventsFit'
  BY <1>1 DEF IInv, OutcomeIsHandled, EventsFit, Started
<1> QED
  BY <1>1, <1>2, <1>3, <1>4, <1>5, <1>6, TypePartsNext DEF IInv

LEMMA AnswerKeeps ==
  ASSUME IInv, NEW request \in Requests, NEW result \in Results,
         Answer(request, result), dirty' \in BOOLEAN
  PROVE  IInv'
<1>1. /\ CacheTypes /\ PriorityTypes /\ EventTypes /\ SavingTypes /\ PassTypes /\ RecentTypes
      /\ phase = "COMMANDS" /\ budget > 0 /\ budget' = budget - 1
      /\ UNCHANGED <<pendingSave, saving, events, phase, noise>>
  BY TypeParts DEF IInv, Answer, Dispatch
<1>2. /\ Allocated \in Slots /\ ~cache[Allocated].pending
      /\ (Allocated % Depth) + 1 \in Slots
  BY <1>1, AllocatedIsFree DEF IInv
<1>3. Entry(request, FALSE, result) \in Entries
  BY DEF Entry, Entries
<1>4. /\ cache' = [cache EXCEPT ![Allocated] = Entry(request, FALSE, result)]
      /\ cacheNext' = (Allocated % Depth) + 1
      /\ priority' = Queued(priority, request, result)
      /\ Remember(request.id)
  BY DEF Answer
<1>5. CacheTypes'
  BY <1>1, <1>2, <1>3, <1>4 DEF CacheTypes
<1>6. PriorityTypes'
  BY <1>1, <1>4, QueuedResponses DEF PriorityTypes
<1>7. RecentTypes'
  BY <1>1, <1>4, RemembersTypes, RequestAssumption
<1>8. EventTypes' /\ SavingTypes'
  BY <1>1 DEF EventTypes, SavingTypes
<1>9. PassTypes'
  BY <1>1, Counts DEF PassTypes
<1>10. pendingSave # 0 => /\ pendingSave \in Slots /\ pendingSave # Allocated
                          /\ cache'[pendingSave] = cache[pendingSave]
  <2>1. ASSUME pendingSave # 0 PROVE pendingSave \in Slots /\ cache[pendingSave].pending
    BY <1>1, <2>1, Counts DEF IInv, PendingIsInFlight, CacheTypes, Slots
  <2> QED
    BY <1>1, <1>2, <1>4, <2>1 DEF CacheTypes
<1>11. \A i \in Slots : cache'[i].pending <=> cache[i].pending
  BY <1>1, <1>2, <1>4 DEF CacheTypes, Entry
<1>12. PendingIsInFlight'
  BY <1>1, <1>10, <1>11 DEF IInv, PendingIsInFlight
<1>13. AnswersAreKept'
  BY <1>1, <1>2, <1>4 DEF IInv, AnswersAreKept, CacheTypes, Entry
<1>14. OutcomeIsHandled' /\ EventsFit'
  BY <1>1, <1>10 DEF IInv, OutcomeIsHandled, EventsFit, Started
<1> QED
  BY <1>1, <1>5, <1>6, <1>7, <1>8, <1>9, <1>12, <1>13, <1>14, TypePartsNext DEF IInv

LEMMA SaveAcceptedKeeps ==
  ASSUME IInv, NEW request \in Requests, SaveAccepted(request)
  PROVE  IInv'
<1> DEFINE start == [type |-> "STARTED", by |-> request.id]
<1>1. /\ CacheTypes /\ PriorityTypes /\ EventTypes /\ SavingTypes /\ PassTypes /\ RecentTypes
      /\ phase = "COMMANDS" /\ budget > 0 /\ budget' = budget - 1
      /\ UNCHANGED <<priority, dirty, phase, noise>>
  BY TypeParts DEF IInv, SaveAccepted, Dispatch
<1>2. /\ Allocated \in Slots /\ ~cache[Allocated].pending
      /\ (Allocated % Depth) + 1 \in Slots
  BY <1>1, AllocatedIsFree DEF IInv
<1>3. Entry(request, TRUE, "none") \in Entries
  BY DEF Entry, Entries
<1>4. /\ cache' = [cache EXCEPT ![Allocated] = Entry(request, TRUE, "none")]
      /\ cacheNext' = (Allocated % Depth) + 1
      /\ pendingSave' = Allocated
      /\ saving = NoOperation /\ saving' = [kind |-> "SAVE", by |-> request.id]
      /\ events' = Pushed(events, start)
      /\ Remember(request.id)
  BY DEF SaveAccepted
<1>5. request.id \in Transactions /\ request.id \in Actors
  BY RequestAssumption DEF Actors
<1>6. CacheTypes'
  <2>1. pendingSave' \in 0 .. Depth
    BY <1>2, <1>4, Counts DEF Slots
  <2> QED
    BY <1>1, <1>2, <1>3, <1>4, <2>1 DEF CacheTypes
<1>7. PriorityTypes'
  BY <1>1 DEF PriorityTypes
<1>8. RecentTypes'
  BY <1>1, <1>4, <1>5, RemembersTypes
<1>9. SavingTypes'
  BY <1>1, <1>4, <1>5 DEF SavingTypes
<1>10. PassTypes'
  BY <1>1, Counts DEF PassTypes
<1>11. start \in Events
  BY <1>5 DEF Events
<1>12. Len(events) = 0 /\ events \in Seq(Events)
  <2>1. Len(events) =< 0 /\ events \in Seq(Events)
    BY <1>1, <1>4 DEF IInv, EventsFit, Started, EventTypes
  <2> QED
    BY <2>1
<1>13. /\ EventTypes' /\ Len(events') =< 1
       /\ \A n \in DOMAIN events' : events'[n] = start
  <2> HIDE DEF start
  <2>1. Len(events) =< QueueCapacity /\ DOMAIN events = 1 .. 0
    BY <1>12, Counts
  <2>2. /\ Pushed(events, start) \in Seq(Events)
        /\ Len(Pushed(events, start)) =< QueueCapacity
        /\ Len(Pushed(events, start)) =< Len(events) + 1
        /\ \A n \in DOMAIN Pushed(events, start) :
             \/ n \in DOMAIN events /\ Pushed(events, start)[n] = events[n]
             \/ n = Len(events) + 1 /\ Pushed(events, start)[n] = start
    BY <1>11, <1>12, <2>1, PushedEvents
  <2> QED
    BY <1>4, <1>12, <2>1, <2>2 DEF EventTypes
<1>14. pendingSave = 0
  BY <1>4, <1>12 DEF IInv, PendingIsInFlight, NoOperation
<1>15. PendingIsInFlight'
  BY <1>1, <1>2, <1>4, <1>14 DEF IInv, PendingIsInFlight, CacheTypes, Entry, Slots
<1>16. AnswersAreKept'
  BY <1>1, <1>2, <1>4 DEF IInv, AnswersAreKept, CacheTypes, Entry
<1>17. OutcomeIsHandled'
  BY <1>13 DEF OutcomeIsHandled, SaveEvents
<1>18. EventsFit'
  BY <1>1, <1>4, <1>13 DEF EventsFit, Started, NoOperation
<1> QED
  BY <1>6, <1>7, <1>8, <1>9, <1>10, <1>13, <1>15, <1>16, <1>17, <1>18, TypePartsNext DEF IInv

LEMMA RequestKeeps ==
  ASSUME IInv, NEW request \in Requests, HandleRequest(request)
  PROVE  IInv'
<1>1. dirty \in BOOLEAN
  BY DEF IInv, TypeOK
<1>2. CASE Conflict(request) \/ Duplicate(request)
  BY <1>2, RepeatKeeps
<1>3. CASE Read(request)
  BY <1>1, <1>3, AnswerKeeps DEF Read, Results
<1>4. CASE Edit(request)
  BY <1>1, <1>4, AnswerKeeps DEF Edit, Results
<1>5. CASE SaveRefused(request)
  BY <1>1, <1>5, AnswerKeeps DEF SaveRefused, Results
<1>6. CASE SaveAccepted(request)
  BY <1>6, SaveAcceptedKeeps
<1> QED
  BY <1>2, <1>3, <1>4, <1>5, <1>6 DEF HandleRequest

\* Steps that end a phase, send an answer or make the configuration dirty.
LEMMA PhaseKeeps ==
  ASSUME IInv, Radio \/ EndCommands \/ EndTasks \/ OtherEdit \/ SaveGoesOn \/ EndPass
  PROVE  IInv'
<1>1. /\ CacheTypes /\ PriorityTypes /\ EventTypes /\ SavingTypes /\ PassTypes /\ RecentTypes
      /\ UNCHANGED <<cache, cacheNext, pendingSave, saving, events, recent>>
  BY TypeParts DEF IInv, Radio, EndCommands, EndTasks, OtherEdit, SaveGoesOn, Persist,
     EndPass, serviceVars
<1>2. CacheTypes' /\ EventTypes' /\ RecentTypes' /\ Started' = Started
  BY <1>1 DEF CacheTypes, EventTypes, RecentTypes, Started
<1>3. PriorityTypes'
  <2>1. CASE priority # <<>> /\ priority' = Tail(priority)
    <3>1. Tail(priority) \in Seq(Responses) /\ Len(Tail(priority)) = Len(priority) - 1
      BY <1>1, <2>1 DEF PriorityTypes
    <3>2. Len(priority) \in Nat
      BY <1>1 DEF PriorityTypes
    <3> QED
      BY <1>1, <2>1, <3>1, <3>2, Counts DEF PriorityTypes
  <2>2. CASE UNCHANGED priority
    BY <1>1, <2>2 DEF PriorityTypes
  <2> QED
    BY <2>1, <2>2 DEF Radio, EndCommands, EndTasks, OtherEdit, SaveGoesOn, Persist, EndPass
<1>4. SavingTypes'
  BY <1>1 DEF SavingTypes, Radio, EndCommands, EndTasks, OtherEdit, SaveGoesOn, Persist, EndPass
<1>5. PassTypes'
  BY <1>1, Counts DEF PassTypes, Radio, EndCommands, EndTasks, OtherEdit, SaveGoesOn,
     Persist, EndPass
<1>6. PendingIsInFlight' /\ AnswersAreKept'
  BY <1>1 DEF IInv, PendingIsInFlight, AnswersAreKept
<1>7. Len(events) \in Nat /\ Started \in {0, 1} /\ noise \in 0 .. NoisePerRun /\ budget \in Nat
  BY <1>1, Counts DEF EventTypes, Started, PassTypes
<1>8. phase = "EVENTS" /\ Drained => Len(events) = 0
  BY <1>1, <1>7 DEF IInv, EventsFit, Drained
<1>9. EventsFit'
  BY <1>1, <1>2, <1>7, <1>8, Counts DEF IInv, EventsFit, Radio, EndCommands, EndTasks,
     OtherEdit, SaveGoesOn, Persist, EndPass
<1>10. phase' = "EVENTS" \/ phase # "EVENTS" \/ DOMAIN events = {}
  <2>1. CASE EndPass
    <3>1. DOMAIN events = 1 .. Len(events)
      BY <1>1 DEF EventTypes
    <3> QED
      BY <1>8, <2>1, <3>1 DEF EndPass
  <2>2. CASE ~EndPass
    BY <2>2 DEF Radio, EndCommands, EndTasks, OtherEdit, SaveGoesOn, Persist
  <2> QED
    BY <2>1, <2>2
<1>11. OutcomeIsHandled'
  BY <1>1, <1>10 DEF IInv, OutcomeIsHandled
<1> QED
  BY <1>2, <1>3, <1>4, <1>5, <1>6, <1>9, <1>11, TypePartsNext DEF IInv

\* What else pushes events while the periodic tasks run.
LEMMA OtherKeeps ==
  ASSUME IInv, OtherEvent \/ \E kind \in {"SAVE", "FACTORY_RESET"} : OtherSave(kind)
  PROVE  IInv'
<1>1. /\ CacheTypes /\ PriorityTypes /\ EventTypes /\ SavingTypes /\ PassTypes /\ RecentTypes
      /\ UNCHANGED <<cache, cacheNext, pendingSave, priority, dirty, budget, phase, recent>>
      /\ phase = "TASKS"
  BY TypeParts DEF IInv, OtherEvent, OtherSave, serviceVars
<1>2. PICK e \in Events : events' = Pushed(events, e) /\ e.type \notin SaveEvents
  <2>1. CASE OtherEvent
    BY <2>1 DEF OtherEvent, Events, NoiseEvent, SaveEvents
  <2>2. ASSUME NEW kind \in {"SAVE", "FACTORY_RESET"}, OtherSave(kind)
        PROVE  \E e \in Events : events' = Pushed(events, e) /\ e.type \notin SaveEvents
    <3>1. [type |-> "STARTED", by |-> "other"] \in Events /\ NoiseEvent \in Events
      BY DEF Events, Actors
    <3> QED
      BY <2>2, <3>1 DEF OtherSave, NoiseEvent, SaveEvents
  <2> QED
    BY <2>1, <2>2
<1>3. /\ EventTypes' /\ Len(events') =< Len(events) + 1
      /\ \A n \in DOMAIN events' :
           \/ n \in DOMAIN events /\ events'[n] = events[n]
           \/ n = Len(events) + 1 /\ events'[n] = e
      /\ Len(events) < QueueCapacity =>
           \A n \in DOMAIN events : n \in DOMAIN events' /\ events'[n] = events[n]
  BY <1>1, <1>2, PushedEvents DEF EventTypes
<1>4. \A n \in DOMAIN events' : events'[n].type \notin SaveEvents
  BY <1>1, <1>2, <1>3 DEF IInv, OutcomeIsHandled
<1>5. CacheTypes' /\ PriorityTypes' /\ RecentTypes'
  BY <1>1 DEF CacheTypes, PriorityTypes, RecentTypes
<1>6. SavingTypes'
  BY <1>1 DEF SavingTypes, OtherEvent, OtherSave, Actors
<1>7. PassTypes'
  BY <1>1, Counts DEF PassTypes, OtherEvent, OtherSave
<1>8. AnswersAreKept'
  BY <1>1 DEF IInv, AnswersAreKept
<1>9. pendingSave # 0 => saving = [kind |-> "SAVE", by |-> cache[pendingSave].request.id]
  BY <1>1 DEF IInv, PendingIsInFlight, OutcomeIsHandled
<1>10. PendingIsInFlight'
  BY <1>1, <1>9 DEF IInv, PendingIsInFlight, OtherEvent, OtherSave, NoOperation
<1>11. OutcomeIsHandled'
  BY <1>4 DEF OutcomeIsHandled
<1>12. EventsFit'
  <2>1. Len(events) =< noise + Started /\ Len(events) \in Nat /\ Len(events') \in Nat
        /\ noise \in Nat
    BY <1>1, <1>3, Counts DEF IInv, EventsFit, EventTypes, PassTypes
  <2>2. noise' + Started' = noise + Started + 1
    BY <2>1 DEF OtherEvent, OtherSave, Started, NoOperation
  <2>3. Len(events') =< noise' + Started'
    BY <1>3, <2>1, <2>2 DEF Started
  <2> QED
    BY <1>1, <2>3 DEF EventsFit
<1> QED
  BY <1>3, <1>5, <1>6, <1>7, <1>8, <1>10, <1>11, <1>12, TypePartsNext DEF IInv

LEMMA SaveEndsKeeps ==
  ASSUME IInv, SaveEnds
  PROVE  IInv'
<1>1. /\ CacheTypes /\ PriorityTypes /\ EventTypes /\ SavingTypes /\ PassTypes /\ RecentTypes
      /\ UNCHANGED <<cache, cacheNext, pendingSave, priority, noise, recent>>
      /\ phase = "PERSISTENCE" /\ phase' = "EVENTS" /\ budget' = EventsPerRun
      /\ saving # NoOperation /\ saving' = NoOperation
  BY TypeParts DEF IInv, SaveEnds, Persist, serviceVars
<1>2. PICK type \in SaveEvents :
        /\ dirty' \in IF type = "FAILED" THEN {TRUE} ELSE BOOLEAN
        /\ events' = Pushed(events, IF saving.kind = "SAVE"
                                    THEN [type |-> type, by |-> saving.by]
                                    ELSE NoiseEvent)
  BY DEF SaveEnds
<1> DEFINE e == IF saving.kind = "SAVE" THEN [type |-> type, by |-> saving.by] ELSE NoiseEvent
<1>3. e \in Events
  BY <1>1, <1>2 DEF Events, SavingTypes
<1>4. pendingSave # 0 =>
        /\ saving = [kind |-> "SAVE", by |-> cache[pendingSave].request.id]
        /\ e.type \in SaveEvents /\ e.by = cache[pendingSave].request.id
  <2>1. ASSUME pendingSave # 0
        PROVE  saving = [kind |-> "SAVE", by |-> cache[pendingSave].request.id]
    BY <1>1, <2>1 DEF IInv, PendingIsInFlight, OutcomeIsHandled
  <2> QED
    BY <1>2, <2>1
<1>5. Len(events) \in Nat /\ Len(events) + 1 =< EventsPerRun /\ Len(events) < QueueCapacity
  BY <1>1, Counts DEF IInv, EventsFit, EventTypes, PassTypes, Started
<1>6. events' = Pushed(events, e)
  BY <1>2
<1> HIDE DEF e
<1>7. /\ EventTypes' /\ Len(events') = Len(events) + 1
      /\ Len(events) + 1 \in DOMAIN events' /\ events'[Len(events) + 1] = e
      /\ \A n \in DOMAIN events' :
           \/ n \in DOMAIN events /\ events'[n] = events[n]
           \/ n = Len(events) + 1 /\ events'[n] = e
  <2>1. EventTypes' /\ Len(events') = Len(events) + 1 /\ events'[Len(events) + 1] = e
        /\ \A n \in DOMAIN events' :
             \/ n \in DOMAIN events /\ events'[n] = events[n]
             \/ n = Len(events) + 1 /\ events'[n] = e
    BY <1>1, <1>3, <1>5, <1>6, PushedEvents DEF EventTypes
  <2> QED
    BY <1>5, <2>1 DEF EventTypes
<1>8. \A n \in DOMAIN events : events[n].type \notin SaveEvents
  BY <1>1 DEF IInv, OutcomeIsHandled
<1>9. CacheTypes' /\ PriorityTypes' /\ RecentTypes'
  BY <1>1 DEF CacheTypes, PriorityTypes, RecentTypes
<1>10. SavingTypes'
  BY <1>1, <1>2 DEF SavingTypes
<1>11. PassTypes'
  BY <1>1, Counts DEF PassTypes
<1>12. AnswersAreKept'
  BY <1>1 DEF IInv, AnswersAreKept
<1>13. PendingIsInFlight'
  <2>1. pendingSave # 0 => \E n \in DOMAIN events' : /\ events'[n].type \in SaveEvents
                                                     /\ events'[n].by = cache[pendingSave].request.id
    BY <1>4, <1>7
  <2> QED
    BY <1>1, <2>1 DEF IInv, PendingIsInFlight
<1>14. OutcomeIsHandled'
  <2>1. \A n \in DOMAIN events' : events'[n].type \in SaveEvents =>
          n = Len(events) + 1 /\ events'[n] = e
    BY <1>7, <1>8
  <2> QED
    BY <1>1, <1>4, <2>1 DEF OutcomeIsHandled
<1>15. EventsFit'
  BY <1>1, <1>5, <1>7 DEF EventsFit
<1> QED
  BY <1>7, <1>9, <1>10, <1>11, <1>12, <1>13, <1>14, <1>15, TypePartsNext DEF IInv

LEMMA HandleEventKeeps ==
  ASSUME IInv, HandleEvent
  PROVE  IInv'
<1>1. /\ CacheTypes /\ PriorityTypes /\ EventTypes /\ SavingTypes /\ PassTypes /\ RecentTypes
      /\ phase = "EVENTS" /\ budget > 0 /\ events # <<>>
      /\ budget' = budget - 1 /\ events' = Tail(events)
      /\ UNCHANGED <<cacheNext, saving, dirty, phase, noise, recent>>
  BY TypeParts DEF IInv, HandleEvent
<1>2. /\ Len(events) \in Nat \ {0} /\ DOMAIN events = 1 .. Len(events)
      /\ events' \in Seq(Events) /\ Len(events') = Len(events) - 1
      /\ DOMAIN events' = 1 .. Len(events) - 1
      /\ \A n \in DOMAIN events' : n + 1 \in DOMAIN events /\ events'[n] = events[n + 1]
      /\ Head(events) = events[1]
  BY <1>1 DEF EventTypes
<1>3. EventTypes' /\ SavingTypes' /\ RecentTypes'
  BY <1>1, <1>2, Counts DEF EventTypes, SavingTypes, RecentTypes
<1>4. PassTypes'
  BY <1>1, Counts DEF PassTypes
<1>5. EventsFit'
  <2>1. budget \in Nat /\ Len(events) =< budget
    BY <1>1, Counts DEF IInv, EventsFit, PassTypes
  <2> QED
    BY <1>1, <1>2, <2>1 DEF EventsFit
<1>6. \A m, n \in DOMAIN events' :
        events'[m].type \in SaveEvents /\ events'[n].type \in SaveEvents => m = n
  <2>1. SUFFICES ASSUME NEW m \in DOMAIN events', NEW n \in DOMAIN events',
                        events'[m].type \in SaveEvents, events'[n].type \in SaveEvents
                 PROVE  m = n
    OBVIOUS
  <2>2. m + 1 = n + 1
    BY <1>2, <2>1 DEF IInv, OutcomeIsHandled
  <2> QED
    BY <1>2, <2>2
<1>7. CASE pendingSave # 0 /\ Answers(Head(events))
  <2> DEFINE result == IF Head(events).type = "FAILED" THEN "PERSISTENCE_FAILED" ELSE "OK"
             request == cache[pendingSave].request
  <2>1. /\ cache' = [cache EXCEPT ![pendingSave] = Entry(request, FALSE, result)]
        /\ priority' = Queued(priority, request, result)
        /\ pendingSave' = 0
    BY <1>7 DEF HandleEvent
  <2>2. pendingSave \in Slots /\ cache[pendingSave].pending
    BY <1>1, <1>7, Counts DEF IInv, PendingIsInFlight, CacheTypes, Slots
  <2>3. request \in Requests /\ result \in Results
    <3>1. cache[pendingSave] \in Entries
      BY <1>1, <2>2 DEF CacheTypes, Blank
    <3> QED
      BY <3>1 DEF Entries, Results
  <2> HIDE DEF request, result
  <2>4. Entry(request, FALSE, result) \in Entries
    BY <2>3 DEF Entry, Entries
  <2>5. CacheTypes'
    <3>1. 0 \in 0 .. Depth /\ cacheNext' \in Slots
      BY <1>1, Counts DEF CacheTypes
    <3> QED
      BY <1>1, <2>1, <2>2, <2>4, <3>1 DEF CacheTypes
  <2>6. PriorityTypes'
    BY <1>1, <2>1, <2>3, QueuedResponses DEF PriorityTypes
  <2>7. PendingIsInFlight'
    <3>1. \A i \in Slots : ~cache'[i].pending /\ i # 0
      BY <1>1, <2>1, <2>2, Counts DEF IInv, PendingIsInFlight, CacheTypes, Entry, Slots
    <3> QED
      BY <2>1, <3>1 DEF PendingIsInFlight
  <2>8. AnswersAreKept'
    BY <1>1, <2>1, <2>2, <2>3 DEF IInv, AnswersAreKept, CacheTypes, Entry
  <2>9. OutcomeIsHandled'
    BY <1>1, <1>6, <2>1 DEF OutcomeIsHandled
  <2> QED
    BY <1>3, <1>4, <1>5, <2>5, <2>6, <2>7, <2>8, <2>9, TypePartsNext DEF IInv
<1>8. CASE ~(pendingSave # 0 /\ Answers(Head(events)))
  <2>1. UNCHANGED <<cache, pendingSave, priority>>
    BY <1>8 DEF HandleEvent
  <2>2. CacheTypes' /\ PriorityTypes'
    BY <1>1, <2>1 DEF CacheTypes, PriorityTypes
  <2>3. AnswersAreKept'
    BY <2>1 DEF IInv, AnswersAreKept
  <2>4. PendingIsInFlight'
    <3>1. ASSUME pendingSave # 0, NEW n \in DOMAIN events, events[n].type \in SaveEvents
          PROVE  n - 1 \in DOMAIN events' /\ events'[n - 1] = events[n]
      <4>1. n # 1
        BY <1>2, <1>8, <3>1 DEF Answers
      <4> QED
        BY <1>2, <4>1
    <3> QED
      BY <1>1, <2>1, <3>1 DEF IInv, PendingIsInFlight
  <2>5. OutcomeIsHandled'
    BY <1>1, <1>2, <1>6, <2>1 DEF IInv, OutcomeIsHandled
  <2> QED
    BY <1>3, <1>4, <1>5, <2>2, <2>3, <2>4, <2>5, TypePartsNext DEF IInv
<1> QED
  BY <1>7, <1>8

LEMMA StepInvariant == IInv /\ [Next]_vars => IInv'
<1> SUFFICES ASSUME IInv, [Next]_vars PROVE IInv'
  OBVIOUS
<1>1. ASSUME NEW request \in Requests, HandleRequest(request) PROVE IInv'
  BY <1>1, RequestKeeps
<1>2. CASE OtherEvent \/ \E kind \in {"SAVE", "FACTORY_RESET"} : OtherSave(kind)
  BY <1>2, OtherKeeps
<1>3. CASE SaveEnds
  BY <1>3, SaveEndsKeeps
<1>4. CASE HandleEvent
  BY <1>4, HandleEventKeeps
<1>5. CASE Radio \/ EndCommands \/ EndTasks \/ OtherEdit \/ SaveGoesOn \/ EndPass
  BY <1>5, PhaseKeeps
<1>6. CASE UNCHANGED vars
  BY <1>6 DEF vars, serviceVars, IInv, TypeOK, PendingIsInFlight, AnswersAreKept,
     OutcomeIsHandled, EventsFit, Started
<1> QED
  BY <1>1, <1>2, <1>3, <1>4, <1>5, <1>6 DEF Next, MainLoop

-----------------------------------------------------------------------------
(* At most once: where the recent transactions are in the ring.            *)

\* The slot so many places behind another, and the one after it.
Behind(slot, k) == IF k < slot THEN slot - k ELSE slot - k + Depth
After(slot) == IF slot = Depth THEN 1 ELSE slot + 1

\* Newest first, the recent transactions follow one another behind s_cache_next,
\* but for one slot: that of a pending save that was passed over.
Place(gap, n) == IF n < gap THEN n ELSE n + 1
Newest(ids, n) == ids[Len(ids) + 1 - n]
InOrder(gap) ==
  \A n \in 1 .. Len(recent) :
    LET i == Behind(cacheNext, Place(gap, n))
    IN  cache[i].valid /\ cache[i].request.id = Newest(recent, n)

\* A save that is still pending is no further back than the gap.
GapIsPassed(gap) ==
  \A k \in 1 .. Depth : cache[Behind(cacheNext, k)].pending => k =< gap

RingOrder == \E gap \in 1 .. Depth : InOrder(gap) /\ GapIsPassed(gap)

LEMMA BehindSlots ==
  ASSUME NEW c \in Slots, NEW k \in 1 .. Depth
  PROVE  /\ Behind(c, k) \in Slots
         /\ \A m \in 1 .. Depth : Behind(c, k) = Behind(c, m) => k = m
         /\ k < Depth => Behind(After(c), k + 1) = Behind(c, k)
         /\ k < Depth - 1 => Behind(After(After(c)), k + 2) = Behind(c, k)
BY Counts DEF Slots, Behind, After

LEMMA BehindEnds ==
  ASSUME NEW c \in Slots
  PROVE  /\ Behind(c, Depth) = c /\ Behind(c, Depth - 1) = After(c)
         /\ After(c) \in Slots /\ Behind(After(c), 1) = c
BY Counts DEF Slots, Behind, After

\* A new request gets the next slot, or the one after it when a save is pending
\* in the next.
LEMMA AllocatedIsNext ==
  ASSUME CacheTypes, PendingIsInFlight
  PROVE  /\ Allocated = IF cache[cacheNext].pending THEN After(cacheNext) ELSE cacheNext
         /\ (Allocated % Depth) + 1 = After(Allocated)
<1> DEFINE At(o) == ((cacheNext - 1 + o) % Depth) + 1
<1> DEFINE offset == CHOOSE o \in 0 .. Depth - 1 :
                       Free(o) /\ \A q \in 0 .. o - 1 : ~Free(q)
<1>1. cacheNext \in Slots
  BY DEF CacheTypes
<1>2. At(0) = cacheNext /\ At(1) = After(cacheNext)
  BY <1>1, RingSlot, Zenon DEF After
<1>3. \A o : Free(o) <=> ~cache[At(o)].pending
  BY DEF Free
<1>4. Allocated = At(offset)
  BY DEF Allocated
<1> HIDE DEF At
<1>5. {0, 1} \subseteq 0 .. Depth - 1
  BY DepthAssumption
<1>6. ASSUME ~cache[cacheNext].pending PROVE Allocated = cacheNext
  <2>1. Free(0)
    BY <1>2, <1>3, <1>6
  <2>2. \A q \in 0 .. 0 - 1 : ~Free(q)
    OBVIOUS
  <2>3. \A o \in 0 .. Depth - 1 : (\A q \in 0 .. o - 1 : ~Free(q)) => o = 0
    BY <2>1
  <2>4. offset = 0
    BY <1>5, <2>1, <2>2, <2>3
  <2> QED
    BY <1>2, <1>4, <2>4
<1>7. ASSUME cache[cacheNext].pending PROVE Allocated = After(cacheNext)
  <2>1. ~Free(0)
    BY <1>2, <1>3, <1>7
  <2>2. After(cacheNext) # cacheNext /\ After(cacheNext) \in Slots
    BY <1>1, Counts DEF After, Slots
  <2>3. Free(1)
    BY <1>1, <1>2, <1>3, <1>7, <2>2 DEF PendingIsInFlight
  <2>4. \A q \in 0 .. 1 - 1 : ~Free(q)
    <3>1. \A q \in 0 .. 1 - 1 : q = 0
      OBVIOUS
    <3> QED
      BY <2>1, <3>1
  <2>5. \A o \in 0 .. Depth - 1 : Free(o) /\ (\A q \in 0 .. o - 1 : ~Free(q)) => o = 1
    <3> SUFFICES ASSUME NEW o \in 0 .. Depth - 1, Free(o), \A q \in 0 .. o - 1 : ~Free(q)
                 PROVE  o = 1
      OBVIOUS
    <3>1. o # 0
      BY <2>1
    <3>2. ~(1 \in 0 .. o - 1)
      BY <2>3
    <3> QED
      BY <3>1, <3>2
  <2>6. offset = 1
    BY <1>5, <2>3, <2>4, <2>5
  <2> QED
    BY <1>2, <1>4, <2>6
<1>8. Allocated \in Slots
  BY AllocatedIsFree
<1>9. (Allocated % Depth) + 1 = After(Allocated)
  <2> HIDE DEF Allocated
  <2>1. Depth \in Nat /\ Depth >= 2 /\ Allocated \in Nat /\ 1 =< Allocated /\ Allocated =< Depth
    BY <1>8, Counts DEF Slots
  <2> QED
    BY <2>1 DEF After
<1> QED
  BY <1>6, <1>7, <1>9

\* The new id comes first, the others move back by one and the oldest may go.
LEMMA NewestMoves ==
  ASSUME RecentTypes, NEW id \in Transactions, Remember(id)
  PROVE  /\ recent' \in Seq(Transactions) /\ Len(recent') \in Nat /\ Len(recent') < Depth
         /\ Len(recent') =< Len(recent) + 1
         /\ Len(recent') > 0 => Newest(recent', 1) = id
         /\ \A n \in 1 .. Len(recent') - 1 : Newest(recent', n + 1) = Newest(recent, n)
<1> DEFINE longer == Append(recent, id)
<1>1. /\ recent \in Seq(Transactions) /\ Len(recent) \in Nat /\ Len(recent) < Depth
      /\ Depth \in Nat /\ Depth >= 2
  BY Counts DEF RecentTypes
<1>2. /\ longer \in Seq(Transactions) /\ Len(longer) = Len(recent) + 1
      /\ longer[Len(recent) + 1] = id
      /\ \A n \in 1 .. Len(recent) : longer[n] = recent[n]
  BY <1>1
<1>3. recent' = IF Len(longer) < Depth THEN longer ELSE Tail(longer)
  BY DEF Remember
<1> HIDE DEF longer
<1>4. CASE Len(longer) < Depth
  BY <1>1, <1>2, <1>3, <1>4 DEF Newest
<1>5. CASE ~(Len(longer) < Depth)
  <2>1. /\ Tail(longer) \in Seq(Transactions) /\ Len(Tail(longer)) = Len(recent)
        /\ \A n \in 1 .. Len(recent) : Tail(longer)[n] = longer[n + 1]
    BY <1>1, <1>2
  <2>2. recent' = Tail(longer) /\ Len(recent') = Len(recent) /\ Len(recent) = Depth - 1
    BY <1>1, <1>2, <1>3, <1>5, <2>1
  <2>3. \A n \in 1 .. Len(recent) : recent'[n] = longer[n + 1]
    BY <2>1, <2>2
  <2>4. Newest(recent', 1) = id
    <3>1. Len(recent) \in 1 .. Len(recent)
      BY <1>1, <2>2
    <3>2. recent'[Len(recent)] = id
      BY <1>2, <2>3, <3>1
    <3>3. Len(recent') + 1 - 1 = Len(recent)
      BY <1>1, <2>2
    <3> QED
      BY <3>2, <3>3 DEF Newest
  <2>5. ASSUME NEW n \in 1 .. Len(recent') - 1
        PROVE  Newest(recent', n + 1) = Newest(recent, n)
    <3>1. /\ Len(recent) - n \in 1 .. Len(recent)
          /\ Len(recent) - n + 1 = Len(recent) + 1 - n
          /\ Len(recent) + 1 - n \in 1 .. Len(recent)
          /\ Len(recent') + 1 - (n + 1) = Len(recent) - n
      <4> DEFINE length == Len(recent)
      <4>1. length \in Nat /\ n \in Nat /\ 1 =< n /\ n =< length - 1 /\ Len(recent') = length
        BY <1>1, <2>2
      <4> HIDE DEF length
      <4>2. /\ length - n \in 1 .. length /\ length - n + 1 = length + 1 - n
            /\ length + 1 - n \in 1 .. length /\ length + 1 - (n + 1) = length - n
        BY <4>1
      <4> QED
        BY <4>1, <4>2 DEF length
    <3>2. recent'[Len(recent) - n] = recent[Len(recent) + 1 - n]
      BY <1>2, <2>3, <3>1
    <3> QED
      BY <3>1, <3>2 DEF Newest
  <2> QED
    BY <1>1, <2>1, <2>2, <2>4, <2>5
<1> QED
  BY <1>4, <1>5

\* A new transaction keeps the order, and leaves the gap where a save was
\* passed over, or moves it back with the others.
LEMMA AllocationKeepsOrder ==
  ASSUME IInv, RingOrder, NEW request \in Requests, NEW pending, NEW result,
         cache' = [cache EXCEPT ![Allocated] = Entry(request, pending, result)],
         cacheNext' = (Allocated % Depth) + 1,
         Remember(request.id)
  PROVE  RingOrder'
<1>1. CacheTypes /\ RecentTypes /\ PendingIsInFlight
  BY TypeParts DEF IInv
<1>2. /\ Allocated \in Slots /\ cacheNext' = After(Allocated)
      /\ Allocated = IF cache[cacheNext].pending THEN After(cacheNext) ELSE cacheNext
  BY <1>1, AllocatedIsFree, AllocatedIsNext
<1> HIDE DEF Allocated
<1>3. cacheNext \in Slots /\ cache \in [Slots -> {Blank} \cup Entries]
  BY <1>1 DEF CacheTypes
<1>4. request.id \in Transactions
  BY RequestAssumption
<1>5. /\ Len(recent) \in Nat /\ Len(recent) < Depth
      /\ Len(recent') \in Nat /\ Len(recent') < Depth /\ Len(recent') =< Len(recent) + 1
      /\ Len(recent') > 0 => Newest(recent', 1) = request.id
      /\ \A n \in 1 .. Len(recent') - 1 : Newest(recent', n + 1) = Newest(recent, n)
  BY <1>1, <1>4, NewestMoves DEF RecentTypes
<1>6. /\ cache'[Allocated] = Entry(request, pending, result)
      /\ \A i \in Slots : i # Allocated => cache'[i] = cache[i]
  BY <1>2, <1>3
<1>7. PICK gap \in 1 .. Depth : InOrder(gap) /\ GapIsPassed(gap)
  BY DEF RingOrder
<1>8. \A n \in 1 .. Len(recent) :
        LET i == Behind(cacheNext, Place(gap, n))
        IN  cache[i].valid /\ cache[i].request.id = Newest(recent, n)
  BY <1>7 DEF InOrder
<1>9. Behind(cacheNext', 1) = Allocated
  BY <1>2, BehindEnds
<1>10. cache'[Allocated].valid /\ cache'[Allocated].request.id = request.id
  BY <1>6 DEF Entry
<1>11. Depth \in Nat /\ Depth >= 2
  BY Counts
<1>12. CASE ~cache[cacheNext].pending
  <2> DEFINE next == IF gap < Depth THEN gap + 1 ELSE Depth
  <2>1. Allocated = cacheNext /\ next \in 1 .. Depth
    BY <1>2, <1>11, <1>12
  <2>2. \A k \in 1 .. Depth - 1 :
          /\ k \in 1 .. Depth /\ Behind(cacheNext, k) \in Slots
          /\ Behind(cacheNext', k + 1) = Behind(cacheNext, k)
          /\ Behind(cacheNext, k) # Allocated
    <3> SUFFICES ASSUME NEW k \in 1 .. Depth - 1
                 PROVE  /\ k \in 1 .. Depth /\ Behind(cacheNext, k) \in Slots
                        /\ Behind(cacheNext', k + 1) = Behind(cacheNext, k)
                        /\ Behind(cacheNext, k) # Allocated
      OBVIOUS
    <3>1. k \in 1 .. Depth /\ k < Depth /\ Depth \in 1 .. Depth /\ k # Depth
      BY <1>11
    <3>2. Behind(cacheNext, Depth) = cacheNext
      BY <1>3, BehindEnds
    <3> QED
      BY <1>2, <1>3, <2>1, <3>1, <3>2, BehindSlots
  <2>3. InOrder(next)'
    <3> SUFFICES ASSUME NEW n \in 1 .. Len(recent')
                 PROVE  LET i == Behind(cacheNext', Place(next, n))
                        IN  cache'[i].valid /\ cache'[i].request.id = Newest(recent', n)
      BY DEF InOrder
    <3>1. CASE n = 1
      <4>1. Place(next, n) = 1
        BY <1>7, <1>11, <3>1 DEF Place
      <4> QED
        BY <1>5, <1>9, <1>10, <3>1, <4>1
    <3>2. CASE n # 1
      <4>1. /\ n - 1 \in 1 .. Len(recent) /\ n - 1 \in 1 .. Len(recent') - 1
            /\ n - 1 + 1 = n
        BY <1>5, <3>2
      <4>2. Place(next, n) = Place(gap, n - 1) + 1 /\ Place(gap, n - 1) \in 1 .. Depth - 1
        BY <1>5, <1>7, <1>11, <3>2 DEF Place
      <4> DEFINE i == Behind(cacheNext, Place(gap, n - 1))
      <4>3. i = Behind(cacheNext', Place(next, n)) /\ cache'[i] = cache[i]
        BY <1>6, <2>2, <4>2
      <4>4. Newest(recent', n) = Newest(recent, n - 1)
        BY <1>5, <4>1
      <4> QED
        BY <1>8, <4>1, <4>3, <4>4
    <3> QED
      BY <3>1, <3>2
  <2>4. GapIsPassed(next)'
    <3> SUFFICES ASSUME NEW k \in 1 .. Depth, cache'[Behind(cacheNext', k)].pending
                 PROVE  k =< next
      BY DEF GapIsPassed
    <3>1. CASE k = 1
      BY <2>1, <3>1
    <3>2. CASE k # 1
      <4>1. k - 1 \in 1 .. Depth - 1 /\ k - 1 + 1 = k
        BY <1>11, <3>2
      <4>2. cache[Behind(cacheNext, k - 1)].pending
        BY <1>6, <2>2, <4>1
      <4>3. k - 1 =< gap
        BY <1>7, <4>1, <4>2, <2>2 DEF GapIsPassed
      <4> QED
        BY <1>7, <1>11, <4>3
    <3> QED
      BY <3>1, <3>2
  <2> QED
    BY <2>1, <2>3, <2>4 DEF RingOrder
<1>13. CASE cache[cacheNext].pending
  <2>1. gap = Depth
    <3>1. Behind(cacheNext, Depth) = cacheNext /\ Depth \in 1 .. Depth
      BY <1>3, <1>11, BehindEnds
    <3>2. Depth =< gap
      BY <1>7, <1>13, <3>1 DEF GapIsPassed
    <3> QED
      BY <1>7, <1>11, <3>2
  <2>2. Allocated = After(cacheNext) /\ cacheNext' = After(After(cacheNext))
    BY <1>2, <1>13
  <2>3. \A k \in 1 .. Depth - 2 :
          /\ k \in 1 .. Depth /\ Behind(cacheNext, k) \in Slots
          /\ Behind(cacheNext', k + 2) = Behind(cacheNext, k)
          /\ Behind(cacheNext, k) # Allocated
    <3> SUFFICES ASSUME NEW k \in 1 .. Depth - 2
                 PROVE  /\ k \in 1 .. Depth /\ Behind(cacheNext, k) \in Slots
                        /\ Behind(cacheNext', k + 2) = Behind(cacheNext, k)
                        /\ Behind(cacheNext, k) # Allocated
      OBVIOUS
    <3>1. k \in 1 .. Depth /\ k < Depth - 1 /\ Depth - 1 \in 1 .. Depth /\ k # Depth - 1
      BY <1>11
    <3>2. Behind(cacheNext, Depth - 1) = After(cacheNext)
      BY <1>3, BehindEnds
    <3> QED
      BY <1>3, <2>2, <3>1, <3>2, BehindSlots
  <2>4. \A i \in Slots : cache[i].pending => i = cacheNext
    BY <1>1, <1>3, <1>13 DEF PendingIsInFlight
  <2>5. InOrder(2)'
    <3> SUFFICES ASSUME NEW n \in 1 .. Len(recent')
                 PROVE  LET i == Behind(cacheNext', Place(2, n))
                        IN  cache'[i].valid /\ cache'[i].request.id = Newest(recent', n)
      BY DEF InOrder
    <3>1. CASE n = 1
      <4>1. Place(2, n) = 1
        BY <3>1 DEF Place
      <4> QED
        BY <1>5, <1>9, <1>10, <3>1, <4>1
    <3>2. CASE n # 1
      <4>1. /\ n - 1 \in 1 .. Len(recent) /\ n - 1 \in 1 .. Len(recent') - 1
            /\ n - 1 + 1 = n
        BY <1>5, <3>2
      <4>2. Place(2, n) = (n - 1) + 2 /\ Place(gap, n - 1) = n - 1 /\ n - 1 \in 1 .. Depth - 2
        BY <1>5, <1>11, <2>1, <3>2 DEF Place
      <4> DEFINE i == Behind(cacheNext, Place(gap, n - 1))
      <4>3. i = Behind(cacheNext', Place(2, n)) /\ cache'[i] = cache[i]
        BY <1>6, <2>3, <4>2
      <4>4. Newest(recent', n) = Newest(recent, n - 1)
        BY <1>5, <4>1
      <4> QED
        BY <1>8, <4>1, <4>3, <4>4
    <3> QED
      BY <3>1, <3>2
  <2>6. GapIsPassed(2)'
    <3> SUFFICES ASSUME NEW k \in 1 .. Depth, k > 2, cache'[Behind(cacheNext', k)].pending
                 PROVE  FALSE
      BY DEF GapIsPassed
    <3>1. k - 2 \in 1 .. Depth - 2 /\ k - 2 + 2 = k
      BY <1>11
    <3>2. cache[Behind(cacheNext, k - 2)].pending
      BY <1>6, <2>3, <3>1
    <3>3. Behind(cacheNext, k - 2) = Behind(cacheNext, Depth)
      BY <1>3, <2>3, <2>4, <3>1, <3>2, BehindEnds
    <3> QED
      BY <1>3, <1>11, <2>3, <3>1, <3>3, BehindSlots
  <2> QED
    BY <1>11, <2>5, <2>6 DEF RingOrder
<1> QED
  BY <1>12, <1>13

\* A transaction that is remembered is in the cache, so it is not taken for new.
LEMMA RecentIsCached ==
  ASSUME IInv, RingOrder, NEW n \in DOMAIN recent
  PROVE  \E i \in Slots : cache[i].valid /\ cache[i].request.id = recent[n]
<1>1. CacheTypes /\ RecentTypes
  BY TypeParts DEF IInv
<1>2. PICK gap \in 1 .. Depth : InOrder(gap)
  BY DEF RingOrder
<1> DEFINE m == Len(recent) + 1 - n
<1>3. /\ m \in 1 .. Len(recent) /\ Newest(recent, m) = recent[n]
      /\ Place(gap, m) \in 1 .. Depth
  <2>1. /\ Len(recent) \in Nat /\ Len(recent) < Depth /\ Depth \in Nat
        /\ n \in Nat /\ 1 =< n /\ n =< Len(recent)
    BY <1>1, Counts DEF RecentTypes
  <2>2. m \in 1 .. Len(recent) /\ Len(recent) + 1 - m = n
    BY <2>1
  <2>3. Place(gap, m) \in 1 .. Depth
    BY <2>1, <2>2 DEF Place
  <2> QED
    BY <2>2, <2>3 DEF Newest
<1> HIDE DEF m
<1>4. Behind(cacheNext, Place(gap, m)) \in Slots
  BY <1>1, <1>3, BehindSlots DEF CacheTypes
<1> QED
  BY <1>2, <1>3, <1>4 DEF InOrder

LEMMA RingStep == IInv /\ RingOrder /\ [Next]_vars => RingOrder'
<1> SUFFICES ASSUME IInv, RingOrder, [Next]_vars PROVE RingOrder'
  OBVIOUS
<1>1. ASSUME UNCHANGED <<cache, cacheNext, recent>> PROVE RingOrder'
  BY <1>1 DEF RingOrder, InOrder, GapIsPassed
<1>2. ASSUME NEW request \in Requests, HandleRequest(request) PROVE RingOrder'
  <2>1. CASE Conflict(request) \/ Duplicate(request)
    BY <1>1, <2>1 DEF Conflict, Duplicate, serviceVars
  <2>2. ASSUME NEW result, Answer(request, result) PROVE RingOrder'
    BY <2>2, AllocationKeepsOrder DEF Answer
  <2>3. CASE SaveAccepted(request)
    BY <2>3, AllocationKeepsOrder DEF SaveAccepted
  <2> QED
    BY <1>2, <2>1, <2>2, <2>3 DEF HandleRequest, Read, Edit, SaveRefused
<1>3. CASE HandleEvent
  <2>1. cacheNext' = cacheNext /\ recent' = recent
    BY <1>3 DEF HandleEvent
  <2>2. cacheNext \in Slots /\ CacheTypes /\ RecentTypes
    BY TypeParts DEF IInv, CacheTypes
  <2>3. \A i \in Slots : /\ cache[i].valid => cache'[i].valid
                         /\ cache[i].valid => cache'[i].request = cache[i].request
                         /\ cache'[i].pending => cache[i].pending
    <3>1. CASE cache' = cache
      BY <3>1
    <3>2. CASE cache' # cache
      <4>1. PICK result :
              cache' = [cache EXCEPT ![pendingSave]
                          = Entry(cache[pendingSave].request, FALSE, result)]
        BY <1>3, <3>2 DEF HandleEvent
      <4> QED
        BY <2>2, <4>1 DEF CacheTypes, Entry
    <3> QED
      BY <3>1, <3>2
  <2>4. PICK gap \in 1 .. Depth : InOrder(gap) /\ GapIsPassed(gap)
    BY DEF RingOrder
  <2>5. InOrder(gap)'
    <3>1. \A n \in 1 .. Len(recent) : Place(gap, n) \in 1 .. Depth
      BY <2>2, Counts DEF Place, RecentTypes
    <3>2. \A n \in 1 .. Len(recent) : Behind(cacheNext, Place(gap, n)) \in Slots
      BY <2>2, <3>1, BehindSlots
    <3> QED
      BY <2>1, <2>3, <2>4, <3>2 DEF InOrder
  <2>6. GapIsPassed(gap)'
    BY <2>1, <2>2, <2>3, <2>4, BehindSlots DEF GapIsPassed
  <2> QED
    BY <2>5, <2>6 DEF RingOrder
<1> QED
  BY <1>1, <1>2, <1>3 DEF Next, MainLoop, OtherEvent, OtherEdit, OtherSave, SaveEnds,
     Persist, SaveGoesOn, Radio, EndCommands, EndTasks, EndPass, serviceVars, vars

LEMMA RingInit == Init => RingOrder
<1> SUFFICES ASSUME Init PROVE InOrder(1) /\ GapIsPassed(1)
  BY Counts DEF RingOrder
<1>1. InOrder(1)
  BY DEF Init, InOrder
<1>2. cacheNext \in Slots /\ \A i \in Slots : ~cache[i].pending
  BY Counts DEF Init, Slots, Blank
<1>3. GapIsPassed(1)
  BY <1>2, BehindSlots DEF GapIsPassed
<1> QED
  BY <1>1, <1>3

LEMMA ExecutionStep ==
  ASSUME IInv, RingOrder, Next,
         NEW i \in Slots, cache'[i].valid, cache'[i].request # cache[i].request
  PROVE  LET id == cache'[i].request.id
         IN  /\ id \notin {recent[n] : n \in DOMAIN recent}
             /\ pendingSave # 0 => id # cache[pendingSave].request.id
<1>1. CacheTypes
  BY TypeParts DEF IInv
<1>2. ASSUME NEW request \in Requests, Known(request) = {}, NEW pending, NEW result,
             cache' = [cache EXCEPT ![Allocated] = Entry(request, pending, result)]
      PROVE  LET id == cache'[i].request.id
             IN  /\ id \notin {recent[n] : n \in DOMAIN recent}
                 /\ pendingSave # 0 => id # cache[pendingSave].request.id
  <2>1. cache'[i].request.id = request.id
    BY <1>1, <1>2 DEF CacheTypes, Entry
  <2>2. \A j \in Slots : cache[j].valid => cache[j].request.id # request.id
    BY <1>2 DEF Known
  <2>3. pendingSave # 0 => pendingSave \in Slots /\ cache[pendingSave].valid
    <3> SUFFICES ASSUME pendingSave # 0
                 PROVE  pendingSave \in Slots /\ cache[pendingSave].valid
      OBVIOUS
    <3>1. pendingSave \in Slots
      BY <1>1, Counts DEF CacheTypes, Slots
    <3>2. cache[pendingSave].pending
      BY <3>1 DEF IInv, PendingIsInFlight
    <3> QED
      <4>1. cache[pendingSave] \in {Blank} \cup Entries
        BY <1>1, <3>1 DEF CacheTypes
      <4>2. cache[pendingSave] # Blank
        BY <3>2 DEF Blank
      <4> QED
        BY <3>1, <4>1, <4>2 DEF Entries
  <2> QED
    BY <2>1, <2>2, <2>3, RecentIsCached
<1>3. CASE HandleEvent
  <2>1. CASE cache' = cache
    BY <2>1
  <2>2. CASE cache' # cache
    <3>1. PICK result :
            cache' = [cache EXCEPT ![pendingSave]
                        = Entry(cache[pendingSave].request, FALSE, result)]
      BY <1>3, <2>2 DEF HandleEvent
    <3>2. cache'[i].request = cache[i].request
      BY <1>1, <3>1 DEF CacheTypes, Entry
    <3> QED
      BY <3>2
  <2> QED
    BY <2>1, <2>2
<1>4. ASSUME NEW request \in Requests, HandleRequest(request)
      PROVE  LET id == cache'[i].request.id
             IN  /\ id \notin {recent[n] : n \in DOMAIN recent}
                 /\ pendingSave # 0 => id # cache[pendingSave].request.id
  BY <1>2, <1>4 DEF HandleRequest, Conflict, Duplicate, Answer, Read, Edit, SaveRefused,
     SaveAccepted, serviceVars
<1> QED
  BY <1>3, <1>4 DEF Next, MainLoop, OtherEvent, OtherEdit, OtherSave, SaveEnds,
     Persist, SaveGoesOn, Radio, EndCommands, EndTasks, EndPass, serviceVars

-----------------------------------------------------------------------------
(* The theorems.                                                           *)

\* The inductive invariant holds in every reachable state.
THEOREM Invariance == Spec => []IInv
BY InitInvariant, StepInvariant, PTL DEF Spec

\* Type correctness: the cache, the queues and the budgets stay within bounds,
\* and what the transport is given is an answer.
THEOREM TypeCorrect == Spec => []TypeOK
BY Invariance, PTL DEF IInv

\* A save that waits for its answer is in flight or has its event in the queue,
\* for any depth of the cache and the queues: no save is orphaned.
THEOREM PendingSafe == Spec => []PendingIsInFlight
BY Invariance, PTL DEF IInv

LEMMA AnswerStep ==
  ASSUME IInv, Next, pendingSave # 0, pendingSave' # pendingSave
  PROVE  events # <<>> /\ Head(events).by = cache[pendingSave].request.id
<1>1. ASSUME NEW request \in Requests, SaveAccepted(request)
      PROVE  FALSE
  BY <1>1 DEF IInv, PendingIsInFlight, OutcomeIsHandled, SaveAccepted, Dispatch, NoOperation
<1>2. CASE HandleEvent
  <2>1. /\ events # <<>> /\ Head(events).type \in SaveEvents
        /\ events \in Seq(Events)
    BY <1>2 DEF IInv, TypeOK, Events, HandleEvent, Answers
  <2>2. 1 \in DOMAIN events /\ Head(events) = events[1]
    BY <2>1
  <2> QED
    BY <2>1, <2>2 DEF IInv, OutcomeIsHandled
<1> QED
  BY <1>1, <1>2 DEF Next, MainLoop, HandleRequest, Conflict, Duplicate, Read, Edit,
     SaveRefused, Answer, Radio, EndCommands, OtherEvent, OtherEdit, OtherSave,
     EndTasks, SaveGoesOn, SaveEnds, Persist, EndPass, serviceVars

\* The pending save is answered with the outcome of its own operation.
THEOREM SaveAnswersOwn == Spec => SaveAnsweredByItsOwn
<1>1. IInv /\ [Next]_vars
        => [pendingSave # 0 /\ pendingSave' # pendingSave
              => /\ events # <<>>
                 /\ Head(events).by = cache[pendingSave].request.id]_vars
  BY AnswerStep
<1> QED
  BY Invariance, <1>1, PTL DEF Spec, SaveAnsweredByItsOwn
LEMMA RingInvariance == Spec => [](IInv /\ RingOrder)
BY InitInvariant, StepInvariant, RingInit, RingStep, PTL DEF Spec

\* A request is executed at most once while it is among the last Depth - 1 new
\* ones or its save is pending, whatever was lost or repeated.
THEOREM AtMostOnce == Spec => ExecutedOnce
<1>1. IInv /\ RingOrder /\ [Next]_vars
        => [\A i \in Slots : cache'[i].valid /\ cache'[i].request # cache[i].request
              => LET id == cache'[i].request.id
                 IN  /\ id \notin {recent[n] : n \in DOMAIN recent}
                     /\ pendingSave # 0 => id # cache[pendingSave].request.id]_vars
  BY ExecutionStep
<1> QED
  BY RingInvariance, <1>1, PTL DEF Spec, ExecutedOnce
=============================================================================
