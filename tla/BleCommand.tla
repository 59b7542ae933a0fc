----------------------------- MODULE BleCommand -----------------------------
(***************************************************************************)
(* Services/ble_command_service.c with what it meets in one pass of        *)
(* App_Run: the priority queue of ble_transport.c, the save operations of  *)
(* the persistence manager and the bounded event queue they report through.*)
(*                                                                         *)
(* A pass is: the radio sends at most one response, the service reads at   *)
(* most FramesPerRun requests, the periodic tasks run, the persistence     *)
(* manager runs, events are handled.  The phone may send any request at    *)
(* any time, so requests are lost, repeated and reordered at will.         *)
(***************************************************************************)
EXTENDS Integers, SequencesExt

CONSTANTS
  Transactions,   \* transaction ids
  Requests,       \* what the phone sends: an id and an operation
  Depth,          \* BLE_COMMAND_CACHE_DEPTH
  FramesPerRun,   \* BLE_COMMAND_FRAMES_PER_RUN
  PriorityDepth,  \* BLE_TRANSPORT_PRIORITY_QUEUE_DEPTH
  QueueCapacity,  \* EVENT_QUEUE_CAPACITY
  EventsPerRun,   \* APP_MAX_EVENTS_PER_RUN
  NoisePerRun     \* bound: events of other kinds pushed during one pass

Operations == {"READ", "EDIT", "SAVE"}

ASSUME RequestAssumption ==
  Requests \subseteq [id : Transactions, operation : Operations]
ASSUME DepthAssumption ==
  /\ Depth \in Nat /\ Depth >= 2
  /\ FramesPerRun \in Nat \ {0}
  /\ PriorityDepth \in Nat \ {0}

\* What one pass pushes is drained in that pass.
ASSUME EventBudget ==
  /\ {NoisePerRun, EventsPerRun, QueueCapacity} \subseteq Nat
  /\ NoisePerRun + 2 =< EventsPerRun
  /\ EventsPerRun =< QueueCapacity

VARIABLES
  cache,         \* s_cache
  cacheNext,     \* s_cache_next
  pendingSave,   \* s_pending_save_index; 0 when there is none
  priority,      \* the priority queue of the transport
  saving,        \* the persistence operation in flight
  dirty,         \* runtime.config_dirty
  events,        \* the event queue
  phase,         \* where App_Run is
  budget,        \* frames or events still allowed in this phase
  noise,         \* events of other kinds pushed in this pass
  recent         \* history: the last new transactions, newest last

serviceVars == <<cache, cacheNext, pendingSave>>
vars == <<serviceVars, priority, saving, dirty, events, phase, budget, noise, recent>>

NoRequest == [operation |-> "NONE"]
Blank == [valid |-> FALSE, pending |-> FALSE, request |-> NoRequest, result |-> "none"]
Results == {"OK", "REFUSED", "BUSY", "PERSISTENCE_FAILED", "CONFLICT"}
NoOperation == [kind |-> "NONE", by |-> "none"]
NoiseEvent == [type |-> "OTHER", by |-> "none"]
SaveEvents == {"COMPLETED", "NO_CHANGE", "FAILED"}
Responses == [request : Requests, result : Results]

Slots == 1 .. Depth

\* "by" tells whose save it is; no guard of the firmware reads it.
Actors == Transactions \cup {"other"}

TypeOK ==
  /\ cache \in [Slots -> {Blank} \cup
       [valid : {TRUE}, pending : BOOLEAN, request : Requests,
        result : Results \cup {"none"}]]
  /\ cacheNext \in Slots
  /\ pendingSave \in 0 .. Depth
  /\ priority \in Seq(Responses) /\ Len(priority) =< PriorityDepth
  /\ saving \in {NoOperation} \cup [kind : {"SAVE", "FACTORY_RESET"}, by : Actors]
  /\ dirty \in BOOLEAN
  /\ events \in Seq({NoiseEvent} \cup [type : SaveEvents \cup {"STARTED"}, by : Actors])
  /\ Len(events) =< QueueCapacity
  /\ phase \in {"RADIO", "COMMANDS", "TASKS", "PERSISTENCE", "EVENTS"}
  /\ budget \in 0 .. FramesPerRun + EventsPerRun
  /\ noise \in 0 .. NoisePerRun
  /\ recent \in Seq(Transactions) /\ Len(recent) < Depth

Init ==
  /\ cache = [i \in Slots |-> Blank]
  /\ cacheNext = 1 /\ pendingSave = 0
  /\ priority = <<>>
  /\ saving = NoOperation /\ dirty \in BOOLEAN
  /\ events = <<>>
  /\ phase = "RADIO" /\ budget = 0 /\ noise = 0
  /\ recent = <<>>

-----------------------------------------------------------------------------
(* Queues.                                                                 *)

\* EventQueue_Push: a full queue drops the event.
Pushed(queue, event) ==
  IF Len(queue) < QueueCapacity THEN Append(queue, event) ELSE queue

\* Mutant: a full queue is not noticed.
MutQueued(queue, request, result) == Append(queue, [request |-> request, result |-> result])

\* QueueResponse, over BleTransport_WritePriority.
Queued(queue, request, result) ==
  IF Len(queue) < PriorityDepth
  THEN Append(queue, [request |-> request, result |-> result])
  ELSE queue

-----------------------------------------------------------------------------
(* The transaction cache.                                                  *)

\* Mutant: an entry that waits for its save is not looked at.
MutKnown(request) ==
  {i \in Slots : cache[i].valid /\ ~cache[i].pending /\ cache[i].request.id = request.id}

\* FindCache: the entries with the transaction id of the request.
Known(request) == {i \in Slots : cache[i].valid /\ cache[i].request.id = request.id}

\* Mutant: the entry that waits for its save may be reused.
MutFree(offset) == offset \in 0 .. Depth - 1

\* Whether the slot so many places after s_cache_next may be reused.
Free(offset) == ~cache[((cacheNext - 1 + offset) % Depth) + 1].pending

\* AllocateCache: the next slot in turn that holds no pending save.  There is
\* one: only one save is pending at a time (PendingIsInFlight), and Depth is
\* at least 2.  That HandleRequest drops a request for want of a slot, which
\* would be a step that changes nothing but the budget, cannot happen.
CanAllocate == \E offset \in 0 .. Depth - 1 : Free(offset)
Allocated ==
  LET offset == CHOOSE o \in 0 .. Depth - 1 :
                  Free(o) /\ \A q \in 0 .. o - 1 : ~Free(q)
  IN  ((cacheNext - 1 + offset) % Depth) + 1

Entry(request, pending, result) ==
  [valid |-> TRUE, pending |-> pending, request |-> request, result |-> result]

Remember(id) ==
  LET longer == Append(recent, id)
  IN  recent' = IF Len(longer) < Depth THEN longer ELSE Tail(longer)

-----------------------------------------------------------------------------
(* HandleRequest.                                                          *)

Dispatch == phase = "COMMANDS" /\ budget > 0 /\ budget' = budget - 1

\* The id is cached for another operation.
Conflict(request) ==
  /\ Dispatch
  /\ \E i \in Known(request) : cache[i].request # request
  /\ priority' = Queued(priority, request, "CONFLICT")
  /\ UNCHANGED <<serviceVars, saving, dirty, events, phase, noise, recent>>

\* The same request again: the answer is repeated, once there is one.
Duplicate(request) ==
  /\ Dispatch
  /\ \E i \in Known(request) :
       /\ cache[i].request = request
       /\ priority' = IF cache[i].pending THEN priority
                      ELSE Queued(priority, request, cache[i].result)
  /\ UNCHANGED <<serviceVars, saving, dirty, events, phase, noise, recent>>

\* A new request that is answered at once.
Answer(request, result) ==
  /\ Dispatch
  /\ Known(request) = {} /\ CanAllocate
  /\ cache' = [cache EXCEPT ![Allocated] = Entry(request, FALSE, result)]
  /\ cacheNext' = (Allocated % Depth) + 1
  /\ priority' = Queued(priority, request, result)
  /\ Remember(request.id)
  /\ UNCHANGED <<pendingSave, saving, events, phase, noise>>

Read(request) ==
  request.operation = "READ" /\ Answer(request, "OK") /\ UNCHANGED dirty

\* A command that changes the configuration, or is refused.
Edit(request) ==
  /\ request.operation = "EDIT"
  /\ \/ Answer(request, "OK") /\ dirty' = TRUE
     \/ Answer(request, "REFUSED") /\ UNCHANGED dirty

\* A save that starts nothing: one is in flight, nothing is dirty, or power,
\* an open edit or the devices refuse it.
SaveRefused(request) ==
  /\ request.operation = "SAVE"
  /\ \/ saving # NoOperation /\ Answer(request, "BUSY")
     \/ saving = NoOperation /\ ~dirty /\ Answer(request, "OK")
     \/ saving = NoOperation /\ dirty /\ Answer(request, "REFUSED")
  /\ UNCHANGED dirty

\* A save that is accepted: the answer waits for its event.
SaveAccepted(request) ==
  /\ Dispatch
  /\ request.operation = "SAVE"
  /\ Known(request) = {} /\ CanAllocate
  /\ saving = NoOperation /\ dirty
  /\ cache' = [cache EXCEPT ![Allocated] = Entry(request, TRUE, "none")]
  /\ cacheNext' = (Allocated % Depth) + 1
  /\ pendingSave' = Allocated
  /\ saving' = [kind |-> "SAVE", by |-> request.id]
  /\ events' = Pushed(events, [type |-> "STARTED", by |-> request.id])
  /\ Remember(request.id)
  /\ UNCHANGED <<priority, dirty, phase, noise>>

HandleRequest(request) ==
  \/ Conflict(request) \/ Duplicate(request)
  \/ Read(request) \/ Edit(request)
  \/ SaveRefused(request) \/ SaveAccepted(request)

-----------------------------------------------------------------------------
(* The other steps of App_Run.                                             *)

\* BleTransport_Run: one response leaves, unless the module is still sending.
Radio ==
  /\ phase = "RADIO"
  /\ \/ priority # <<>> /\ priority' = Tail(priority)
     \/ UNCHANGED priority
  /\ phase' = "COMMANDS" /\ budget' = FramesPerRun /\ noise' = 0
  /\ UNCHANGED <<serviceVars, saving, dirty, events, recent>>

EndCommands ==
  /\ phase = "COMMANDS"
  /\ phase' = "TASKS" /\ budget' = 0
  /\ UNCHANGED <<serviceVars, priority, saving, dirty, events, noise, recent>>

\* Keys, Modbus and the measurement: other events, edits, saves and resets.
\* Modbus requests run before the BLE service, which the order of two passes
\* covers as well.
OtherEvent ==
  /\ phase = "TASKS" /\ noise < NoisePerRun
  /\ noise' = noise + 1
  /\ events' = Pushed(events, NoiseEvent)
  /\ UNCHANGED <<serviceVars, priority, saving, dirty, phase, budget, recent>>

OtherEdit ==
  /\ phase = "TASKS" /\ ~dirty
  /\ dirty' = TRUE
  /\ UNCHANGED <<serviceVars, priority, saving, events, phase, budget, noise, recent>>

OtherSave(kind) ==
  /\ phase = "TASKS" /\ saving = NoOperation
  /\ kind = "SAVE" => dirty
  /\ saving' = [kind |-> kind, by |-> "other"]
  /\ events' = Pushed(events, IF kind = "SAVE" THEN [type |-> "STARTED", by |-> "other"]
                              ELSE NoiseEvent)
  /\ UNCHANGED <<serviceVars, priority, dirty, phase, budget, noise, recent>>

EndTasks ==
  /\ phase = "TASKS"
  /\ phase' = "PERSISTENCE"
  /\ UNCHANGED <<serviceVars, priority, saving, dirty, events, budget, noise, recent>>

\* PersistenceManager_Process: the operation goes on, or it ends.
Persist ==
  /\ phase = "PERSISTENCE"
  /\ phase' = "EVENTS" /\ budget' = EventsPerRun
  /\ UNCHANGED <<serviceVars, priority, noise, recent>>

SaveGoesOn == Persist /\ UNCHANGED <<saving, dirty, events>>

SaveEnds ==
  /\ Persist
  /\ saving # NoOperation
  /\ saving' = NoOperation
  /\ \E type \in SaveEvents :
       /\ dirty' \in IF type = "FAILED" THEN {TRUE} ELSE BOOLEAN
       /\ events' = Pushed(events, IF saving.kind = "SAVE"
                                   THEN [type |-> type, by |-> saving.by]
                                   ELSE NoiseEvent)

\* Mutant: only a completed save is answered.
MutAnswers(event) == event.type = "COMPLETED"

\* BleCommandService_HandleEvent: which events answer the pending save.
Answers(event) == event.type \in SaveEvents

HandleEvent ==
  /\ phase = "EVENTS" /\ budget > 0 /\ events # <<>>
  /\ budget' = budget - 1
  /\ events' = Tail(events)
  /\ IF pendingSave # 0 /\ Answers(Head(events))
     THEN LET result == IF Head(events).type = "FAILED"
                        THEN "PERSISTENCE_FAILED" ELSE "OK"
              request == cache[pendingSave].request
          IN  /\ cache' = [cache EXCEPT ![pendingSave] = Entry(request, FALSE, result)]
              /\ priority' = Queued(priority, request, result)
              /\ pendingSave' = 0
     ELSE UNCHANGED <<cache, pendingSave, priority>>
  /\ UNCHANGED <<cacheNext, saving, dirty, phase, noise, recent>>

\* Mutant: one event fewer is handled.
MutDrained == budget =< 1 \/ events = <<>>

Drained == budget = 0 \/ events = <<>>

EndPass ==
  /\ phase = "EVENTS" /\ Drained
  /\ phase' = "RADIO" /\ budget' = 0
  /\ UNCHANGED <<serviceVars, priority, saving, dirty, events, noise, recent>>

MainLoop == Radio \/ EndCommands \/ EndTasks \/ SaveGoesOn \/ HandleEvent \/ EndPass

Next ==
  \/ \E request \in Requests : HandleRequest(request)
  \/ OtherEvent \/ OtherEdit
  \/ \E kind \in {"SAVE", "FACTORY_RESET"} : OtherSave(kind)
  \/ SaveEnds
  \/ MainLoop

Spec == Init /\ [][Next]_vars

\* The loop never stops, and an operation that is given a step for ever ends
\* (Persistence!OperationEnds).
FairSpec == Spec /\ WF_vars(MainLoop) /\ SF_vars(SaveEnds)

-----------------------------------------------------------------------------
(* Properties.                                                             *)

\* A save that waits for its answer is the one in flight or has its event in
\* the queue, and no other entry waits: none is ever orphaned in the cache.
PendingIsInFlight ==
  /\ \A i \in Slots : cache[i].pending <=> i = pendingSave
  /\ pendingSave # 0 =>
       LET own == cache[pendingSave].request.id
       IN  \/ saving = [kind |-> "SAVE", by |-> own]
           \/ \E n \in DOMAIN events : /\ events[n].type \in SaveEvents
                                       /\ events[n].by = own

\* A request is executed at most once while it is among the last Depth - 1
\* new ones or its save is pending, however often the phone repeats it and
\* whatever answers were lost.
ExecutedOnce ==
  [][\A i \in Slots : cache'[i].valid /\ cache'[i].request # cache[i].request
       => LET id == cache'[i].request.id
          IN  /\ id \notin {recent[n] : n \in DOMAIN recent}
              /\ pendingSave # 0 => id # cache[pendingSave].request.id]_vars

\* The pending save is answered with the outcome of its own operation, never
\* with that of a save the keys or Modbus started.
SaveAnsweredByItsOwn ==
  [][pendingSave # 0 /\ pendingSave' # pendingSave
       => /\ events # <<>>
          /\ Head(events).by = cache[pendingSave].request.id]_vars

\* An accepted save is answered in the end, also when it failed.
SaveIsAnswered == (pendingSave # 0) ~> (pendingSave = 0)
=============================================================================
