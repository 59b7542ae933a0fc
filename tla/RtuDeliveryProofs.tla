-------------------------- MODULE RtuDeliveryProofs --------------------------
(***************************************************************************)
(* Proofs about RtuReceiver: a silence brings the receiver to rest, and a  *)
(* frame that is sent as it should be is received, however far behind the  *)
(* main loop is.                                                           *)
(***************************************************************************)
EXTENDS RtuReceiverProofs

-----------------------------------------------------------------------------
(* What is left to be done in a silence, and how long it takes.            *)

\* The idle events of both queues, and the last one.
Backlog == Len(idles) + Len(idleQueue)
LastEvent == IF idleQueue = <<>> THEN idles[Len(idles)] ELSE idleQueue[Len(idleQueue)]

\* Ticks until the pass under way is over, or the next one; until one that
\* handles an idle event is; and until one that takes an expiry of the timer.
ToPass == IF phase = "TRANSPORT" THEN Pass - wait ELSE MaxInside - wait
ToEvent == IF phase = "TRANSPORT" \/ (phase = "FRAMER" /\ idles # <<>>) THEN ToPass
                                                                        ELSE ToPass + Pass
ToTimer == IF elapsed THEN ToPass ELSE timer + Pass
ToRest == IF state = "WAIT_T1_5" THEN ToTimer + (T3_5 - T1_5) + Pass ELSE ToTimer

\* Idle events wait, a pass for each, and then T3.5 may have to be waited for.
Backlogged ==
  /\ Backlog >= 1 /\ LastEvent.position = Position
  /\ silence + ToEvent + Backlog * Pass + (T3_5 - CharacterTime) + Pass < Quiet

\* All were handled, and T3.5 is waited for at most.
Settling ==
  /\ Backlog = 0 /\ consumer = Position /\ producer = Position /\ state # "RECEIVING"
  /\ state \in Waits \cup {"DISCARD"} => mark = producer
  /\ state \in {"WAITING", "FRAME_READY"} \/ silence + ToRest < Quiet

InSilence == receiving = 0 /\ silence >= CharacterTime /\ ~spoiled
SettleInv == InSilence => Backlogged \/ Settling

LEMMA BacklogFacts ==
  ASSUME Inv1
  PROVE  /\ Len(idles) \in Nat /\ Len(idleQueue) \in Nat /\ Backlog \in Nat
         /\ Backlog = 0 <=> idles = <<>> /\ idleQueue = <<>>
         /\ idles = <<>> <=> Len(idles) = 0
         /\ idleQueue = <<>> <=> Len(idleQueue) = 0
<1>1. /\ idles \in Seq(Events(Arrived)) /\ idleQueue \in Seq(Events(Arrived))
  BY TypeParts DEF Inv1, QueueTypes
<1>2. /\ Len(idles) \in Nat /\ Len(idleQueue) \in Nat
      /\ idles = <<>> <=> Len(idles) = 0
      /\ idleQueue = <<>> <=> Len(idleQueue) = 0
  <2>1. /\ Len(idles) \in Nat /\ (idles # <<>> => Len(idles) > 0) /\ (idles = <<>> => Len(idles) = 0)
    BY <1>1, SeqFacts
  <2>2. /\ Len(idleQueue) \in Nat /\ (idleQueue # <<>> => Len(idleQueue) > 0)
        /\ (idleQueue = <<>> => Len(idleQueue) = 0)
    BY <1>1, SeqFacts
  <2> QED
    BY <2>1, <2>2
<1> QED
  BY <1>2 DEF Backlog

\* The numbers of a state, and of the next one.
LEMMA DelayFacts ==
  ASSUME Inv1
  PROVE  /\ ToPass \in Nat /\ ToEvent \in Nat /\ ToTimer \in Nat /\ ToRest \in Nat
         /\ ToPass =< Pass /\ ToPass =< ToEvent /\ ToEvent =< ToPass + Pass
         /\ phase \in {"TRANSPORT", "FRAMER", "TIMER"}
<1>1. /\ phase \in {"TRANSPORT", "FRAMER", "TIMER"} /\ wait \in Nat /\ timer \in Nat
      /\ InPass => wait =< MaxInside
      /\ ~InPass => wait =< MaxPass
  BY Numbers, TypeParts DEF Inv1, PhaseTypes
<1>2. /\ MaxPass \in Nat /\ MaxInside \in Nat /\ Pass = MaxPass + MaxInside /\ Pass \in Nat
      /\ T1_5 \in Nat /\ T3_5 \in Nat /\ T1_5 < T3_5
  BY ConstantFacts
<1>3. ToPass \in Nat /\ ToPass =< Pass
  <2>1. CASE phase = "TRANSPORT"
    <3>1. ToPass = Pass - wait /\ wait =< MaxPass
      BY <1>1, <2>1 DEF ToPass, InPass
    <3> QED
      BY <1>1, <1>2, <3>1
  <2>2. CASE phase # "TRANSPORT"
    <3>1. ToPass = MaxInside - wait /\ wait =< MaxInside
      BY <1>1, <2>2 DEF ToPass, InPass
    <3> QED
      BY <1>1, <1>2, <3>1
  <2> QED
    BY <2>1, <2>2
<1>4. ToEvent \in Nat /\ ToPass =< ToEvent /\ ToEvent =< ToPass + Pass
  BY <1>2, <1>3 DEF ToEvent
<1>5. ToTimer \in Nat
  BY <1>1, <1>2, <1>3 DEF ToTimer
<1>6. ToRest \in Nat
  BY <1>2, <1>5 DEF ToRest
<1> QED
  BY <1>1, <1>3, <1>4, <1>5, <1>6

LEMMA ConstantsStay ==
  /\ Pass' = Pass /\ Quiet' = Quiet /\ Quiet = T3_5 + (2 * IdleDepth + 3) * Pass
  /\ Pass \in Nat /\ Pass > 0 /\ Pass = MaxPass + MaxInside /\ MaxInside \in Nat /\ MaxPass \in Nat
  /\ T3_5 - CharacterTime \in Nat /\ Quiet \in Nat /\ CharacterTime \in Nat /\ T3_5 \in Nat
  /\ T1_5 \in Nat /\ 0 < CharacterTime /\ CharacterTime < T1_5 /\ T1_5 < T3_5 /\ T3_5 =< Quiet
BY ConstantFacts DEF Pass, Quiet

\* Each invariant of the next state, put together from its numbers.
LEMMA BackloggedFrom ==
  ASSUME NEW n \in Nat, NEW s \in Nat, NEW h \in Nat, NEW p, n >= 1,
         Backlog' = n, silence' = s, ToEvent' = h,
         LastEvent'.position = p, Position' = p,
         s + h + n * Pass + (T3_5 - CharacterTime) + Pass < Quiet
  PROVE  Backlogged'
BY ConstantsStay DEF Backlogged

LEMMA SettlingFrom ==
  ASSUME NEW s \in Nat, NEW h \in Nat, NEW p,
         Backlog' = 0, consumer' = p, producer' = p, Position' = p, silence' = s,
         state' # "RECEIVING", state' \in Waits \cup {"DISCARD"} => mark' = p,
         state' \in {"WAITING", "FRAME_READY"} \/ (ToRest' = h /\ s + h < Quiet)
  PROVE  Settling'
BY ConstantsStay DEF Settling, Waits

\* One event less takes a pass less.
LEMMA PassesLess ==
  ASSUME NEW n \in Nat, n >= 1
  PROVE  /\ (n - 1) * Pass \in Nat /\ n * Pass \in Nat /\ n * Pass = (n - 1) * Pass + Pass
<1>1. PICK p \in Nat : p = Pass
  BY ConstantsStay
<1>2. PICK m \in Nat : m = n - 1 /\ n = m + 1
  OBVIOUS
<1>3. (m + 1) * p = m * p + p /\ m * p \in Nat
  OBVIOUS
<1> QED
  BY <1>1, <1>2, <1>3

LEMMA PassesMost ==
  ASSUME NEW n \in Nat, n =< 2 * IdleDepth
  PROVE  n * Pass \in Nat /\ n * Pass + Pass + Pass + Pass + T3_5 =< Quiet
<1>1. PICK p \in Nat : p = Pass
  BY ConstantsStay
<1>2. PICK d \in Nat : d = 2 * IdleDepth
  BY ConstantFacts
<1>3. PICK k \in Nat : d = n + k
  <2>1. d - n \in Nat /\ d = n + (d - n)
    BY <1>2
  <2> QED
    BY <2>1
<1>4. n * p \in Nat /\ k * p \in Nat /\ (n + k + 3) * p = n * p + k * p + p + p + p
  OBVIOUS
<1>5. Quiet = T3_5 + (d + 3) * p
  BY <1>1, <1>2, ConstantsStay
<1>6. (d + 3) * p = n * p + k * p + p + p + p
  BY <1>3, <1>4
<1> QED
  BY <1>1, <1>4, <1>5, <1>6, ConstantsStay

\* The line, but when time goes on or a byte begins.
LEMMA LineHeld ==
  ASSUME [Next]_vars, ~Tick, ~StartByte
  PROVE  UNCHANGED <<receiving, silence, gaps>>
BY DEF Next, Disturb, Sample, Restart, RestartFails, EndTransport, ReceiveError, ReadByte, HandleIdle,
   NoIdle, HandleTimer, Take, InFramer, lineVars, vars

\* A byte ends, or the silence goes on.
LEMMA SilenceTick ==
  ASSUME Inv2, Tick, InSilence'
  PROVE  /\ ~spoiled /\ ~stopped /\ ~(Idle /\ Full) /\ receiving = 0 /\ ~(receiving > 0)
         /\ \/ Idle /\ silence' = CharacterTime /\ silence < CharacterTime
            \/ ~Idle /\ InSilence /\ silence' =< silence + 1
         /\ UNCHANGED <<origin, gaps>> /\ Position' = Position
<1>1. Inv1 /\ ErrorInv /\ spoiled \in BOOLEAN
  BY TypeParts DEF Inv2, Inv1, HistoryTypes
<1>2. ~spoiled /\ ~(Idle /\ Full)
  <2>1. spoiled' = (spoiled \/ (Idle /\ Full)) /\ ~spoiled'
    BY DEF Tick, InSilence
  <2> QED
    BY <1>1, <2>1
<1>3. ~stopped
  BY <1>1, <1>2 DEF ErrorInv
<1>4. /\ receiving \in 0 .. CharacterTime /\ silence \in Nat
  BY <1>1, Numbers DEF LineTypes
<1>5. receiving = 0
  <2> SUFFICES ASSUME receiving # 0 PROVE FALSE
    OBVIOUS
  <2>1. receiving > 0
    BY <1>4, ConstantsStay
  <2>2. receiving' = receiving - 1 /\ silence' = (IF receiving = 1 THEN 0 ELSE silence)
    BY <2>1 DEF Tick
  <2>3. receiving' = 0 /\ silence' >= CharacterTime
    BY DEF InSilence
  <2>4. receiving = 1
    <3>1. receiving - 1 = 0
      BY <2>2, <2>3
    <3> QED
      BY <1>4, <3>1, ConstantsStay
  <2>5. silence' = 0
    BY <2>2, <2>4
  <2> QED
    BY <2>3, <2>5, ConstantsStay
<1>6. ~(receiving > 0) /\ silence' = Capped(silence + 1, Quiet) /\ receiving' = 0
  <2>1. ~(receiving > 0)
    BY <1>5
  <2> QED
    BY <1>5, <2>1 DEF Tick
<1>7. origin' = origin /\ gaps' = gaps
  BY <1>1, <1>3, TickFacts
<1>8. Position' = Position
  BY <1>6, <1>7 DEF Position, Arrived
<1>9. silence' = (IF silence + 1 < Quiet THEN silence + 1 ELSE Quiet) /\ silence' >= CharacterTime
  BY <1>6 DEF Capped, InSilence
<1>10. CASE Idle
  <2>1. silence + 1 = CharacterTime
    BY <1>10 DEF Idle
  <2>2. silence' = CharacterTime /\ silence < CharacterTime
    BY <1>4, <1>9, <2>1, ConstantsStay
  <2> QED
    BY <1>2, <1>3, <1>5, <1>6, <1>7, <1>8, <1>10, <2>2
<1>11. CASE ~Idle
  <2>1. silence + 1 # CharacterTime
    BY <1>5, <1>11 DEF Idle
  <2>2. silence >= CharacterTime
    BY <1>4, <1>9, <2>1, ConstantsStay
  <2>3. silence' =< silence + 1
    BY <1>4, <1>9, ConstantsStay
  <2> QED
    BY <1>2, <1>3, <1>5, <1>6, <1>7, <1>8, <1>11, <2>2, <2>3 DEF InSilence
<1> QED
  BY <1>10, <1>11

LEMMA BacklogTick ==
  ASSUME Inv1, Tick, ~(Idle /\ Full)
  PROVE  /\ ~Idle => Backlog' = Backlog /\ (idles' = <<>> <=> idles = <<>>)
         /\ ~Idle /\ Backlog >= 1 => LastEvent'.position = LastEvent.position
         /\ Idle => /\ Backlog' = Backlog + 1 /\ Backlog + 1 =< 2 * IdleDepth
                    /\ LastEvent'.position = Position
<1>1. /\ Len(idles) \in Nat /\ Len(idleQueue) \in Nat /\ Backlog \in Nat
      /\ Backlog = Len(idles) + Len(idleQueue)
      /\ idles = <<>> <=> Len(idles) = 0
      /\ idleQueue = <<>> <=> Len(idleQueue) = 0
      /\ Len(idles) =< IdleDepth /\ Len(idleQueue) =< IdleDepth /\ IdleDepth \in Nat
  BY BacklogFacts, TypeParts, ConstantFacts DEF Inv1, QueueTypes, Backlog
<1>2. /\ Len(idles') = Len(idles)
      /\ \A n \in 1 .. Len(idles) : idles'[n].position = idles[n].position
      /\ Len(idleQueue') = Len(idleQueue) + (IF Idle /\ ~Full THEN 1 ELSE 0)
      /\ \A n \in 1 .. Len(idleQueue) : idleQueue'[n].position = idleQueue[n].position
      /\ Idle /\ ~Full => idleQueue'[Len(idleQueue) + 1] = [position |-> Position, age |-> 0]
  BY QueueTick
<1>3. /\ idles' = <<>> <=> Len(idles') = 0
      /\ idleQueue' = <<>> <=> Len(idleQueue') = 0
  <2>1. idles' \in Seq(Events(Arrived)) /\ idleQueue' \in Seq(Events(Arrived))
    BY QueueTick
  <2>2. (idles' # <<>> => Len(idles') > 0) /\ (idles' = <<>> => Len(idles') = 0)
    BY <2>1, SeqFacts
  <2>3. (idleQueue' # <<>> => Len(idleQueue') > 0) /\ (idleQueue' = <<>> => Len(idleQueue') = 0)
    BY <2>1, SeqFacts
  <2> QED
    BY <2>2, <2>3
<1>4. CASE ~Idle
  <2>1. Len(idleQueue') = Len(idleQueue)
    BY <1>1, <1>2, <1>4
  <2>2. Backlog' = Backlog /\ (idles' = <<>> <=> idles = <<>>)
        /\ (idleQueue' = <<>> <=> idleQueue = <<>>)
    BY <1>1, <1>2, <1>3, <2>1 DEF Backlog
  <2>3. ASSUME Backlog >= 1 PROVE LastEvent'.position = LastEvent.position
    <3>1. CASE idleQueue = <<>>
      <4>1. Len(idles) \in 1 .. Len(idles)
        BY <1>1, <2>3, <3>1
      <4>2. LastEvent' = idles'[Len(idles)] /\ LastEvent = idles[Len(idles)]
        BY <1>2, <2>2, <3>1 DEF LastEvent
      <4> QED
        BY <1>2, <4>1, <4>2
    <3>2. CASE idleQueue # <<>>
      <4>1. Len(idleQueue) \in 1 .. Len(idleQueue)
        BY <1>1, <3>2
      <4>2. LastEvent' = idleQueue'[Len(idleQueue)] /\ LastEvent = idleQueue[Len(idleQueue)]
        BY <2>1, <2>2, <3>2 DEF LastEvent
      <4> QED
        BY <1>2, <4>1, <4>2
    <3> QED
      BY <3>1, <3>2
  <2> QED
    BY <1>4, <2>2, <2>3
<1>5. CASE Idle /\ ~Full
  <2>1. Len(idleQueue') = Len(idleQueue) + 1
    BY <1>1, <1>2, <1>5
  <2>2. Len(idleQueue) # IdleDepth
    BY <1>5 DEF Full
  <2>3. Backlog' = Backlog + 1 /\ Backlog + 1 =< 2 * IdleDepth
    <3>1. Backlog' = Len(idles) + (Len(idleQueue) + 1)
      BY <1>2, <2>1 DEF Backlog
    <3> QED
      BY <1>1, <2>2, <3>1
  <2>4. idleQueue' # <<>>
    BY <1>1, <1>3, <2>1
  <2>5. LastEvent' = [position |-> Position, age |-> 0]
    BY <1>2, <1>5, <2>1, <2>4 DEF LastEvent
  <2>6. LastEvent'.position = Position
    BY <2>5
  <2> QED
    BY <1>5, <2>3, <2>6
<1> QED
  BY <1>4, <1>5

LEMMA SettleTick ==
  ASSUME Inv2, SettleInv, Tick, InSilence'
  PROVE  Backlogged' \/ Settling'
<1>1. /\ Inv1 /\ TimedInv /\ ToPass \in Nat /\ ToEvent \in Nat /\ ToTimer \in Nat /\ ToRest \in Nat
      /\ phase \in {"TRANSPORT", "FRAMER", "TIMER"} /\ Backlog \in Nat
      /\ wait \in Nat /\ timer \in Nat /\ silence \in Nat /\ elapsed \in BOOLEAN
      /\ InPass => wait + 1 =< MaxInside
      /\ ~InPass => wait + 1 =< MaxPass
  BY DelayFacts, BacklogFacts, Numbers, TickFacts, TypeParts DEF Inv2, Inv1, TimerTypes
<1>2. /\ ~spoiled /\ ~stopped /\ ~(Idle /\ Full) /\ Position' = Position
      /\ \/ Idle /\ silence' = CharacterTime
         \/ ~Idle /\ InSilence /\ silence' =< silence + 1
  BY SilenceTick
<1>3. /\ UNCHANGED <<phase, producer, consumer, state, mark>> /\ wait' = wait + 1
  BY <1>1, TickFacts
<1>4. PICK p : p = Position
  OBVIOUS
<1>5. PICK q \in Nat : ToPass' = q /\ q + 1 = ToPass
  <2>1. CASE phase = "TRANSPORT"
    <3>1. ToPass = Pass - wait /\ ToPass' = Pass - (wait + 1) /\ wait + 1 =< MaxPass
      BY <1>1, <1>3, <2>1, ConstantsStay DEF ToPass, InPass
    <3>2. Pass - (wait + 1) \in Nat /\ Pass - (wait + 1) + 1 = Pass - wait
      BY <1>1, <3>1, ConstantsStay
    <3> QED
      BY <3>1, <3>2
  <2>2. CASE phase # "TRANSPORT"
    <3>1. ToPass = MaxInside - wait /\ ToPass' = MaxInside - (wait + 1) /\ wait + 1 =< MaxInside
      BY <1>1, <1>3, <2>2, ConstantsStay DEF ToPass, InPass
    <3>2. MaxInside - (wait + 1) \in Nat /\ MaxInside - (wait + 1) + 1 = MaxInside - wait
      BY <1>1, <3>1, ConstantsStay
    <3> QED
      BY <3>1, <3>2
  <2> QED
    BY <2>1, <2>2
<1>6. CASE Idle
  <2>1. PICK n \in Nat : n = Backlog + 1 /\ Backlog' = n /\ n >= 1 /\ n =< 2 * IdleDepth
    BY <1>1, <1>2, <1>6, BacklogTick
  <2>2. PICK h \in Nat : ToEvent' = h /\ h =< q + Pass
    <3>1. ToEvent' = q \/ ToEvent' = q + Pass
      BY <1>5, ConstantsStay DEF ToEvent
    <3> QED
      BY <1>5, <3>1, ConstantsStay
  <2>3. q + 1 =< Pass
    BY <1>1, <1>5, DelayFacts
  <2>4. CharacterTime + h + n * Pass + (T3_5 - CharacterTime) + Pass < Quiet
    <3>1. PICK m \in Nat : m = n * Pass /\ m + Pass + Pass + Pass + T3_5 =< Quiet
      BY <2>1, PassesMost
    <3>2. CharacterTime + h + m + (T3_5 - CharacterTime) + Pass < Quiet
      BY <2>2, <2>3, <3>1, ConstantsStay
    <3> QED
      BY <3>1, <3>2
  <2>5. silence' = CharacterTime
    BY <1>2, <1>6
  <2>6. LastEvent'.position = p
    BY <1>1, <1>2, <1>4, <1>6, BacklogTick
  <2> QED
    BY <1>2, <1>4, <2>1, <2>2, <2>4, <2>5, <2>6, ConstantsStay, BackloggedFrom
<1>7. CASE ~Idle
  <2>1. PICK s \in Nat : silence' = s /\ s =< silence + 1
    <3>1. silence' \in Nat
      <4>1. LineTypes /\ receiving = 0
        BY <1>1, Numbers, SilenceTick
      <4>2. silence' = Capped(silence + 1, Quiet)
        BY <4>1 DEF Tick
      <4> QED
        BY <1>1, <4>2, ConstantsStay DEF Capped
    <3> QED
      BY <1>2, <1>7, <3>1
  <2>2. Backlogged \/ Settling
    BY <1>2, <1>7 DEF SettleInv
  <2>3. /\ Backlog' = Backlog /\ (idles' = <<>> <=> idles = <<>>)
        /\ Backlog >= 1 => LastEvent'.position = LastEvent.position
    BY <1>1, <1>2, <1>7, BacklogTick
  <2>4. CASE Backlogged
    <3>1. PICK n \in Nat : n = Backlog /\ n >= 1
      BY <1>1, <2>4 DEF Backlogged
    <3>2. PICK m \in Nat : m = n * Pass
      BY <3>1, PassesLess
    <3>3. PICK h \in Nat : ToEvent' = h /\ h + 1 = ToEvent
      <4>1. CASE phase = "TRANSPORT" \/ (phase = "FRAMER" /\ idles # <<>>)
        <5>1. ToEvent = ToPass /\ ToEvent' = q
          BY <1>3, <1>5, <2>3, <4>1 DEF ToEvent
        <5> QED
          BY <1>5, <5>1
      <4>2. CASE ~(phase = "TRANSPORT" \/ (phase = "FRAMER" /\ idles # <<>>))
        <5>1. ToEvent = ToPass + Pass /\ ToEvent' = q + Pass
          BY <1>3, <1>5, <2>3, <4>2, ConstantsStay DEF ToEvent
        <5> QED
          BY <1>1, <1>5, <5>1, ConstantsStay
      <4> QED
        BY <4>1, <4>2
    <3>4. silence + ToEvent + m + (T3_5 - CharacterTime) + Pass < Quiet
      BY <2>4, <3>1, <3>2 DEF Backlogged
    <3>5. s + h + m + (T3_5 - CharacterTime) + Pass < Quiet
      BY <1>1, <2>1, <3>3, <3>4, ConstantsStay
    <3>6. LastEvent'.position = p
      BY <1>4, <2>3, <2>4 DEF Backlogged
    <3>7. Backlog' = n /\ Position' = p
      BY <1>2, <1>4, <2>3, <3>1
    <3>8. s + h + n * Pass + (T3_5 - CharacterTime) + Pass < Quiet
      BY <3>2, <3>5
    <3> QED
      BY <2>1, <3>1, <3>3, <3>6, <3>7, <3>8, BackloggedFrom
  <2>5. CASE Settling
    <3>1. /\ Backlog' = 0 /\ consumer' = p /\ producer' = p /\ Position' = p
          /\ state' # "RECEIVING"
          /\ state' \in Waits \cup {"DISCARD"} => mark' = p
      BY <1>2, <1>3, <1>4, <2>3, <2>5 DEF Settling
    <3>2. CASE state \in {"WAITING", "FRAME_READY"}
      BY <1>3, <2>1, <3>1, <3>2, ConstantsStay, SettlingFrom
    <3>3. CASE state \notin {"WAITING", "FRAME_READY"}
      <4>1. silence + ToRest < Quiet
        BY <2>5, <3>3 DEF Settling
      <4>2. elapsed <=> timer = 0
        <5>1. state \in Waits \cup {"DISCARD"}
          <6>1. state \in FramerStates
            BY <1>1, TypeParts DEF Inv1, FramerTypes
          <6> QED
            BY <2>5, <3>3, <6>1 DEF Settling, FramerStates, Waits
        <5> QED
          BY <1>1, <5>1 DEF TimedInv
      <4>3. PICK t \in Nat : ToTimer' = t /\ t + 1 =< ToTimer
        <5>1. CASE elapsed
          <6>1. elapsed' /\ ToTimer = ToPass
            BY <5>1 DEF Tick, ToTimer
          <6>2. ToTimer' = q
            BY <1>5, <6>1 DEF ToTimer
          <6> QED
            BY <1>5, <6>1, <6>2
        <5>2. CASE ~elapsed /\ timer = 1
          <6>1. elapsed' /\ ToTimer = timer + Pass
            BY <5>2 DEF Tick, ToTimer
          <6>2. ToTimer' = q
            BY <1>5, <6>1 DEF ToTimer
          <6>3. q + 1 =< Pass
            BY <1>1, <1>5, DelayFacts
          <6> QED
            BY <1>5, <5>2, <6>1, <6>2, <6>3, ConstantsStay
        <5>3. CASE ~elapsed /\ timer # 1
          <6>1. timer > 1
            BY <1>1, <4>2, <5>3
          <6>2. ToTimer = timer + Pass
            BY <5>3 DEF ToTimer
          <6>3. ~elapsed'
            <7>1. elapsed' = (elapsed \/ timer = 1)
              BY DEF Tick
            <7> QED
              BY <5>3, <7>1
          <6>4. timer' = timer - 1
            <7>1. timer > 0 /\ timer' = (IF timer > 0 THEN timer - 1 ELSE 0)
              BY <1>1, <6>1 DEF Tick
            <7> QED
              BY <7>1
          <6>5. PICK u \in Nat : u = timer - 1 /\ timer' = u
            BY <1>1, <6>1, <6>4
          <6>6. ToTimer' = u + Pass
            BY <6>3, <6>5, ConstantsStay DEF ToTimer
          <6> QED
            BY <1>1, <6>2, <6>5, <6>6, ConstantsStay
        <5> QED
          BY <5>1, <5>2, <5>3
      <4>4. PICK h \in Nat : ToRest' = h /\ h + 1 =< ToRest
        <5>1. CASE state = "WAIT_T1_5"
          <6>1. ToRest = ToTimer + (T3_5 - T1_5) + Pass
            BY <5>1 DEF ToRest
          <6>2. ToRest' = t + (T3_5 - T1_5) + Pass
            BY <1>3, <4>3, <5>1, ConstantsStay DEF ToRest
          <6> QED
            BY <1>1, <4>3, <6>1, <6>2, ConstantsStay
        <5>2. CASE state # "WAIT_T1_5"
          <6>1. ToRest = ToTimer /\ ToRest' = t
            BY <1>3, <4>3, <5>2 DEF ToRest
          <6> QED
            BY <1>1, <4>3, <6>1
        <5> QED
          BY <5>1, <5>2
      <4>5. s + h < Quiet
        BY <1>1, <2>1, <4>1, <4>4, ConstantsStay
      <4> QED
        BY <2>1, <3>1, <4>4, <4>5, SettlingFrom
    <3> QED
      BY <3>2, <3>3
  <2> QED
    BY <2>2, <2>4, <2>5
<1> QED
  BY <1>6, <1>7

LEMMA SettleSample ==
  ASSUME NoRollover, Inv2, SettleInv, Sample, InSilence'
  PROVE  Backlogged' \/ Settling'
<1>1. /\ Inv1 /\ SampleInv /\ ToPass \in Nat /\ ToEvent \in Nat /\ ToTimer \in Nat /\ ToRest \in Nat
      /\ Backlog \in Nat /\ wait \in Nat /\ silence \in Nat /\ timer \in Nat
      /\ ~InPass => wait =< MaxPass
      /\ Len(idles) \in Nat /\ Len(idleQueue) \in Nat
      /\ idles = <<>> <=> Len(idles) = 0
      /\ idleQueue = <<>> <=> Len(idleQueue) = 0
      /\ Backlog = Len(idles) + Len(idleQueue)
  BY DelayFacts, BacklogFacts, Numbers DEF Inv2, Backlog
<1>2. /\ phase = "TRANSPORT" /\ phase' = "FRAMER" /\ wait' = 0
      /\ idleQueue' = <<>> /\ idles' = Collected
      /\ producer' = Position /\ UNCHANGED <<origin, consumer, state, mark, timer, elapsed>>
      /\ spoiled' = (spoiled \/ Crowded)
  BY <1>1, SampleEffect
<1>3. ~spoiled /\ ~Crowded
  <2>1. spoiled \in BOOLEAN /\ ~spoiled'
    BY <1>1, TypeParts DEF Inv1, HistoryTypes, InSilence
  <2> QED
    BY <1>2, <2>1
<1>4. UNCHANGED <<receiving, silence, gaps>> /\ Position' = Position /\ InSilence
  <2>1. UNCHANGED <<receiving, silence, gaps>>
    BY DEF Sample, EndTransport, lineVars
  <2>2. Position' = Position
    BY <1>2, <2>1 DEF Position, Arrived
  <2> QED
    BY <1>3, <2>1, <2>2 DEF InSilence
<1>5. /\ Len(Collected) = Backlog
      /\ \A n \in 1 .. Len(Collected) :
           /\ n =< Len(idles) => Collected[n] = idles[n]
           /\ n > Len(idles) => Collected[n] = idleQueue[n - Len(idles)]
      /\ Collected \in Seq(Events(Arrived))
  BY <1>1, <1>3, CollectedFacts
<1>6. Backlog' = Backlog
  <2>1. Backlog' = Len(Collected) + 0
    BY <1>2, EmptySeq DEF Backlog
  <2> QED
    BY <1>1, <1>5, <2>1
<1>7. PICK p : p = Position
  OBVIOUS
<1>8. ToPass = Pass - wait /\ ToEvent = ToPass /\ ToPass' = MaxInside
  <2>1. ToPass' = MaxInside - 0
    BY <1>2, ConstantsStay DEF ToPass
  <2> QED
    BY <1>2, <2>1, ConstantsStay DEF ToPass, ToEvent
<1>9. MaxInside =< ToPass
  <2>1. wait =< MaxPass
    BY <1>1, <1>2 DEF InPass
  <2> QED
    BY <1>1, <1>8, <2>1, ConstantsStay
<1>10. CASE Backlogged
  <2>1. PICK n \in Nat : n = Backlog /\ n >= 1
    BY <1>1, <1>10 DEF Backlogged
  <2>2. PICK m \in Nat : m = n * Pass
    BY <2>1, PassesLess
  <2>3. idles' # <<>>
    <3>1. Len(Collected) # 0
      BY <1>5, <2>1
    <3> QED
      BY <1>2, <1>5, <3>1, SeqFacts
  <2>4. ToEvent' = MaxInside
    BY <1>2, <1>8, <2>3 DEF ToEvent
  <2>5. silence + ToEvent + m + (T3_5 - CharacterTime) + Pass < Quiet
    BY <1>10, <2>1, <2>2 DEF Backlogged
  <2>6. silence + MaxInside + n * Pass + (T3_5 - CharacterTime) + Pass < Quiet
    <3>1. silence + MaxInside + m + (T3_5 - CharacterTime) + Pass < Quiet
      BY <1>1, <1>8, <1>9, <2>5, ConstantsStay
    <3> QED
      BY <2>2, <3>1
  <2>7. LastEvent'.position = p
    <3>1. LastEvent' = Collected[Len(Collected)]
      BY <1>2 DEF LastEvent
    <3>2. Len(Collected) \in 1 .. Len(Collected) /\ Len(Collected) = Len(idles) + Len(idleQueue)
      BY <1>1, <1>5, <2>1
    <3>3. CASE idleQueue = <<>>
      <4>1. Len(Collected) = Len(idles) /\ Len(Collected) =< Len(idles)
        BY <1>1, <3>2, <3>3
      <4>2. Collected[Len(Collected)] = LastEvent
        BY <1>5, <3>2, <3>3, <4>1 DEF LastEvent
      <4> QED
        BY <1>7, <1>10, <3>1, <4>2 DEF Backlogged
    <3>4. CASE idleQueue # <<>>
      <4>1. Len(Collected) > Len(idles) /\ Len(Collected) - Len(idles) = Len(idleQueue)
        BY <1>1, <3>2, <3>4
      <4>2. Collected[Len(Collected)] = LastEvent
        BY <1>5, <3>2, <3>4, <4>1 DEF LastEvent
      <4> QED
        BY <1>7, <1>10, <3>1, <4>2 DEF Backlogged
    <3> QED
      BY <3>3, <3>4
  <2>8. Backlog' = n /\ silence' = silence /\ Position' = p
    BY <1>4, <1>6, <1>7, <2>1
  <2> QED
    BY <1>1, <2>1, <2>4, <2>6, <2>7, <2>8, ConstantsStay, BackloggedFrom
<1>11. CASE Settling
  <2>1. /\ Backlog' = 0 /\ consumer' = p /\ producer' = p /\ Position' = p /\ silence' = silence
        /\ state' # "RECEIVING"
        /\ state' \in Waits \cup {"DISCARD"} => mark' = p
        /\ state' \in {"WAITING", "FRAME_READY"} <=> state \in {"WAITING", "FRAME_READY"}
    BY <1>2, <1>4, <1>6, <1>7, <1>11 DEF Settling
  <2>2. PICK t \in Nat : ToTimer' = t /\ t =< ToTimer
    <3>1. CASE elapsed
      <4>1. ToTimer' = MaxInside /\ ToTimer = ToPass
        BY <1>2, <1>8, <3>1 DEF ToTimer
      <4> QED
        BY <1>9, <4>1, ConstantsStay
    <3>2. CASE ~elapsed
      <4>1. ToTimer' = timer + Pass /\ ToTimer = timer + Pass
        BY <1>2, <3>2, ConstantsStay DEF ToTimer
      <4> QED
        BY <1>1, <4>1
    <3> QED
      BY <3>1, <3>2
  <2>3. PICK h \in Nat : ToRest' = h /\ h =< ToRest
    <3>1. CASE state = "WAIT_T1_5"
      <4>1. ToRest = ToTimer + (T3_5 - T1_5) + Pass
        BY <3>1 DEF ToRest
      <4>2. ToRest' = t + (T3_5 - T1_5) + Pass
        BY <1>2, <2>2, <3>1, ConstantsStay DEF ToRest
      <4> QED
        BY <1>1, <2>2, <4>1, <4>2, ConstantsStay
    <3>2. CASE state # "WAIT_T1_5"
      <4>1. ToRest = ToTimer /\ ToRest' = t
        BY <1>2, <2>2, <3>2 DEF ToRest
      <4> QED
        BY <1>1, <2>2, <4>1
    <3> QED
      BY <3>1, <3>2
  <2>4. state' \in {"WAITING", "FRAME_READY"} \/ silence + h < Quiet
    <3>1. state \in {"WAITING", "FRAME_READY"} \/ silence + ToRest < Quiet
      BY <1>11 DEF Settling
    <3>2. silence + ToRest < Quiet => silence + h < Quiet
      BY <1>1, <2>3, ConstantsStay
    <3> QED
      BY <2>1, <3>1, <3>2
  <2> QED
    BY <1>1, <2>1, <2>3, <2>4, SettlingFrom
<1> QED
  BY <1>4, <1>10, <1>11 DEF SettleInv

LEMMA SettleIdle ==
  ASSUME NoRollover, Inv2, SettleInv, HandleIdle, InSilence'
  PROVE  Backlogged' \/ Settling'
<1>1. /\ Inv1 /\ SampleInv /\ TimedInv /\ ToPass \in Nat /\ ToEvent \in Nat
      /\ Backlog \in Nat /\ wait \in Nat /\ silence \in Nat /\ timer \in Nat /\ elapsed \in BOOLEAN
      /\ Len(idles) \in Nat /\ Len(idleQueue) \in Nat
      /\ idles = <<>> <=> Len(idles) = 0
      /\ idleQueue = <<>> <=> Len(idleQueue) = 0
      /\ Backlog = Len(idles) + Len(idleQueue)
      /\ origin \in Nat /\ consumer \in Nat /\ producer \in Nat /\ Arrived \in Nat
      /\ consumer =< producer /\ origin + producer =< Arrived /\ state \in FramerStates
  BY DelayFacts, BacklogFacts, Numbers, TypeParts DEF Inv2, Inv1, Backlog, TimerTypes, FramerTypes
<1>2. /\ UNCHANGED <<origin, producer, written, consumer, idleQueue, wait, spoiled>>
      /\ phase = "FRAMER" /\ phase' = "TIMER"
      /\ idles # <<>> /\ idles' = Tail(idles) /\ Reached
      /\ \/ state' \in {"WAITING", "FRAME_READY"} /\ state \notin Waits
         \/ /\ mark' = idles[1].position
            /\ \/ /\ state = "RECEIVING" /\ state' = "WAIT_T1_5"
                  /\ timer' = T1_5 - CharacterTime /\ elapsed' = FALSE
               \/ /\ state = "DISCARD" /\ state' = "DISCARD"
                  /\ timer' = T3_5 - CharacterTime /\ elapsed' = FALSE
               \/ state \notin {"RECEIVING", "DISCARD"} /\ UNCHANGED <<state, timer, elapsed>>
  BY <1>1, HandleIdleEffect DEF Waits
<1>3. /\ Head(idles) = idles[1] /\ Len(Tail(idles)) = Len(idles) - 1
      /\ DOMAIN Tail(idles) = 1 .. Len(idles) - 1
      /\ \A n \in DOMAIN Tail(idles) : Tail(idles)[n] = idles[n + 1]
      /\ 1 \in DOMAIN idles
  BY <1>1, <1>2, EventFacts
<1>4. UNCHANGED <<receiving, silence, gaps>> /\ Position' = Position /\ InSilence
  <2>1. UNCHANGED <<receiving, silence, gaps>>
    BY DEF HandleIdle, InFramer, lineVars
  <2>2. Position' = Position
    BY <1>2, <2>1 DEF Position, Arrived
  <2> QED
    BY <1>2, <2>1, <2>2 DEF InSilence
<1>5. PICK n \in Nat : n = Backlog /\ n >= 1
  BY <1>1, <1>2
<1>6. Backlogged
  BY <1>4, <1>5 DEF SettleInv, Settling
<1>7. PICK m \in Nat : m = (n - 1) * Pass /\ n * Pass = m + Pass
  BY <1>5, PassesLess
<1>8. /\ silence + ToPass + (m + Pass) + (T3_5 - CharacterTime) + Pass < Quiet
      /\ ToPass = MaxInside - wait /\ ToPass' = ToPass
  <2>1. ToEvent = ToPass
    BY <1>2 DEF ToEvent
  <2>2. ToPass = MaxInside - wait /\ ToPass' = MaxInside - wait
    BY <1>2, ConstantsStay DEF ToPass
  <2>3. silence + ToPass + n * Pass + (T3_5 - CharacterTime) + Pass < Quiet
    BY <1>5, <1>6, <2>1 DEF Backlogged
  <2> QED
    BY <1>7, <2>2, <2>3
<1>9. Backlog' = n - 1
  <2>1. Backlog' = Len(Tail(idles)) + Len(idleQueue)
    BY <1>2 DEF Backlog
  <2> QED
    BY <1>1, <1>3, <1>5, <2>1
<1>10. PICK p : p = Position
  OBVIOUS
<1>11. CASE n > 1
  <2>1. LastEvent'.position = p
    <3>1. CASE idleQueue = <<>>
      <4>1. Len(idles) - 1 \in 1 .. Len(idles) - 1 /\ (Len(idles) - 1) + 1 = Len(idles)
        BY <1>1, <1>5, <1>11, <3>1
      <4>2. Tail(idles)[Len(idles) - 1] = idles[Len(idles)]
        BY <1>3, <4>1
      <4>3. LastEvent' = Tail(idles)[Len(idles) - 1] /\ LastEvent = idles[Len(idles)]
        BY <1>2, <1>3, <3>1 DEF LastEvent
      <4> QED
        BY <1>6, <1>10, <4>2, <4>3 DEF Backlogged
    <3>2. CASE idleQueue # <<>>
      <4>1. LastEvent' = LastEvent
        BY <1>2, <3>2 DEF LastEvent
      <4> QED
        BY <1>6, <1>10, <4>1 DEF Backlogged
    <3> QED
      BY <3>1, <3>2
  <2>2. PICK k \in Nat : k = n - 1 /\ k >= 1
    BY <1>11
  <2>3. PICK h \in Nat : ToEvent' = h /\ h = ToPass + Pass
    <3>1. ToEvent' = ToPass + Pass
      BY <1>2, <1>8, ConstantsStay DEF ToEvent
    <3> QED
      BY <1>1, <3>1, ConstantsStay
  <2>4. silence + h + k * Pass + (T3_5 - CharacterTime) + Pass < Quiet
    <3>1. silence + h + m + (T3_5 - CharacterTime) + Pass < Quiet
      BY <1>1, <1>8, <2>3, ConstantsStay
    <3> QED
      BY <1>7, <2>2, <3>1
  <2>5. Backlog' = k /\ silence' = silence /\ Position' = p
    BY <1>4, <1>9, <1>10, <2>2
  <2> QED
    BY <1>1, <2>1, <2>2, <2>3, <2>4, <2>5, BackloggedFrom
<1>12. CASE n = 1
  <2>1. idles[1].position = Position
    <3>1. Len(idles) = 1 /\ idleQueue = <<>>
      <4>1. Len(idles) # 0
        BY <1>1, <1>2
      <4> QED
        BY <1>1, <1>5, <1>12, <4>1
    <3>2. LastEvent = idles[1]
      BY <3>1 DEF LastEvent
    <3> QED
      BY <1>6, <3>2 DEF Backlogged
  <2>2. consumer = Position /\ producer = Position
    <3>1. consumer >= Position
      BY <1>1, <1>2, <2>1, ReachedMeans
    <3> QED
      BY <1>1, <3>1 DEF Position
  <2>3. /\ Backlog' = 0 /\ consumer' = p /\ producer' = p /\ Position' = p /\ silence' = silence
    BY <1>2, <1>4, <1>9, <1>10, <1>12, <2>2
  <2>4. silence + ToPass + (T3_5 - CharacterTime) + Pass + Pass < Quiet
    BY <1>1, <1>8, ConstantsStay
  <2>5. CASE state' \in {"WAITING", "FRAME_READY"}
    BY <1>1, <2>3, <2>5, SettlingFrom DEF Waits
  <2>6. CASE /\ mark' = p /\ state' = "WAIT_T1_5"
             /\ timer' = T1_5 - CharacterTime /\ elapsed' = FALSE
    <3>1. ToTimer' = (T1_5 - CharacterTime) + Pass
      BY <2>6, ConstantsStay DEF ToTimer
    <3>2. PICK h \in Nat : ToRest' = h /\ h = (T3_5 - CharacterTime) + Pass + Pass
      <4>1. ToRest' = (T1_5 - CharacterTime) + Pass + (T3_5 - T1_5) + Pass
        BY <2>6, <3>1, ConstantsStay DEF ToRest
      <4> QED
        BY <4>1, ConstantsStay
    <3>3. silence + h < Quiet
      BY <1>1, <2>4, <3>2, ConstantsStay
    <3> QED
      BY <1>1, <2>3, <2>6, <3>2, <3>3, SettlingFrom
  <2>7. CASE /\ mark' = p /\ state' = "DISCARD"
             /\ timer' = T3_5 - CharacterTime /\ elapsed' = FALSE
    <3>1. PICK h \in Nat : ToRest' = h /\ h = (T3_5 - CharacterTime) + Pass
      <4>1. ToTimer' = (T3_5 - CharacterTime) + Pass
        BY <2>7, ConstantsStay DEF ToTimer
      <4>2. ToRest' = (T3_5 - CharacterTime) + Pass
        BY <2>7, <4>1 DEF ToRest
      <4> QED
        BY <4>2, ConstantsStay
    <3>2. silence + h < Quiet
      BY <1>1, <2>4, <3>1, ConstantsStay
    <3> QED
      BY <1>1, <2>3, <2>7, <3>1, <3>2, SettlingFrom
  <2>8. CASE /\ mark' = p /\ state \in Waits /\ UNCHANGED <<state, timer, elapsed>>
    <3>1. PICK t \in Nat :
            /\ ToTimer' = t
            /\ state = "WAIT_T1_5" => t =< ToPass + Pass + (T1_5 - CharacterTime)
            /\ state = "WAIT_T3_5" => t =< ToPass + Pass + (T3_5 - T1_5)
      <4>1. CASE elapsed
        <5>1. ToTimer' = ToPass
          BY <1>8, <2>8, <4>1 DEF ToTimer
        <5> QED
          BY <1>1, <5>1, ConstantsStay
      <4>2. CASE ~elapsed
        <5>1. ToTimer' = timer + Pass
          BY <2>8, <4>2, ConstantsStay DEF ToTimer
        <5>2. /\ state = "WAIT_T1_5" => timer =< T1_5 - CharacterTime
              /\ state = "WAIT_T3_5" => timer =< T3_5 - T1_5
          BY <1>1 DEF TimedInv
        <5> QED
          BY <1>1, <5>1, <5>2, ConstantsStay
      <4> QED
        BY <4>1, <4>2
    <3>2. PICK h \in Nat : ToRest' = h /\ h =< ToPass + (T3_5 - CharacterTime) + Pass + Pass
      <4>1. CASE state = "WAIT_T1_5"
        <5>1. ToRest' = t + (T3_5 - T1_5) + Pass
          BY <2>8, <3>1, <4>1, ConstantsStay DEF ToRest
        <5> QED
          BY <1>1, <3>1, <4>1, <5>1, ConstantsStay
      <4>2. CASE state = "WAIT_T3_5"
        <5>1. ToRest' = t
          BY <2>8, <3>1, <4>2 DEF ToRest
        <5> QED
          BY <1>1, <3>1, <4>2, <5>1, ConstantsStay
      <4> QED
        BY <2>8, <4>1, <4>2 DEF Waits
    <3>3. silence + h < Quiet
      BY <1>1, <2>4, <3>2, ConstantsStay
    <3>4. state' # "RECEIVING"
      BY <2>8 DEF Waits
    <3> QED
      BY <1>1, <2>3, <2>8, <3>2, <3>3, <3>4, SettlingFrom
  <2>9. state \notin {"RECEIVING", "DISCARD"} => state \in Waits \cup {"WAITING", "FRAME_READY"}
    BY <1>1 DEF FramerStates, Waits
  <2> QED
    BY <1>2, <1>10, <2>1, <2>5, <2>6, <2>7, <2>8, <2>9
<1> QED
  BY <1>5, <1>11, <1>12

LEMMA SettleTimer ==
  ASSUME Inv2, SettleInv, HandleTimer, InSilence'
  PROVE  Backlogged' \/ Settling'
<1>1. /\ Inv1 /\ TimedInv /\ ToPass \in Nat /\ ToEvent \in Nat /\ ToTimer \in Nat
      /\ Backlog \in Nat /\ wait \in Nat /\ silence \in Nat /\ timer \in Nat
  BY DelayFacts, BacklogFacts, Numbers DEF Inv2
<1>2. /\ UNCHANGED <<origin, producer, consumer, idleQueue, idles, spoiled>>
      /\ phase = "TIMER" /\ phase' = "TRANSPORT" /\ wait' = 0 /\ elapsed' = FALSE
      /\ \/ /\ ~elapsed \/ state \in {"WAITING", "RECEIVING", "FRAME_READY"}
            /\ UNCHANGED <<state, mark, timer>>
         \/ elapsed /\ mark # producer /\ state \in Waits \cup {"DISCARD"}
         \/ /\ elapsed /\ mark = producer
            /\ \/ /\ state = "WAIT_T1_5" /\ state' = "WAIT_T3_5" /\ mark' = mark
                  /\ timer' = T3_5 - T1_5
               \/ state' \in {"FRAME_READY", "WAITING"}
  BY HandleTimerEffect DEF Waits
<1>3. UNCHANGED <<receiving, silence>> /\ Position' = Position /\ InSilence
  <2>1. UNCHANGED <<receiving, silence, gaps>>
    BY DEF HandleTimer, lineVars
  <2>2. Position' = Position
    BY <1>2, <2>1 DEF Position, Arrived
  <2> QED
    BY <1>2, <2>1, <2>2 DEF InSilence
<1>4. Backlog' = Backlog /\ LastEvent' = LastEvent
  BY <1>2 DEF Backlog, LastEvent
<1>5. ToPass = MaxInside - wait /\ ToEvent = ToPass + Pass /\ ToPass' = Pass
  <2>1. ToPass' = Pass - 0
    BY <1>2, ConstantsStay DEF ToPass
  <2> QED
    BY <1>2, <2>1, ConstantsStay DEF ToPass, ToEvent
<1>6. PICK p : p = Position
  OBVIOUS
<1>7. CASE Backlogged
  <2>1. PICK n \in Nat : n = Backlog /\ n >= 1
    BY <1>1, <1>7 DEF Backlogged
  <2>2. ToEvent' = Pass
    BY <1>2, <1>5, ConstantsStay DEF ToEvent
  <2>3. PICK m \in Nat : m = n * Pass
    BY <2>1, PassesLess
  <2>4. silence + ToEvent + m + (T3_5 - CharacterTime) + Pass < Quiet
    BY <1>7, <2>1, <2>3 DEF Backlogged
  <2>5. silence + Pass + m + (T3_5 - CharacterTime) + Pass < Quiet
    BY <1>1, <1>5, <2>4, ConstantsStay
  <2>6. silence + Pass + n * Pass + (T3_5 - CharacterTime) + Pass < Quiet
    BY <2>3, <2>5
  <2>7. LastEvent'.position = p /\ Backlog' = n /\ silence' = silence /\ Position' = p
    BY <1>3, <1>4, <1>6, <1>7, <2>1 DEF Backlogged
  <2> QED
    BY <1>1, <2>1, <2>2, <2>6, <2>7, ConstantsStay, BackloggedFrom
<1>8. CASE Settling
  <2>1. /\ Backlog' = 0 /\ consumer' = p /\ producer' = p /\ Position' = p /\ silence' = silence
        /\ producer = p /\ state # "RECEIVING"
        /\ state \in Waits \cup {"DISCARD"} => mark = producer
        /\ state \in {"WAITING", "FRAME_READY"} \/ silence + ToRest < Quiet
    BY <1>2, <1>3, <1>4, <1>6, <1>8 DEF Settling
  <2>2. CASE state' \in {"FRAME_READY", "WAITING"}
    BY <1>1, <2>1, <2>2, SettlingFrom DEF Waits
  <2>3. CASE /\ ~elapsed /\ state \notin {"WAITING", "FRAME_READY"} /\ UNCHANGED <<state, mark, timer>>
    <3>1. ToTimer = timer + Pass /\ ToTimer' = timer + Pass
      BY <1>2, <2>3, ConstantsStay DEF ToTimer
    <3>2. ToRest' = ToRest
      BY <2>3, <3>1, ConstantsStay DEF ToRest
    <3>3. PICK h \in Nat : ToRest = h
      BY <1>1, DelayFacts
    <3> QED
      BY <1>1, <2>1, <2>3, <3>2, <3>3, SettlingFrom
  <2>4. CASE /\ elapsed /\ state = "WAIT_T1_5" /\ state' = "WAIT_T3_5" /\ mark' = mark
             /\ timer' = T3_5 - T1_5
    <3>1. ToRest = ToPass + (T3_5 - T1_5) + Pass
      BY <2>4 DEF ToRest, ToTimer
    <3>2. ToTimer' = (T3_5 - T1_5) + Pass
      BY <1>2, <2>4, ConstantsStay DEF ToTimer
    <3>3. ToRest' = (T3_5 - T1_5) + Pass
      BY <2>4, <3>2 DEF ToRest
    <3>4. silence + ToRest < Quiet
      BY <2>1, <2>4
    <3>5. PICK h \in Nat : h = (T3_5 - T1_5) + Pass
      BY ConstantsStay
    <3>6. silence + h < Quiet
      BY <1>1, <3>1, <3>4, <3>5, ConstantsStay
    <3>7. mark' = p /\ state' # "RECEIVING"
      BY <2>1, <2>4 DEF Waits
    <3> QED
      BY <1>1, <2>1, <3>3, <3>5, <3>6, <3>7, SettlingFrom
  <2>5. /\ ~(elapsed /\ mark # producer /\ state \in Waits \cup {"DISCARD"})
    BY <2>1
  <2> QED
    BY <1>2, <2>1, <2>2, <2>3, <2>4, <2>5
<1> QED
  BY <1>3, <1>7, <1>8 DEF SettleInv

LEMMA SettleRead ==
  ASSUME Inv2, SettleInv, ReadByte, InSilence'
  PROVE  Backlogged' \/ Settling'
<1>1. /\ Inv1 /\ ToEvent \in Nat /\ Backlog \in Nat /\ silence \in Nat
  BY DelayFacts, BacklogFacts, Numbers DEF Inv2
<1>2. /\ UNCHANGED <<origin, idles, idleQueue, phase, wait>> /\ (spoiled => spoiled')
  BY <1>1, ReadByteEffect
<1>3. UNCHANGED <<receiving, silence>> /\ Position' = Position /\ InSilence
  <2>1. UNCHANGED <<receiving, silence, gaps>>
    BY DEF ReadByte, InFramer, lineVars
  <2>2. Position' = Position
    BY <1>2, <2>1 DEF Position, Arrived
  <2> QED
    BY <1>2, <2>1, <2>2 DEF InSilence
<1>4. Backlogged
  <2>1. consumer # producer
    BY DEF ReadByte
  <2> QED
    BY <1>3, <2>1 DEF SettleInv, Settling
<1>5. Backlog' = Backlog /\ LastEvent' = LastEvent /\ ToEvent' = ToEvent
  BY <1>2, ConstantsStay DEF Backlog, LastEvent, ToEvent, ToPass
<1> QED
  BY <1>3, <1>4, <1>5, ConstantsStay DEF Backlogged

\* The other steps move nothing that counts.
LEMMA SettleOther ==
  ASSUME NoRollover, Inv2, SettleInv, NoIdle \/ Take \/ UNCHANGED vars, InSilence'
  PROVE  Backlogged' \/ Settling'
<1>1. /\ Inv1 /\ SampleInv /\ DOMAIN idles = 1 .. Len(idles)
      /\ Len(idles) \in Nat /\ phase \in {"TRANSPORT", "FRAMER", "TIMER"}
      /\ producer \in Nat /\ consumer \in Nat
  BY EventFacts, DelayFacts, Numbers DEF Inv2
<1>2. /\ UNCHANGED <<origin, idles, idleQueue, producer, consumer, wait, elapsed, spoiled>>
      /\ UNCHANGED <<receiving, silence, gaps>>
  BY DEF NoIdle, Take, vars, InFramer, lineVars, queueVars, positionVars, timerVars, historyVars
<1>3. Position' = Position /\ InSilence
  BY <1>2 DEF Position, Arrived, InSilence
<1>4. Backlog' = Backlog /\ LastEvent' = LastEvent
  BY <1>2 DEF Backlog, LastEvent
<1>5. NoIdle => idles = <<>> /\ phase = "FRAMER" /\ phase' = "TIMER"
  <2> SUFFICES ASSUME NoIdle PROVE idles = <<>> /\ phase = "FRAMER" /\ phase' = "TIMER"
    OBVIOUS
  <2>1. consumer = producer /\ ~Reached /\ phase = "FRAMER" /\ phase' = "TIMER"
    BY DEF NoIdle, InFramer
  <2>2. ASSUME idles # <<>> PROVE FALSE
    <3>1. 1 \in DOMAIN idles /\ idles[1].position \in Nat
      BY <1>1, <2>2, EventFacts
    <3>2. idles[1].position =< producer
      BY <1>1, <3>1 DEF SampleInv
    <3> QED
      BY <1>1, <2>1, <2>2, <3>1, <3>2, ReachedMeans
  <2> QED
    BY <2>1, <2>2
<1>6. ~NoIdle => phase' = phase
  BY DEF Take, vars
<1>7. ToPass' = ToPass /\ ToEvent' = ToEvent
  <2>1. CASE NoIdle
    BY <1>2, <1>5, <2>1, ConstantsStay DEF ToPass, ToEvent
  <2>2. CASE ~NoIdle
    BY <1>2, <1>6, <2>2, ConstantsStay DEF ToPass, ToEvent
  <2> QED
    BY <2>1, <2>2
<1>8. CASE Backlogged
  BY <1>2, <1>3, <1>4, <1>7, <1>8, ConstantsStay DEF Backlogged
<1>9. CASE Settling
  <2>1. CASE Take
    <3>1. state' = "WAITING"
      BY <2>1 DEF Take, Reset
    <3> QED
      BY <1>2, <1>3, <1>4, <1>9, <3>1 DEF Settling, Waits
  <2>2. CASE ~Take
    <3>1. UNCHANGED <<state, mark, timer>>
      BY <2>2 DEF NoIdle, vars, framerVars, timerVars
    <3>2. ToRest' = ToRest
      BY <1>2, <1>7, <3>1, ConstantsStay DEF ToRest, ToTimer
    <3> QED
      BY <1>2, <1>3, <1>4, <1>9, <3>1, <3>2, ConstantsStay DEF Settling
  <2> QED
    BY <2>1, <2>2
<1> QED
  BY <1>3, <1>8, <1>9 DEF SettleInv

LEMMA SettleInvStep ==
  ASSUME NoRollover, Inv2, SettleInv, [Next]_vars
  PROVE  SettleInv'
<1> SUFFICES ASSUME InSilence' PROVE Backlogged' \/ Settling'
  BY DEF SettleInv
<1>1. ~StartByte
  BY ConstantsStay DEF StartByte, InSilence
<1>2. ~Disturb
  BY DEF Disturb, InSilence
<1>3. ~Restart /\ ~RestartFails /\ ~ReceiveError
  <2>1. lineError \/ receiveError => spoiled
    BY DEF Inv2, ErrorInv
  <2>2. Restart \/ RestartFails \/ ReceiveError =>
          (lineError \/ receiveError) /\ (spoiled' <=> spoiled)
    BY DEF Restart, RestartFails, ReceiveError
  <2> QED
    BY <2>1, <2>2 DEF InSilence
<1>4. CASE Tick
  BY <1>4, SettleTick
<1>5. CASE Sample
  BY <1>5, SettleSample
<1>6. CASE ReadByte
  BY <1>6, SettleRead
<1>7. CASE HandleIdle
  BY <1>7, SettleIdle
<1>8. CASE HandleTimer
  BY <1>8, SettleTimer
<1>9. CASE NoIdle \/ Take \/ UNCHANGED vars
  BY <1>9, SettleOther
<1> QED
  BY <1>1, <1>2, <1>3, <1>4, <1>5, <1>6, <1>7, <1>8, <1>9 DEF Next

LEMMA SettleInvInit == Init => SettleInv
<1> SUFFICES ASSUME Init PROVE Settling
  BY DEF SettleInv
<1>1. Len(idles) = 0 /\ Len(idleQueue) = 0 /\ Len(gaps) = 0
  BY EmptySeq DEF Init
<1>2. Backlog = 0 /\ Position = 0
  BY <1>1 DEF Init, Backlog, Position, Arrived
<1> QED
  BY <1>2 DEF Init, Settling, Waits

Inv5 == Inv2 /\ SettleInv

LEMMA Inv5Step == NoRollover /\ Inv5 /\ [Next]_vars => Inv5'
BY Inv2Step, SettleInvStep DEF Inv5

LEMMA Inv5Holds == ASSUME NoRollover PROVE Spec => []Inv5
<1>1. Init => Inv5
  BY Inv2Init, SettleInvInit DEF Inv5
<1>2. Inv5 /\ [Next]_vars => Inv5'
  BY Inv5Step
<1> QED
  BY <1>1, <1>2, PTL DEF Spec

\* A silence outlasts what was left to be done.
LEMMA Settled ==
  ASSUME Inv5, silence = Quiet, receiving = 0, ~spoiled
  PROVE  Settling /\ state \in {"WAITING", "FRAME_READY"}
<1>1. /\ Inv1 /\ SettleInv /\ ToEvent \in Nat /\ ToRest \in Nat /\ Backlog \in Nat
      /\ silence \in Nat /\ Quiet \in Nat
  BY DelayFacts, BacklogFacts, Numbers, ConstantsStay DEF Inv5, Inv2
<1>2. InSilence
  BY ConstantsStay DEF InSilence
<1>3. ~Backlogged
  <2> SUFFICES ASSUME Backlogged PROVE FALSE
    OBVIOUS
  <2>1. PICK n \in Nat : n = Backlog /\ n >= 1
    BY <1>1 DEF Backlogged
  <2>2. PICK m \in Nat : m = n * Pass
    BY <2>1, PassesLess
  <2>3. silence + ToEvent + m + (T3_5 - CharacterTime) + Pass < Quiet
    BY <2>1, <2>2 DEF Backlogged
  <2> QED
    BY <1>1, <2>3, ConstantsStay
<1>4. Settling
  BY <1>1, <1>2, <1>3 DEF SettleInv
<1>5. ~(silence + ToRest < Quiet)
  BY <1>1
<1> QED
  BY <1>4, <1>5 DEF Settling

\* While the positions do not roll over, a silence brings the receiver to rest
\* with nothing unread, however many idle events were left to handle: it waits
\* for a frame, or for one to be taken, and does not discard any more.
THEOREM SilenceCorrect ==
  ASSUME NoRollover
  PROVE  Spec => []SilenceSettles
<1>1. Inv5 => SilenceSettles
  BY Settled DEF SilenceSettles, Settling
<1> QED
  BY <1>1, Inv5Holds, PTL

-----------------------------------------------------------------------------
(* Where a frame that was sent as it should be is, from its first byte on. *)

\* The bytes of the stream from one to another.
Run(first, last) == [n \in 1 .. last - first + 1 |-> first + n - 1]

\* A burst from a long silence on, without a gap so far and not too long.
Gapless(first) ==
  /\ ~spoiled /\ gaps[first] = Quiet
  /\ \A n \in first + 1 .. Len(gaps) : gaps[n] < CharacterTime
  /\ Len(gaps) - first < MaxLength

\* The framer is given its bytes, or is still to be given the first.
Coming(first) ==
  \/ Read = first - 1 /\ state \in {"WAITING", "FRAME_READY"}
  \/ Read >= first /\ state = "RECEIVING" /\ frame = Run(first, Read)

\* Its idle event was handled.
Ended(first) ==
  Len(gaps) - first + 1 >= MinLength =>
    \/ frame = Burst(first) /\ state \in Waits \cup {"FRAME_READY"}
    \/ state = "WAITING" /\ taken = Burst(first)

\* There is no idle event before the burst ends, one when it does, and none when
\* that was handled.
Delivered(first) ==
  IF ~InSilence THEN Backlog = 0 /\ Coming(first)
  ELSE IF Backlog # 0 THEN Backlog = 1 /\ Coming(first)
  ELSE Ended(first)

DeliveryInv == \A first \in DOMAIN gaps : Gapless(first) => Delivered(first)

LEMMA RunFacts ==
  ASSUME NEW f \in Nat \ {0}, NEW l \in Nat, l >= f - 1
  PROVE  /\ Run(f, l) \in Seq(Nat) /\ Len(Run(f, l)) = l - f + 1
         /\ \A n \in 1 .. l - f + 1 : Run(f, l)[n] = f + n - 1
<1>1. l - f + 1 \in Nat /\ \A n \in 1 .. l - f + 1 : f + n - 1 \in Nat
  OBVIOUS
<1> QED
  BY <1>1 DEF Run

LEMMA RunAppend ==
  ASSUME NEW f \in Nat \ {0}, NEW l \in Nat, l >= f - 1
  PROVE  Append(Run(f, l), l + 1) = Run(f, l + 1)
<1> DEFINE r == Run(f, l)
           a == Append(r, l + 1)
           g == Run(f, l + 1)
<1>1. r \in Seq(Nat) /\ Len(r) = l - f + 1 /\ \A n \in 1 .. l - f + 1 : r[n] = f + n - 1
  BY RunFacts
<1>2. g \in Seq(Nat) /\ Len(g) = l - f + 2 /\ \A n \in 1 .. l - f + 2 : g[n] = f + n - 1
  <2>1. l + 1 \in Nat /\ l + 1 >= f - 1 /\ (l + 1) - f + 1 = l - f + 2
    OBVIOUS
  <2> QED
    BY <2>1, RunFacts
<1> HIDE DEF r, g
<1>3. /\ a \in Seq(Nat) /\ Len(a) = Len(r) + 1
      /\ \A n \in 1 .. Len(r) : a[n] = r[n]
      /\ a[Len(r) + 1] = l + 1
  <2>1. l + 1 \in Nat
    OBVIOUS
  <2> QED
    BY <1>1, <2>1, AppendProperties
<1> HIDE DEF a
<1>4. Len(a) = Len(g)
  BY <1>1, <1>2, <1>3
<1>5. ASSUME NEW n \in 1 .. Len(a) PROVE a[n] = g[n]
  <2>1. CASE n = Len(r) + 1
    BY <1>1, <1>2, <1>3, <2>1
  <2>2. CASE n # Len(r) + 1
    <3>1. n \in 1 .. Len(r) /\ n \in 1 .. l - f + 2
      BY <1>1, <1>3, <2>2
    <3> QED
      BY <1>1, <1>2, <1>3, <3>1
  <2> QED
    BY <2>1, <2>2
<1>6. a = g
  BY <1>2, <1>3, <1>4, <1>5, SeqEqual
<1> QED
  BY <1>6 DEF a, g, r

LEMMA RunFirst ==
  ASSUME NEW f \in Nat \ {0}
  PROVE  Append(<<>>, f) = Run(f, f)
<1>1. f - 1 \in Nat /\ f - 1 >= f - 1 /\ (f - 1) + 1 = f
  OBVIOUS
<1>2. Append(Run(f, f - 1), f) = Run(f, f)
  BY <1>1, RunAppend
<1>3. Run(f, f - 1) = <<>>
  <2>1. Run(f, f - 1) \in Seq(Nat) /\ Len(Run(f, f - 1)) = 0
    BY <1>1, RunFacts
  <2> QED
    BY <2>1, EmptySeq
<1> QED
  BY <1>2, <1>3

\* What a burst that is on its way tells.
LEMMA GaplessFacts ==
  ASSUME Inv2, NEW first \in DOMAIN gaps, Gapless(first)
  PROVE  /\ ~spoiled /\ ~stopped /\ ~lineError /\ ~receiveError
         /\ Len(gaps) \in Nat /\ first \in Nat \ {0} /\ first =< Len(gaps)
         /\ receiving = 0 => Arrived = Len(gaps)
         /\ MinLength \in Nat /\ MaxLength \in Nat /\ 0 < MaxLength
<1>1. /\ LineTypes /\ ErrorInv /\ CharacterTime \in Nat
      /\ MinLength \in Nat /\ MaxLength \in Nat /\ 0 < MaxLength
  BY Numbers, ConstantFacts DEF Inv2
<1>2. Len(gaps) \in Nat /\ DOMAIN gaps = 1 .. Len(gaps) /\ (receiving = 0 => Arrived = Len(gaps))
  BY <1>1, LineFacts
<1> QED
  BY <1>1, <1>2 DEF ErrorInv, Gapless

LEMMA BurstIsRun ==
  ASSUME NEW first, Read = Len(gaps)
  PROVE  Run(first, Read) = Burst(first)
BY DEF Run, Burst

\* All that Delivered is made of.
LEMMA DeliveredStays ==
  ASSUME NEW first, Delivered(first),
         InSilence' = InSilence, Backlog' = Backlog,
         UNCHANGED <<Read, state, frame, taken, gaps>>
  PROVE  Delivered(first)'
BY DEF Delivered, Coming, Ended, Run, Burst, Waits

LEMMA StillSilent ==
  ASSUME Inv2, [Next]_vars, ~Tick, ~StartByte, ~spoiled, ~spoiled'
  PROVE  UNCHANGED <<gaps, receiving, silence>> /\ InSilence' = InSilence
<1>1. UNCHANGED <<gaps, receiving, silence>>
  BY LineHeld
<1>2. InSilence' <=> InSilence
  BY <1>1, ConstantsStay DEF InSilence
<1> QED
  BY <1>1, <1>2 DEF InSilence

LEMMA DeliveredStart ==
  ASSUME Inv5, StartByte, DeliveryInv, NEW first \in DOMAIN gaps', Gapless(first)'
  PROVE  Delivered(first)'
<1>1. /\ Inv2 /\ Inv1 /\ LineTypes /\ Len(gaps) \in Nat /\ DOMAIN gaps = 1 .. Len(gaps)
      /\ receiving = 0 /\ Arrived = Len(gaps) /\ origin \in Nat /\ consumer \in Nat
      /\ silence \in Nat /\ Gap \in 0 .. Quiet
  BY Numbers, LineFacts, GapFacts DEF Inv5, Inv2, StartByte
<1>2. /\ UNCHANGED <<origin, consumer, state, frame, taken, silence, idles, idleQueue>>
      /\ receiving' = CharacterTime /\ gaps' = Append(gaps, Gap)
      /\ IF silence = Quiet /\ AtRest THEN TRUE ELSE spoiled' = spoiled
  BY DEF StartByte, queueVars, positionVars, framerVars
<1>3. /\ Len(gaps') = Len(gaps) + 1 /\ DOMAIN gaps' = 1 .. Len(gaps) + 1
      /\ \A n \in 1 .. Len(gaps) : gaps'[n] = gaps[n]
      /\ gaps'[Len(gaps) + 1] = Gap
  <2>1. gaps \in Seq(0 .. Quiet)
    BY <1>1 DEF LineTypes
  <2> QED
    BY <1>1, <1>2, <2>1, AppendProperties
<1>4. ~InSilence' /\ Backlog' = Backlog /\ Read' = Read
  BY <1>2, ConstantsStay DEF InSilence, Backlog, Read
<1>5. /\ ~spoiled' /\ gaps'[first] = Quiet
      /\ \A n \in first + 1 .. Len(gaps) + 1 : gaps'[n] < CharacterTime
      /\ Len(gaps) + 1 - first < MaxLength
  BY <1>3, ConstantsStay DEF Gapless
<1>6. CASE first = Len(gaps) + 1
  <2>1. silence = Quiet
    BY <1>1, <1>3, <1>5, <1>6, GapFacts
  <2>2. Backlog = 0 /\ consumer = Position /\ state \in {"WAITING", "FRAME_READY"}
    <3>1. CASE AtRest
      BY <3>1, EmptySeq DEF AtRest, Backlog
    <3>2. CASE ~AtRest
      <4>1. ~spoiled
        BY <1>2, <1>5, <3>2
      <4> QED
        BY <1>1, <2>1, <4>1, Settled DEF Settling
    <3> QED
      BY <3>1, <3>2
  <2>3. Read = first - 1
    BY <1>1, <1>6, <2>2 DEF Read, Position
  <2> QED
    BY <1>2, <1>4, <2>2, <2>3 DEF Delivered, Coming
<1>7. CASE first # Len(gaps) + 1
  <2>1. first \in 1 .. Len(gaps)
    BY <1>1, <1>3, <1>7
  <2>2. Gap < CharacterTime
    <3>1. Len(gaps) + 1 \in first + 1 .. Len(gaps) + 1
      BY <1>1, <2>1
    <3> QED
      BY <1>3, <1>5, <3>1
  <2>3. silence < CharacterTime
    <3>1. ~(silence >= CharacterTime)
      BY <1>1, <2>2, GapFacts, ConstantsStay
    <3> QED
      BY <1>1, <3>1, ConstantsStay
  <2>4. ~spoiled
    <3>1. silence # Quiet
      BY <1>1, <2>3, ConstantsStay
    <3> QED
      BY <1>2, <1>5, <3>1
  <2>5. Gapless(first)
    <3>1. \A n \in first + 1 .. Len(gaps) : gaps[n] < CharacterTime
      <4> TAKE n \in first + 1 .. Len(gaps)
      <4>1. n \in 1 .. Len(gaps) /\ n \in first + 1 .. Len(gaps) + 1
        BY <1>1, <2>1
      <4> QED
        BY <1>3, <1>5, <4>1
    <3>2. gaps[first] = Quiet /\ Len(gaps) - first < MaxLength
      BY <1>1, <1>3, <1>5, <2>1, ConstantFacts
    <3> QED
      BY <2>4, <3>1, <3>2 DEF Gapless
  <2>6. ~InSilence
    BY <1>1, <2>3, ConstantsStay DEF InSilence
  <2>7. Backlog = 0 /\ Coming(first)
    BY <1>1, <2>1, <2>5, <2>6 DEF DeliveryInv, Delivered
  <2> QED
    BY <1>2, <1>4, <2>7 DEF Delivered, Coming, Run
<1> QED
  BY <1>6, <1>7

LEMMA DeliveredTick ==
  ASSUME Inv5, Tick, NEW first \in DOMAIN gaps, Gapless(first), Delivered(first), ~spoiled'
  PROVE  Delivered(first)'
<1>1. /\ Inv2 /\ Inv1 /\ ~stopped /\ receiving \in 0 .. CharacterTime /\ silence \in Nat
      /\ receiving \in Nat /\ spoiled \in BOOLEAN
  <2>1. Inv2 /\ Inv1 /\ LineTypes /\ HistoryTypes
    BY Numbers, TypeParts DEF Inv5, Inv2, Inv1
  <2> QED
    BY <2>1, GaplessFacts, Numbers, ConstantsStay DEF LineTypes, HistoryTypes
<1>2. ~spoiled /\ ~(Idle /\ Full)
  <2>1. spoiled' = (spoiled \/ (Idle /\ Full))
    BY DEF Tick
  <2> QED
    BY <1>1, <2>1
<1>3. UNCHANGED <<origin, consumer, state, frame, taken, gaps>> /\ Read' = Read
  BY <1>1, TickFacts DEF Read
<1>4. /\ ~Idle => Backlog' = Backlog
      /\ Idle => Backlog' = Backlog + 1
  BY <1>1, <1>2, BacklogTick
<1>5. CASE receiving > 0
  <2>1. ~InSilence /\ ~Idle
    BY <1>1, <1>5 DEF InSilence, Idle
  <2>2. ~InSilence'
    <3>1. CASE receiving = 1
      <4>1. silence' = 0
        BY <1>5, <3>1 DEF Tick
      <4> QED
        BY <4>1, ConstantsStay DEF InSilence
    <3>2. CASE receiving # 1
      <4>1. receiving' = receiving - 1
        BY <1>5 DEF Tick
      <4>2. receiving - 1 # 0
        BY <1>1, <3>2
      <4> QED
        BY <4>1, <4>2 DEF InSilence
    <3> QED
      BY <3>1, <3>2
  <2> QED
    BY <1>3, <1>4, <2>1, <2>2 DEF Delivered, Coming, Run
<1>6. CASE receiving = 0
  <2>1. ~(receiving > 0) /\ receiving' = 0
        /\ silence' = (IF silence + 1 < Quiet THEN silence + 1 ELSE Quiet)
    <3>1. ~(receiving > 0)
      BY <1>6
    <3> QED
      BY <1>6, <3>1 DEF Tick, Capped
  <2>2. PICK s \in Nat : s = (IF silence + 1 < Quiet THEN silence + 1 ELSE Quiet) /\ silence' = s
    BY <1>1, <2>1, ConstantsStay
  <2>3. InSilence' <=> s >= CharacterTime
    BY <1>2, <2>1, <2>2, ConstantsStay DEF InSilence
  <2>4. InSilence <=> silence >= CharacterTime
    BY <1>2, <1>6 DEF InSilence
  <2>5. CASE silence + 1 = CharacterTime
    <3>1. Idle
      BY <1>6, <2>5 DEF Idle
    <3>2. ~(silence >= CharacterTime) /\ s >= CharacterTime
      BY <1>1, <2>2, <2>5, ConstantsStay
    <3>3. Backlog = 0 /\ Coming(first)
      BY <2>4, <3>2 DEF Delivered
    <3>4. Backlog' = 1
      BY <1>4, <3>1, <3>3
    <3> QED
      BY <1>3, <2>3, <3>2, <3>3, <3>4 DEF Delivered, Coming, Run
  <2>6. CASE silence + 1 # CharacterTime
    <3>1. ~Idle
      BY <2>6 DEF Idle
    <3>2. s >= CharacterTime <=> silence >= CharacterTime
      BY <1>1, <2>2, <2>6, ConstantsStay
    <3>3. InSilence' = InSilence
      BY <2>3, <2>4, <3>2 DEF InSilence
    <3> QED
      BY <1>3, <1>4, <3>1, <3>3, DeliveredStays
  <2> QED
    BY <2>5, <2>6
<1> QED
  BY <1>1, <1>5, <1>6

LEMMA DeliveredSample ==
  ASSUME NoRollover, Inv5, Sample, NEW first \in DOMAIN gaps, Gapless(first), Delivered(first),
         ~spoiled', UNCHANGED gaps, InSilence' = InSilence
  PROVE  Delivered(first)'
<1>1. Inv2 /\ Inv1 /\ spoiled \in BOOLEAN
  BY TypeParts DEF Inv5, Inv2, Inv1, HistoryTypes
<1>2. /\ idleQueue' = <<>> /\ idles' = Collected
      /\ UNCHANGED <<origin, consumer, state, frame, taken>>
      /\ spoiled' = (spoiled \/ Crowded)
  BY <1>1, SampleEffect
<1>3. ~Crowded
  BY <1>1, <1>2
<1>4. Backlog' = Backlog
  <2>1. Len(Collected) = Len(idles) + Len(idleQueue) /\ Len(Collected) \in Nat
    BY <1>1, <1>3, CollectedFacts
  <2>2. Backlog' = Len(Collected) + 0
    BY <1>2, EmptySeq DEF Backlog
  <2> QED
    BY <2>1, <2>2 DEF Backlog
<1> QED
  BY <1>2, <1>4, DeliveredStays DEF Read

LEMMA DeliveredRead ==
  ASSUME Inv5, ReadByte, NEW first \in DOMAIN gaps, Gapless(first), Delivered(first),
         ~spoiled', UNCHANGED gaps, InSilence' = InSilence
  PROVE  Delivered(first)'
<1>1. /\ Inv2 /\ Inv1 /\ TimedInv /\ SettleInv
      /\ Len(gaps) \in Nat /\ first \in Nat \ {0} /\ first =< Len(gaps)
      /\ MaxLength \in Nat /\ 0 < MaxLength
      /\ Read \in Nat /\ Sampled \in Nat /\ Arrived \in Nat /\ Sampled =< Arrived
      /\ Arrived =< Len(gaps)
  BY GaplessFacts, Numbers, LineFacts DEF Inv5, Inv2
<1>2. /\ UNCHANGED <<origin, idles, idleQueue>> /\ Read' = Read + 1 /\ Read + 1 =< Sampled
      /\ state = "FRAME_READY" => spoiled'
      /\ \/ state \in {"FRAME_READY", "WAIT_T3_5", "DISCARD"} \/ Len(frame) >= MaxLength
         \/ state' = "RECEIVING" /\ frame' = Append(frame, Read + 1)
  BY <1>1, ReadByteEffect
<1>3. Backlog' = Backlog
  BY <1>2 DEF Backlog
<1>4. ~(InSilence /\ Backlog = 0)
  <2> SUFFICES ASSUME InSilence, Backlog = 0 PROVE FALSE
    OBVIOUS
  <2>1. Settling
    BY <1>1 DEF SettleInv, Backlogged
  <2> QED
    BY <2>1 DEF Settling, ReadByte
<1>5. Coming(first)
  BY <1>4 DEF Delivered
<1>6. Coming(first)'
  <2>1. CASE Read = first - 1 /\ state \in {"WAITING", "FRAME_READY"}
    <3>1. state = "WAITING" /\ frame = <<>>
      BY <1>1, <1>2, <2>1 DEF TimedInv
    <3>2. Len(frame) = 0 /\ ~(Len(frame) >= MaxLength)
      BY <1>1, <3>1, EmptySeq
    <3>3. state' = "RECEIVING" /\ frame' = Append(<<>>, Read + 1)
      BY <1>2, <3>1, <3>2
    <3>4. Read + 1 = first
      BY <1>1, <2>1
    <3>5. frame' = Run(first, first)
      BY <1>1, <3>3, <3>4, RunFirst
    <3>6. Read' = first
      BY <1>2, <3>4
    <3>7. Read' >= first
      BY <1>1, <3>6
    <3> QED
      BY <3>3, <3>5, <3>6, <3>7 DEF Coming, Run
  <2>2. CASE Read >= first /\ state = "RECEIVING" /\ frame = Run(first, Read)
    <3>1. Read >= first - 1 /\ Len(frame) = Read - first + 1
      <4>1. Read >= first - 1
        BY <1>1, <2>2
      <4>2. Len(Run(first, Read)) = Read - first + 1
        BY <1>1, <4>1, RunFacts
      <4> QED
        BY <2>2, <4>1, <4>2
    <3>2. ~(Len(frame) >= MaxLength)
      <4>1. Read - first + 1 =< Len(gaps) - first
        BY <1>1, <1>2
      <4>2. Len(gaps) - first < MaxLength
        BY DEF Gapless
      <4> QED
        BY <1>1, <3>1, <4>1, <4>2
    <3>3. state' = "RECEIVING" /\ frame' = Append(frame, Read + 1)
      BY <1>2, <2>2, <3>2
    <3>4. frame' = Run(first, Read + 1)
      <4>1. Append(Run(first, Read), Read + 1) = Run(first, Read + 1)
        BY <1>1, <3>1, RunAppend
      <4> QED
        BY <2>2, <3>3, <4>1
    <3>5. PICK r \in Nat : r = Read + 1 /\ Read' = r /\ r >= first /\ frame' = Run(first, r)
      BY <1>1, <1>2, <2>2, <3>4
    <3> QED
      BY <3>3, <3>5 DEF Coming, Run
  <2> QED
    BY <1>5, <2>1, <2>2 DEF Coming
<1> QED
  BY <1>3, <1>4, <1>6 DEF Delivered

LEMMA DeliveredIdle ==
  ASSUME NoRollover, Inv5, HandleIdle, NEW first \in DOMAIN gaps, Gapless(first), Delivered(first),
         UNCHANGED gaps, InSilence' = InSilence
  PROVE  Delivered(first)'
<1>1. /\ Inv2 /\ Inv1 /\ SettleInv
      /\ Len(gaps) \in Nat /\ first \in Nat \ {0} /\ first =< Len(gaps)
      /\ receiving = 0 => Arrived = Len(gaps)
      /\ MinLength \in Nat
      /\ origin \in Nat /\ consumer \in Nat /\ producer \in Nat /\ Arrived \in Nat
      /\ consumer =< producer /\ origin + producer =< Arrived
      /\ Len(idles) \in Nat /\ Len(idleQueue) \in Nat /\ Backlog = Len(idles) + Len(idleQueue)
      /\ idles = <<>> <=> Len(idles) = 0
      /\ idleQueue = <<>> <=> Len(idleQueue) = 0
  <2>1. Inv2 /\ Inv1 /\ SettleInv
    BY DEF Inv5, Inv2
  <2> QED
    BY <2>1, GaplessFacts, Numbers, BacklogFacts DEF Sampled, Backlog
<1>2. /\ UNCHANGED <<origin, consumer, idleQueue>>
      /\ idles # <<>> /\ idles' = Tail(idles) /\ Reached
      /\ state = "RECEIVING" =>
           \/ Len(frame) < MinLength
           \/ state' = "FRAME_READY" /\ frame' = frame
           \/ state' = "WAIT_T1_5" /\ frame' = frame
  BY <1>1, HandleIdleEffect
<1>3. InSilence /\ Backlog = 1 /\ Coming(first)
  <2>1. Backlog # 0
    BY <1>1, <1>2
  <2> QED
    BY <2>1 DEF Delivered
<1>4. Len(idles) = 1 /\ idleQueue = <<>>
  <2>1. Len(idles) # 0
    BY <1>1, <1>2
  <2>2. Len(idles) + Len(idleQueue) = 1
    BY <1>1, <1>3
  <2>3. Len(idles) = 1 /\ Len(idleQueue) = 0
    <3>1. PICK m \in Nat, n \in Nat : m = Len(idles) /\ n = Len(idleQueue)
      BY <1>1
    <3>2. m # 0 /\ m + n = 1
      BY <2>1, <2>2, <3>1
    <3>3. m = 1 /\ n = 0
      BY <3>2
    <3> QED
      BY <3>1, <3>3
  <2> QED
    BY <1>1, <2>3
<1>5. idles[1].position = Position
  <2>1. Backlogged
    BY <1>1, <1>3 DEF SettleInv, Settling
  <2> QED
    BY <1>4, <2>1 DEF Backlogged, LastEvent
<1>6. Read = Len(gaps)
  <2>1. consumer >= Position
    BY <1>1, <1>2, <1>5, ReachedMeans
  <2>2. receiving = 0
    BY <1>3 DEF InSilence
  <2> QED
    BY <1>1, <2>1, <2>2 DEF Read, Position
<1>7. state = "RECEIVING" /\ frame = Burst(first)
  <2>1. Read # first - 1
    BY <1>1, <1>6
  <2> QED
    BY <1>3, <1>6, <2>1, BurstIsRun DEF Coming
<1>8. Backlog' = 0
  <2>1. Len(Tail(idles)) = 0
    BY <1>1, <1>2, <1>4, EventFacts
  <2>2. Backlog' = Len(Tail(idles)) + 0
    BY <1>2, <1>4, EmptySeq DEF Backlog
  <2> QED
    BY <2>1, <2>2
<1>9. Ended(first)'
  <2> SUFFICES ASSUME Len(gaps) - first + 1 >= MinLength
               PROVE  frame' = Burst(first)' /\ state' \in Waits \cup {"FRAME_READY"}
    BY DEF Ended, Waits
  <2>1. Len(frame) = Len(gaps) - first + 1
    <3>1. frame = Run(first, Len(gaps)) /\ Len(gaps) >= first - 1
      BY <1>1, <1>7 DEF Run, Burst
    <3> QED
      BY <1>1, <3>1, RunFacts
  <2>2. ~(Len(frame) < MinLength)
    BY <1>1, <2>1
  <2> QED
    BY <1>2, <1>7, <2>2 DEF Burst, Waits
<1> QED
  BY <1>3, <1>8, <1>9 DEF Delivered

LEMMA DeliveredTimer ==
  ASSUME Inv5, HandleTimer, NEW first \in DOMAIN gaps, Gapless(first), Delivered(first),
         UNCHANGED gaps, InSilence' = InSilence
  PROVE  Delivered(first)'
<1>1. /\ Inv2 /\ Inv1 /\ SettleInv
      /\ Len(gaps) \in Nat /\ first \in Nat \ {0} /\ first =< Len(gaps) /\ MinLength \in Nat
  BY GaplessFacts DEF Inv5, Inv2
<1>2. UNCHANGED <<origin, consumer, idleQueue, idles, taken>>
  BY <1>1, HandleTimerEffect
<1>3. Backlog' = Backlog /\ Read' = Read
  BY <1>2 DEF Backlog, Read
<1>4. CASE ~InSilence \/ Backlog # 0
  <2>1. Coming(first)
    BY <1>4 DEF Delivered
  <2>2. UNCHANGED <<state, frame>>
    <3>1. state \in {"WAITING", "RECEIVING", "FRAME_READY"}
      BY <2>1 DEF Coming
    <3> QED
      BY <1>1, <3>1, HandleTimerEffect DEF Waits
  <2> QED
    BY <1>2, <1>3, <2>2, DeliveredStays
<1>5. CASE InSilence /\ Backlog = 0
  <2>1. Settling
    BY <1>1, <1>5 DEF SettleInv, Backlogged
  <2>2. Ended(first)
    BY <1>5 DEF Delivered
  <2>3. Ended(first)'
    <3> SUFFICES ASSUME Len(gaps) - first + 1 >= MinLength
                 PROVE  \/ frame' = Burst(first) /\ state' \in Waits \cup {"FRAME_READY"}
                        \/ state' = "WAITING" /\ taken' = Burst(first)
      BY DEF Ended, Waits, Burst
    <3>1. CASE state = "WAITING" /\ taken = Burst(first)
      <4>1. state' = state
        BY <1>1, <3>1, HandleTimerEffect DEF Waits
      <4> QED
        BY <1>2, <3>1, <4>1
    <3>2. CASE frame = Burst(first) /\ state \in Waits \cup {"FRAME_READY"}
      <4>1. ~(Len(frame) < MinLength)
        <5>1. Burst(first) = Run(first, Len(gaps)) /\ Len(gaps) >= first - 1
          BY <1>1 DEF Run, Burst
        <5>2. Len(frame) = Len(gaps) - first + 1
          BY <1>1, <3>2, <5>1, RunFacts
        <5> QED
          BY <1>1, <5>2
      <4>2. state \in Waits => mark = producer
        BY <2>1 DEF Settling
      <4>3. \/ UNCHANGED <<state, frame>>
            \/ state' = "WAIT_T3_5" /\ frame' = frame
            \/ state' = "FRAME_READY" /\ frame' = frame
        BY <1>1, <3>2, <4>1, <4>2, HandleTimerEffect DEF Waits
      <4> QED
        BY <3>2, <4>3 DEF Waits
    <3> QED
      BY <2>2, <3>1, <3>2 DEF Ended
  <2> QED
    BY <1>3, <1>5, <2>3 DEF Delivered
<1> QED
  BY <1>4, <1>5

LEMMA DeliveredTake ==
  ASSUME Inv5, Take, NEW first \in DOMAIN gaps, Gapless(first), Delivered(first),
         UNCHANGED gaps, InSilence' = InSilence
  PROVE  Delivered(first)'
<1>1. /\ UNCHANGED <<origin, consumer, idleQueue, idles>>
      /\ state = "FRAME_READY" /\ state' = "WAITING" /\ taken' = frame
  BY DEF Take, Reset, queueVars, positionVars
<1>2. Backlog' = Backlog /\ Read' = Read
  BY <1>1 DEF Backlog, Read
<1>3. Coming(first) => Coming(first)'
  BY <1>1, <1>2 DEF Coming
<1>4. Ended(first) => Ended(first)'
  BY <1>1 DEF Ended, Burst
<1> QED
  BY <1>2, <1>3, <1>4 DEF Delivered

LEMMA DeliveryInvStep ==
  ASSUME NoRollover, Inv5, DeliveryInv, [Next]_vars
  PROVE  DeliveryInv'
<1> SUFFICES ASSUME NEW first \in DOMAIN gaps', Gapless(first)'
             PROVE  Delivered(first)'
  BY DEF DeliveryInv
<1>1. CASE StartByte
  BY <1>1, DeliveredStart
<1>2. CASE ~StartByte
  <2>1. Inv2 /\ gaps' = gaps /\ ~spoiled'
    BY <1>2, LineHeld DEF Inv5, Gapless, Tick
  <2>2. ~spoiled
    <3>1. spoiled => spoiled'
      <4>1. spoiled \in BOOLEAN
        BY <2>1, TypeParts DEF Inv2, Inv1, HistoryTypes
      <4> QED
        BY <1>2, <4>1 DEF Next, Disturb, Tick, Sample, Restart, RestartFails, EndTransport, ReceiveError,
           ReadByte, HandleIdle, NoIdle, HandleTimer, Take, historyVars, vars
    <3> QED
      BY <2>1, <3>1
  <2>3. first \in DOMAIN gaps /\ Gapless(first) /\ Delivered(first)
    BY <2>1, <2>2, ConstantsStay DEF Gapless, DeliveryInv
  <2>4. ~Disturb
    BY <2>1 DEF Disturb
  <2>5. ~Restart /\ ~RestartFails /\ ~ReceiveError
    <3>1. ~lineError /\ ~receiveError
      BY <2>1, <2>3, GaplessFacts
    <3> QED
      BY <3>1 DEF Restart, RestartFails, ReceiveError
  <2>6. CASE Tick
    BY <2>1, <2>3, <2>6, DeliveredTick
  <2>7. CASE ~Tick
    <3>1. InSilence' = InSilence
      BY <1>2, <2>1, <2>2, <2>7, StillSilent
    <3>2. CASE Sample
      BY <2>1, <2>3, <3>1, <3>2, DeliveredSample
    <3>3. CASE ReadByte
      BY <2>1, <2>3, <3>1, <3>3, DeliveredRead
    <3>4. CASE HandleIdle
      BY <2>1, <2>3, <3>1, <3>4, DeliveredIdle
    <3>5. CASE HandleTimer
      BY <2>1, <2>3, <3>1, <3>5, DeliveredTimer
    <3>6. CASE Take
      BY <2>1, <2>3, <3>1, <3>6, DeliveredTake
    <3>7. CASE NoIdle \/ UNCHANGED vars
      <4>1. UNCHANGED <<origin, consumer, state, frame, taken, idles, idleQueue>>
        BY <3>7 DEF NoIdle, InFramer, vars, framerVars, queueVars, positionVars, historyVars
      <4>2. Backlog' = Backlog /\ Read' = Read
        BY <4>1 DEF Backlog, Read
      <4> QED
        BY <2>1, <2>3, <3>1, <4>1, <4>2, DeliveredStays
    <3> QED
      BY <1>2, <2>4, <2>5, <2>7, <3>2, <3>3, <3>4, <3>5, <3>6, <3>7 DEF Next
  <2> QED
    BY <2>6, <2>7
<1> QED
  BY <1>1, <1>2

Inv6 == Inv5 /\ DeliveryInv

LEMMA Inv6Holds == ASSUME NoRollover PROVE Spec => []Inv6
<1>1. Init => Inv6
  <2> SUFFICES ASSUME Init PROVE Inv6
    OBVIOUS
  <2>1. DOMAIN gaps = {}
    BY EmptySeq DEF Init
  <2> QED
    BY <2>1, Inv2Init, SettleInvInit DEF Inv6, Inv5, DeliveryInv
<1>2. Inv6 /\ [Next]_vars => Inv6'
  BY Inv5Step, DeliveryInvStep DEF Inv6
<1> QED
  BY <1>1, <1>2, PTL DEF Spec

\* While the positions do not roll over, a frame is received, and entire, when it
\* is sent as it should be: after a silence, without a gap between its bytes, of
\* a length a frame can have, and with no error and no untaken frame in its way.
\* It does not matter how far behind the main loop is.
THEOREM ReceptionCorrect ==
  ASSUME NoRollover
  PROVE  Spec => []GoodFrameReceived
<1>1. Inv6 => GoodFrameReceived
  <2> SUFFICES ASSUME Inv6, NEW first \in DOMAIN gaps, GoodFrameSent(first)
               PROVE  Received(Burst(first))
    BY DEF GoodFrameReceived
  <2>1. /\ silence = Quiet /\ receiving = 0 /\ ~spoiled
        /\ Len(gaps) - first + 1 \in MinLength .. MaxLength
        /\ gaps[first] = Quiet /\ \A n \in first + 1 .. Len(gaps) : gaps[n] < CharacterTime
    BY DEF GoodFrameSent
  <2>2. Len(gaps) \in Nat /\ first \in Nat /\ MinLength \in Nat /\ MaxLength \in Nat
    <3>1. LineTypes
      BY Numbers DEF Inv6, Inv5, Inv2
    <3>2. Len(gaps) \in Nat /\ DOMAIN gaps = 1 .. Len(gaps)
      BY <3>1, LineFacts
    <3> QED
      BY <3>2, ConstantFacts
  <2>3. Gapless(first) /\ Len(gaps) - first + 1 >= MinLength
    <3>1. Len(gaps) - first < MaxLength /\ Len(gaps) - first + 1 >= MinLength
      BY <2>1, <2>2
    <3> QED
      BY <2>1, <3>1 DEF Gapless
  <2>4. Settling /\ state \in {"WAITING", "FRAME_READY"}
    BY <2>1, Settled DEF Inv6
  <2>5. Ended(first)
    <3>1. InSilence
      BY <2>1, ConstantsStay DEF InSilence
    <3>2. Backlog = 0
      BY <2>4 DEF Settling
    <3> QED
      BY <2>3, <3>1, <3>2 DEF Inv6, DeliveryInv, Delivered
  <2> QED
    BY <2>3, <2>4, <2>5 DEF Ended, Received, Waits
<1> QED
  BY <1>1, Inv6Holds, PTL
=============================================================================
