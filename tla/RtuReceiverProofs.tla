-------------------------- MODULE RtuReceiverProofs --------------------------
(***************************************************************************)
(* Proofs about RtuReceiver. The invariants are built up in layers, each   *)
(* proved from the ones below it. The first two hold whatever the passes   *)
(* and the errors do, and RtuDeliveryProofs goes on from them:             *)
(*   Inv1   types; a queued idle event is not behind the producer (also    *)
(*          across a rollover);                                            *)
(*   Inv2   what errors leave behind; what a pass knows: it can read all   *)
(*          but what came since it was sampled; the timer runs while the   *)
(*          framer waits; and no event is late while the main loop keeps   *)
(*          up.                                                            *)
(* The others hold while the main loop keeps up and the receiver is Sound: *)
(*   Inv3   one idle event is in hand at most, and tells the silence after *)
(*          its byte; the framer waits from the event it has marked, and   *)
(*          no event of a gap gets lost but by an error;                   *)
(*   Inv4   a lower and an upper bound on the silence while the framer     *)
(*          waits, so that T1.5 and T3.5 part the bytes at the right gaps, *)
(*          and the frame is the run of bytes since the last such gap.     *)
(* FrameIsWhole follows from Inv4.                                         *)
(***************************************************************************)
EXTENDS RtuReceiver, SequenceTheorems, TLAPS

\* Bytes of the stream the framer was given, and bytes it can be given.
Read == origin + consumer
Sampled == origin + producer
Byte(event) == origin + event.position

InPass == phase # "TRANSPORT"
SinceSample == IF InPass THEN wait ELSE MaxInside + wait

\* An idle event tells the silence after its byte, and its age the time since.
Aged(event) ==
  /\ event.position \in Nat /\ event.age \in Nat /\ Byte(event) =< Arrived
  /\ Byte(event) = Arrived =>
       silence >= CharacterTime /\ event.age = Since - CharacterTime
  /\ Byte(event) < Arrived =>
       /\ gaps[Byte(event) + 1] >= CharacterTime
       /\ event.age >= gaps[Byte(event) + 1] + Since

LineInv ==
  /\ receiving > 0 => gaps # <<>> /\ gaps[Len(gaps)] = Gap
  /\ Sampled =< Arrived /\ origin + written =< Arrived

EventsAhead ==
  \A n \in DOMAIN idleQueue :
    producer =< idleQueue[n].position /\ Byte(idleQueue[n]) =< Arrived

Inv1 == TypeOK /\ LineInv /\ EventsAhead

-----------------------------------------------------------------------------
(* Constants, sequences and the line.                                      *)

LEMMA ConstantFacts ==
  /\ CharacterTime \in Nat /\ T1_5 \in Nat /\ T3_5 \in Nat
  /\ MinLength \in Nat /\ MaxLength \in Nat /\ MaxBytes \in Nat /\ MaxErrors \in Nat
  /\ MaxPass \in Nat /\ MaxInside \in Nat /\ Pass \in Nat /\ Pass = MaxPass + MaxInside
  /\ PositionRange \in Nat /\ FirstPosition \in Nat /\ FirstPosition < PositionRange
  /\ 0 < CharacterTime /\ CharacterTime < T1_5 /\ T1_5 < T3_5
  /\ 0 < MinLength /\ 0 < MaxLength /\ 0 < MaxPass
  /\ IdleDepth \in Nat /\ IdleDepth > 1 /\ MaxBytes < PositionRange
  /\ Quiet \in Nat /\ T3_5 =< Quiet
<1> DEFINE n == 2 * IdleDepth + 3
<1>1. n \in Nat /\ Pass \in Nat
  BY TimingAssumption DEF Pass
<1> HIDE DEF n
<1>2. n * Pass \in Nat
  BY <1>1
<1>3. Quiet = T3_5 + n * Pass
  BY DEF Quiet, n
<1> QED
  BY <1>2, <1>3, TimingAssumption DEF Pass

LEMMA SeqFacts ==
  ASSUME NEW S, NEW s \in Seq(S)
  PROVE  /\ Len(s) \in Nat /\ DOMAIN s = 1 .. Len(s)
         /\ \A n \in 1 .. Len(s) : s[n] \in S
         /\ s # <<>> => Len(s) > 0
         /\ s = <<>> => Len(s) = 0
<1>1. Len(s) \in Nat /\ DOMAIN s = 1 .. Len(s)
  BY LenProperties
<1>2. \A n \in 1 .. Len(s) : s[n] \in S
  BY ElementOfSeq
<1>3. s # <<>> => Len(s) > 0
  BY EmptySeq
<1> QED
  BY <1>1, <1>2, <1>3, EmptySeq

\* A sequence over the bytes so far stays one when more bytes have arrived.
LEMMA SeqGrows ==
  ASSUME NEW m \in Nat, NEW n \in Nat, m =< n, NEW s \in Seq(1 .. m)
  PROVE  s \in Seq(1 .. n)
<1>1. 1 .. m \subseteq 1 .. n
  OBVIOUS
<1> QED
  BY <1>1, SeqMonotonic

Events(last) == [position : 0 .. last, age : 0 .. T3_5]

LEMMA EventsGrow ==
  ASSUME NEW m \in Nat, NEW n \in Nat, m =< n, NEW s \in Seq(Events(m))
  PROVE  s \in Seq(Events(n))
<1>1. 0 .. m \subseteq 0 .. n
  OBVIOUS
<1>2. Events(m) \subseteq Events(n)
  BY <1>1 DEF Events
<1> QED
  BY <1>2, SeqMonotonic

\* Older keeps the number of events and their positions.
LEMMA OlderFacts ==
  ASSUME NEW m \in Nat, NEW s \in Seq(Events(m))
  PROVE  /\ Older(s) \in Seq(Events(m)) /\ Len(Older(s)) = Len(s)
         /\ \A n \in 1 .. Len(s) :
              /\ Older(s)[n].position = s[n].position
              /\ Older(s)[n].age = Capped(s[n].age + 1, T3_5)
<1>1. Len(s) \in Nat /\ DOMAIN s = 1 .. Len(s) /\ \A n \in 1 .. Len(s) : s[n] \in Events(m)
  OBVIOUS
<1>2. \A n \in 1 .. Len(s) : s[n].position \in 0 .. m /\ s[n].age \in 0 .. T3_5
  BY <1>1 DEF Events
<1>3. \A n \in 1 .. Len(s) : Capped(s[n].age + 1, T3_5) \in 0 .. T3_5
  <2>1. T3_5 \in Nat
    BY ConstantFacts
  <2>2. \A a \in 0 .. T3_5 : Capped(a + 1, T3_5) \in 0 .. T3_5
    BY <2>1 DEF Capped
  <2> QED
    BY <1>2, <2>2
<1>4. \A n \in 1 .. Len(s) :
        [position |-> s[n].position, age |-> Capped(s[n].age + 1, T3_5)] \in Events(m)
  BY <1>2, <1>3 DEF Events
<1>5. Older(s) \in [1 .. Len(s) -> Events(m)]
  BY <1>1, <1>4 DEF Older
<1>6. Older(s) \in Seq(Events(m))
  BY <1>1, <1>5, SeqDef
<1>7. Len(Older(s)) = Len(s)
  BY <1>1, <1>5, <1>6, LenProperties
<1>8. \A n \in 1 .. Len(s) :
        Older(s)[n] = [position |-> s[n].position, age |-> Capped(s[n].age + 1, T3_5)]
  BY <1>1 DEF Older
<1>9. \A n \in 1 .. Len(s) : /\ Older(s)[n].position = s[n].position
                              /\ Older(s)[n].age = Capped(s[n].age + 1, T3_5)
  <2> TAKE n \in 1 .. Len(s)
  <2>1. Older(s)[n] = [position |-> s[n].position, age |-> Capped(s[n].age + 1, T3_5)]
    BY <1>8
  <2> QED
    BY <2>1
<1> QED
  BY <1>6, <1>7, <1>9

LineTypes ==
  /\ receiving \in 0 .. CharacterTime /\ silence \in 0 .. Quiet
  /\ gaps \in Seq(0 .. Quiet) /\ Len(gaps) =< MaxBytes
  /\ receiving > 0 => gaps # <<>> /\ gaps[Len(gaps)] = Gap

LEMMA LineFacts ==
  ASSUME LineTypes
  PROVE  /\ Len(gaps) \in Nat /\ Arrived \in Nat /\ Arrived =< Len(gaps)
         /\ Len(gaps) =< MaxBytes
         /\ receiving = 0 => Arrived = Len(gaps)
         /\ receiving > 0 => Arrived = Len(gaps) - 1
         /\ Since \in Nat /\ silence \in Nat /\ silence =< Since
         /\ DOMAIN gaps = 1 .. Len(gaps) /\ \A n \in 1 .. Len(gaps) : gaps[n] \in 0 .. Quiet
<1>1. Len(gaps) \in Nat /\ DOMAIN gaps = 1 .. Len(gaps)
      /\ \A n \in 1 .. Len(gaps) : gaps[n] \in 0 .. Quiet
  <2>1. gaps \in Seq(0 .. Quiet)
    BY DEF LineTypes
  <2> QED
    BY <2>1, SeqFacts
<1>2. receiving > 0 => Len(gaps) > 0
  BY <1>1, SeqFacts DEF LineTypes
<1>3. Len(gaps) =< MaxBytes /\ receiving \in 0 .. CharacterTime /\ silence \in 0 .. Quiet
  BY DEF LineTypes
<1>4. Since \in Nat /\ silence \in Nat /\ silence =< Since
  BY <1>3, ConstantFacts DEF Since
<1>5. /\ Arrived \in Nat /\ Arrived =< Len(gaps)
      /\ receiving = 0 => Arrived = Len(gaps)
      /\ receiving > 0 => Arrived = Len(gaps) - 1
  <2>1. Len(gaps) \in Nat /\ receiving \in Int /\ receiving >= 0
    BY <1>1, <1>3, ConstantFacts
  <2>2. CASE receiving > 0
    BY <1>2, <2>1, <2>2 DEF Arrived
  <2>3. CASE receiving = 0
    BY <2>1, <2>3 DEF Arrived
  <2> QED
    BY <2>1, <2>2, <2>3
<1> QED
  BY <1>1, <1>3, <1>4, <1>5

LEMMA GapTypes ==
  ASSUME LineTypes, NEW b \in Nat, b < Arrived
  PROVE  gaps[b + 1] \in Nat
<1>1. Arrived \in Nat /\ Len(gaps) \in Nat /\ Arrived =< Len(gaps)
  BY LineFacts
<1>2. \A n \in 1 .. Len(gaps) : gaps[n] \in 0 .. Quiet
  BY LineFacts
<1>3. b + 1 \in 1 .. Len(gaps)
  BY <1>1
<1> QED
  BY <1>2, <1>3, ConstantFacts

LEMMA GapFacts ==
  ASSUME LineTypes
  PROVE  /\ Gap \in 0 .. Quiet /\ (Gap >= CharacterTime <=> silence >= CharacterTime)
         /\ Gap =< silence /\ (Gap = Quiet <=> silence = Quiet)
         /\ Gap >= T3_5 \/ Gap = silence
BY ConstantFacts DEF LineTypes, Gap, Capped

\* Nothing but a tick moves the line, but for a byte that begins.
LEMMA LineStill ==
  ASSUME LineTypes, StartByte \/ UNCHANGED lineVars
  PROVE  /\ LineTypes' /\ Arrived' = Arrived /\ Since' = Since /\ silence' = silence
         /\ \A n \in 1 .. Arrived : gaps'[n] = gaps[n]
<1>1. CASE StartByte
  <2>1. /\ gaps' = Append(gaps, Gap) /\ silence' = silence
        /\ receiving = 0 /\ receiving' = CharacterTime /\ Len(gaps) < MaxBytes
    BY <1>1 DEF StartByte
  <2>2. gaps \in Seq(0 .. Quiet) /\ Gap \in 0 .. Quiet
    BY GapFacts DEF LineTypes
  <2>3. /\ gaps' \in Seq(0 .. Quiet) /\ Len(gaps') = Len(gaps) + 1
        /\ \A n \in 1 .. Len(gaps) : gaps'[n] = gaps[n]
        /\ gaps'[Len(gaps) + 1] = Gap
    BY <2>1, <2>2, AppendProperties
  <2>4. Gap' = Gap
    BY <2>1 DEF Gap
  <2>5. Len(gaps) \in Nat /\ gaps' # <<>>
    BY <2>2, <2>3, EmptySeq
  <2>6. LineTypes'
    BY <2>1, <2>3, <2>4, <2>5, ConstantFacts DEF LineTypes
  <2> QED
    BY <2>1, <2>3, <2>5, <2>6, ConstantFacts DEF LineTypes, Arrived, Since
<1>2. CASE UNCHANGED lineVars
  BY <1>2 DEF lineVars, LineTypes, Arrived, Since, Gap
<1> QED
  BY <1>1, <1>2

\* A tick goes on with a byte or a silence, or completes a byte, or nothing is
\* counted any more.
TickOn == Arrived' = Arrived /\ Since' = Since + 1 /\ silence' \in {silence, Since'}
          /\ (silence' = silence \/ silence' = silence + 1)
TickOver == Arrived' = Arrived /\ Since' = Since /\ silence' = silence /\ Since = Quiet
TickByte == /\ Arrived' = Arrived + 1 /\ Since' = 0 /\ silence' = 0
            /\ Since = silence + CharacterTime - 1 /\ gaps[Arrived + 1] = Gap
            /\ Arrived + 1 =< MaxBytes

LEMMA LineTick ==
  ASSUME LineTypes, Tick
  PROVE  LineTypes' /\ gaps' = gaps /\ (TickOn \/ TickOver \/ TickByte)
<1>1. gaps' = gaps
  BY DEF Tick
<1>2. CASE receiving > 1
  <2>1. receiving' = receiving - 1 /\ silence' = silence
    BY <1>2, ConstantFacts DEF Tick, LineTypes
  <2> QED
    BY <1>1, <1>2, <2>1, ConstantFacts DEF LineTypes, Arrived, Since, Gap, TickOn
<1>3. CASE receiving = 1
  <2>1. receiving' = 0 /\ silence' = 0
    BY <1>3 DEF Tick
  <2>2. Arrived + 1 = Len(gaps) /\ gaps[Len(gaps)] = Gap
    BY <1>3, LineFacts DEF LineTypes
  <2> QED
    BY <1>1, <1>3, <2>1, <2>2, LineFacts, ConstantFacts DEF LineTypes, Arrived, Since, TickByte
<1>4. CASE receiving = 0
  <2>1. receiving' = 0 /\ silence' = Capped(silence + 1, Quiet)
    BY <1>4 DEF Tick
  <2> QED
    BY <1>1, <1>4, <2>1, ConstantFacts DEF LineTypes, Arrived, Since, Capped, TickOn, TickOver
<1> QED
  BY <1>2, <1>3, <1>4, ConstantFacts DEF LineTypes

-----------------------------------------------------------------------------
(* The types, and the idle events the interrupt handler holds.             *)

PositionTypes == /\ origin \in 0 .. Arrived /\ base \in {0, FirstPosition}
                 /\ consumer \in 0 .. producer
                 /\ producer \in 0 .. Arrived /\ written \in 0 .. Arrived
QueueTypes == /\ idleQueue \in Seq(Events(Arrived)) /\ Len(idleQueue) =< IdleDepth
              /\ idles \in Seq(Events(Arrived)) /\ Len(idles) =< IdleDepth
ErrorTypes == /\ lineError \in BOOLEAN /\ errors \in 0 .. MaxErrors /\ stopped \in BOOLEAN
              /\ receiveError \in BOOLEAN
FramerTypes == /\ state \in FramerStates /\ mark \in 0 .. Arrived
               /\ frame \in Seq(1 .. Arrived) /\ Len(frame) =< MaxLength
TimerTypes == timer \in 0 .. T3_5 /\ elapsed \in BOOLEAN
PhaseTypes == phase \in {"TRANSPORT", "FRAMER", "TIMER"} /\ wait \in 0 .. WaitBound
HistoryTypes == taken \in Seq(1 .. Arrived) /\ spoiled \in BOOLEAN /\ late \in BOOLEAN

LEMMA TypeParts ==
  TypeOK /\ LineInv <=>
    /\ LineTypes /\ PositionTypes /\ QueueTypes /\ ErrorTypes /\ FramerTypes
    /\ TimerTypes /\ PhaseTypes /\ HistoryTypes /\ LineInv
BY DEF TypeOK, LineInv, LineTypes, PositionTypes, QueueTypes, ErrorTypes, FramerTypes,
       TimerTypes, PhaseTypes, HistoryTypes, IdleEvents, Events

LEMMA TypePartsNext ==
  (TypeOK /\ LineInv)' <=>
    (/\ LineTypes /\ PositionTypes /\ QueueTypes /\ ErrorTypes /\ FramerTypes
     /\ TimerTypes /\ PhaseTypes /\ HistoryTypes /\ LineInv)'
BY DEF TypeOK, LineInv, LineTypes, PositionTypes, QueueTypes, ErrorTypes, FramerTypes,
       TimerTypes, PhaseTypes, HistoryTypes, IdleEvents, Events

\* The numbers of a state, as the proofs below take them.
LEMMA Numbers ==
  ASSUME Inv1
  PROVE  /\ LineTypes
         /\ Arrived \in Nat /\ Since \in Nat /\ silence \in Nat /\ silence =< Since
         /\ Arrived =< MaxBytes
         /\ origin \in Nat /\ consumer \in Nat /\ producer \in Nat /\ written \in Nat
         /\ mark \in Nat /\ wait \in Nat /\ timer \in Nat /\ timer =< T3_5
         /\ Read \in Nat /\ Sampled \in Nat /\ SinceSample \in Nat
         /\ Read = origin + consumer /\ Sampled = origin + producer
         /\ consumer =< producer /\ Read =< Sampled /\ Sampled =< Arrived
         /\ origin =< Arrived /\ producer =< Arrived /\ origin + written =< Arrived
         /\ wait =< WaitBound /\ SinceSample =< Pass
         /\ InPass => wait =< MaxInside /\ SinceSample = wait
         /\ ~InPass => wait =< MaxPass /\ SinceSample = MaxInside + wait
<1>1. /\ LineTypes /\ PositionTypes /\ FramerTypes /\ TimerTypes /\ PhaseTypes /\ LineInv
  BY TypeParts DEF Inv1
<1>2. /\ Arrived \in Nat /\ Since \in Nat /\ silence \in Nat /\ silence =< Since
      /\ Arrived =< MaxBytes
  BY <1>1, LineFacts, ConstantFacts
<1>3. /\ origin \in Nat /\ producer \in Nat /\ written \in Nat /\ mark \in Nat
      /\ origin =< Arrived /\ producer =< Arrived
  BY <1>1, <1>2 DEF PositionTypes, FramerTypes
<1>4. consumer \in Nat /\ consumer =< producer
  BY <1>1, <1>3 DEF PositionTypes
<1>5. timer \in Nat /\ timer =< T3_5
  BY <1>1, ConstantFacts DEF TimerTypes
<1>6. WaitBound \in Nat
  BY ConstantFacts DEF WaitBound
<1>7. /\ wait \in Nat /\ wait =< WaitBound
      /\ InPass => wait =< MaxInside
      /\ ~InPass => wait =< MaxPass
  BY <1>1, <1>6, ConstantFacts DEF PhaseTypes, WaitBound, InPass
<1>8. /\ SinceSample \in Nat /\ SinceSample =< Pass
      /\ InPass => SinceSample = wait
      /\ ~InPass => SinceSample = MaxInside + wait
  BY <1>7, ConstantFacts DEF SinceSample
<1>9. /\ Read \in Nat /\ Sampled \in Nat
      /\ Read = origin + consumer /\ Sampled = origin + producer /\ Read =< Sampled
  BY <1>3, <1>4 DEF Read, Sampled
<1>10. Sampled =< Arrived /\ origin + written =< Arrived
  BY <1>1 DEF LineInv
<1> QED
  BY <1>1, <1>2, <1>3, <1>4, <1>5, <1>7, <1>8, <1>9, <1>10

Moves == /\ LineTypes' /\ Arrived' \in Nat /\ Arrived =< Arrived' /\ Arrived' =< MaxBytes

LEMMA LineNext ==
  ASSUME LineTypes, [Next]_vars
  PROVE  /\ Moves
         /\ ~Tick => /\ Arrived' = Arrived /\ Since' = Since /\ silence' = silence
                     /\ \A n \in 1 .. Arrived : gaps'[n] = gaps[n]
<1>1. Tick \/ StartByte \/ UNCHANGED lineVars
  BY DEF Next, vars, Disturb, Sample, Restart, RestartFails, EndTransport, ReceiveError, ReadByte,
     HandleIdle,
         NoIdle, InFramer, HandleTimer, Take
<1>2. Arrived \in Nat /\ Arrived =< MaxBytes /\ MaxBytes \in Nat
  BY LineFacts, ConstantFacts
<1>3. CASE Tick
  <2>1. /\ LineTypes'
        /\ Arrived' = Arrived \/ (Arrived' = Arrived + 1 /\ Arrived + 1 =< MaxBytes)
    BY <1>3, LineTick DEF TickOn, TickOver, TickByte
  <2>2. CASE Arrived' = Arrived
    <3>1. Arrived' \in Nat /\ Arrived =< Arrived' /\ Arrived' =< MaxBytes
      BY <1>2, <2>2
    <3> QED
      BY <1>3, <2>1, <3>1 DEF Moves
  <2>3. CASE Arrived' = Arrived + 1 /\ Arrived + 1 =< MaxBytes
    <3>1. Arrived' \in Nat /\ Arrived =< Arrived' /\ Arrived' =< MaxBytes
      BY <1>2, <2>3
    <3> QED
      BY <1>3, <2>1, <3>1 DEF Moves
  <2> QED
    BY <2>1, <2>2, <2>3
<1>4. CASE StartByte \/ UNCHANGED lineVars
  <2>1. /\ LineTypes' /\ Arrived' = Arrived /\ Since' = Since /\ silence' = silence
        /\ \A n \in 1 .. Arrived : gaps'[n] = gaps[n]
    BY <1>4, LineStill
  <2> QED
    BY <1>2, <2>1 DEF Moves
<1> QED
  BY <1>1, <1>3, <1>4

\* What an event tells stays true while the line goes on.
LEMMA AgedTick ==
  ASSUME LineTypes, Tick, origin \in Nat, NEW p \in Nat, NEW a \in Nat,
         Aged([position |-> p, age |-> a]), a < T3_5 - CharacterTime
  PROVE  /\ origin + p =< Arrived /\ Arrived =< Arrived'
         /\ origin + p = Arrived' => silence' >= CharacterTime /\ a + 1 = Since' - CharacterTime
         /\ origin + p < Arrived' =>
              /\ gaps'[origin + p + 1] >= CharacterTime
              /\ a + 1 >= gaps'[origin + p + 1] + Since'
<1> DEFINE b == origin + p
           g == gaps[b + 1]
<1>1. /\ b \in Nat /\ b =< Arrived
      /\ b = Arrived => silence >= CharacterTime /\ a = Since - CharacterTime
      /\ b < Arrived => g >= CharacterTime /\ a >= g + Since
  BY DEF Aged, Byte
<1>2. Arrived \in Nat /\ Since \in Nat /\ silence \in Nat /\ silence =< Since
  BY LineFacts
<1>3. gaps' = gaps /\ (TickOn \/ TickOver \/ TickByte)
  BY LineTick
<1>4. b < Arrived => g \in Nat
  BY <1>1, GapTypes
<1>5. gaps'[b + 1] = g
  BY <1>3
<1>6. /\ CharacterTime \in Nat /\ T3_5 \in Nat /\ Quiet \in Nat /\ 0 < CharacterTime
      /\ T3_5 =< Quiet
  BY ConstantFacts
<1>7. b = Arrived => g = gaps[Arrived + 1]
  OBVIOUS
<1> HIDE DEF b, g
<1> DEFINE Goal == /\ b =< Arrived /\ Arrived =< Arrived'
                   /\ b = Arrived' => silence' >= CharacterTime /\ a + 1 = Since' - CharacterTime
                   /\ b < Arrived' => g >= CharacterTime /\ a + 1 >= g + Since'
<1>8. Goal
  <2>1. CASE TickOn
    <3>1. Arrived' = Arrived /\ Since' = Since + 1
      BY <2>1 DEF TickOn
    <3>2. CASE silence' = silence
      BY <1>1, <1>2, <1>4, <1>6, <3>1, <3>2
    <3>3. CASE silence' = silence + 1
      BY <1>1, <1>2, <1>4, <1>6, <3>1, <3>3
    <3> QED
      BY <2>1, <3>2, <3>3 DEF TickOn
  <2>2. CASE TickOver
    <3>1. Arrived' = Arrived /\ Since' = Since /\ silence' = silence /\ Since = Quiet
      BY <2>2 DEF TickOver
    <3> QED
      BY <1>1, <1>2, <1>4, <1>6, <3>1
  <2>3. CASE TickByte
    <3>1. /\ Arrived' = Arrived + 1 /\ Since' = 0 /\ silence' = 0
          /\ Since = silence + CharacterTime - 1
      BY <2>3 DEF TickByte
    <3>2. b = Arrived => g \in Nat /\ g =< silence /\ (silence >= CharacterTime => g >= CharacterTime)
      <4>1. gaps[Arrived + 1] = Gap
        BY <2>3 DEF TickByte
      <4> QED
        BY <1>7, <4>1, GapFacts, ConstantFacts
    <3> QED
      BY <1>1, <1>2, <1>4, <1>6, <3>1, <3>2
  <2> QED
    BY <1>3, <2>1, <2>2, <2>3
<1>9. b = origin + p
  BY DEF b
<1> QED
  BY <1>5, <1>8, <1>9

\* The queue a sample leaves: the events that were there, then what fits of the
\* ones the interrupt handler had.
LEMMA CollectedFacts ==
  ASSUME Inv1
  PROVE  /\ Collected \in Seq(Events(Arrived)) /\ Len(Collected) \in Nat
         /\ Len(Collected) =< IdleDepth
         /\ Len(idles) \in Nat /\ Len(idleQueue) \in Nat
         /\ Len(Collected) =< Len(idles) + Len(idleQueue)
         /\ Len(idles) =< Len(Collected)
         /\ ~Crowded => Len(Collected) = Len(idles) + Len(idleQueue)
         /\ \A n \in 1 .. Len(Collected) :
              /\ n =< Len(idles) => n \in 1 .. Len(idles) /\ Collected[n] = idles[n]
              /\ n > Len(idles) => /\ n - Len(idles) \in 1 .. Len(idleQueue)
                                   /\ Collected[n] = idleQueue[n - Len(idles)]
<1>1. /\ idles \in Seq(Events(Arrived)) /\ idleQueue \in Seq(Events(Arrived))
      /\ Len(idles) \in Nat /\ Len(idleQueue) \in Nat /\ Len(idles) =< IdleDepth
      /\ IdleDepth \in Nat
  BY TypeParts, SeqFacts, ConstantFacts DEF Inv1, QueueTypes
<1> DEFINE all == idles \o idleQueue
<1>2. PICK i \in Nat, q \in Nat : i = Len(idles) /\ q = Len(idleQueue)
  BY <1>1
<1>3. /\ all \in Seq(Events(Arrived)) /\ Len(all) = i + q
      /\ \A n \in 1 .. i + q : all[n] = IF n =< i THEN idles[n] ELSE idleQueue[n - i]
  BY <1>1, <1>2, ConcatProperties
<1>4. PICK c \in Nat : /\ c = Capped(i + q, IdleDepth) /\ c =< i + q /\ c =< IdleDepth
                       /\ i =< c /\ (~(i + q > IdleDepth) => c = i + q)
  BY <1>1, <1>2 DEF Capped
<1> HIDE DEF all
<1>5. \A n \in 1 .. c : n \in 1 .. Len(all) /\ all[n] \in Events(Arrived)
  BY <1>2, <1>3, <1>4, ElementOfSeq
<1>6. Collected = SubSeq(all, 1, c)
  BY <1>2, <1>4 DEF Collected, all
<1>7. /\ Collected \in Seq(Events(Arrived))
      /\ Len(Collected) = (IF 1 =< c THEN c - 1 + 1 ELSE 0)
      /\ \A n \in 1 .. c - 1 + 1 : Collected[n] = all[1 + n - 1]
  BY <1>5, <1>6, SubSeqProperties
<1>8. Len(Collected) = c /\ \A n \in 1 .. c : Collected[n] = all[n]
  BY <1>7
<1>9. ASSUME NEW n \in 1 .. c
      PROVE  /\ n =< i => n \in 1 .. i /\ Collected[n] = idles[n]
             /\ n > i => n - i \in 1 .. q /\ Collected[n] = idleQueue[n - i]
  <2>1. n \in 1 .. i + q /\ Collected[n] = (IF n =< i THEN idles[n] ELSE idleQueue[n - i])
    BY <1>3, <1>4, <1>8
  <2> QED
    BY <1>4, <2>1
<1>10. ~Crowded => c = i + q
  BY <1>2, <1>4 DEF Crowded
<1> QED
  BY <1>2, <1>4, <1>7, <1>8, <1>9, <1>10

\* The producer is moved to the position of the DMA or of an idle event.
LEMMA CollectFacts ==
  ASSUME Inv1, Collect
  PROVE  /\ producer' \in Nat /\ producer =< producer' /\ origin + producer' =< Arrived
         /\ FirstPosition + MaxBytes < PositionRange => producer' = Position
         /\ written' = Position /\ Position \in Nat /\ origin + Position = Arrived
         /\ origin' = origin /\ base' = base /\ consumer' = consumer /\ idles' = Collected
<1> DEFINE new == {Collected[n].position : n \in Len(idles) + 1 .. Len(Collected)}
           S == {Position} \cup new
<1>0. /\ origin' = origin /\ base' = base /\ consumer' = consumer /\ idles' = Collected
      /\ written' = Position
  BY DEF Collect
<1>1. producer' \in S /\ \A r \in S : Absolute(r) =< Absolute(producer')
  BY DEF Collect, Furthest
<1>2. /\ Arrived \in Nat /\ origin \in Nat /\ producer \in Nat /\ origin =< Arrived
      /\ origin + producer =< Arrived /\ Arrived =< MaxBytes
  BY Numbers DEF Sampled
<1>3. /\ PositionRange \in Nat /\ PositionRange > 0 /\ FirstPosition \in Nat /\ MaxBytes \in Nat
      /\ MaxBytes < PositionRange
  BY ConstantFacts
<1>4. base \in {0, FirstPosition}
  BY TypeParts DEF Inv1, PositionTypes
<1>5. Position \in Nat /\ origin + Position = Arrived /\ producer =< Position
  BY <1>2 DEF Position
<1>6. ASSUME NEW e \in S
      PROVE  e \in Nat /\ origin + e =< Arrived /\ producer =< e
  <2>1. CASE e = Position
    BY <1>2, <1>5, <2>1
  <2>2. CASE e \in new
    <3>1. PICK n \in Len(idles) + 1 .. Len(Collected) : e = Collected[n].position
      BY <2>2
    <3>2. PICK k : /\ k = n - Len(idles) /\ k \in 1 .. Len(idleQueue)
                   /\ Collected[n] = idleQueue[k]
      <4>1. n \in 1 .. Len(Collected) /\ n > Len(idles)
        BY <3>1, CollectedFacts
      <4> QED
        BY <4>1, CollectedFacts
    <3>3. DOMAIN idleQueue = 1 .. Len(idleQueue) /\ idleQueue[k] \in Events(Arrived)
      BY <3>2, TypeParts, SeqFacts DEF Inv1, QueueTypes
    <3>4. producer =< idleQueue[k].position /\ Byte(idleQueue[k]) =< Arrived
      BY <3>2, <3>3 DEF Inv1, EventsAhead
    <3>5. idleQueue[k].position \in 0 .. Arrived
      BY <3>3 DEF Events
    <3> QED
      BY <1>2, <3>1, <3>2, <3>4, <3>5 DEF Byte
  <2> QED
    BY <2>1, <2>2
<1>7. ASSUME FirstPosition + MaxBytes < PositionRange
      PROVE  producer' = Position
  <2>1. PICK e : e = producer'
    OBVIOUS
  <2>2. e \in Nat /\ origin + e =< Arrived /\ Absolute(Position) =< Absolute(e)
    BY <1>1, <1>6, <2>1
  <2>3. /\ base \in Nat /\ base =< FirstPosition /\ e =< Position /\ Position =< MaxBytes
    BY <1>2, <1>3, <1>4, <1>5, <2>2
  <2>4. Absolute(Position) = base + Position /\ Absolute(e) = base + e
    <3>1. base + Position < PositionRange /\ base + e < PositionRange
      BY <1>3, <1>5, <1>7, <2>2, <2>3
    <3> QED
      BY <1>3, <1>5, <2>2, <2>3, <3>1 DEF Absolute
  <2>5. e = Position
    BY <1>5, <2>2, <2>3, <2>4
  <2> QED
    BY <2>1, <2>5
<1> HIDE DEF S, new
<1>8. producer' \in Nat /\ producer =< producer' /\ origin + producer' =< Arrived
  BY <1>1, <1>6
<1> QED
  BY <1>0, <1>5, <1>7, <1>8

\* No step takes bytes back, and only a tick brings one.
LEMMA ArrivedStep ==
  ASSUME Inv1, [Next]_vars
  PROVE  /\ LineTypes' /\ Arrived \in Nat /\ Arrived =< MaxBytes /\ MaxBytes \in Nat
         /\ \/ Arrived' = Arrived
            \/ (Tick /\ Arrived' = Arrived + 1 /\ Arrived + 1 =< MaxBytes)
<1>1. LineTypes /\ Arrived \in Nat /\ Arrived =< MaxBytes /\ MaxBytes \in Nat
  BY Numbers, ConstantFacts
<1>2. LineTypes' /\ (~Tick => Arrived' = Arrived)
  BY <1>1, LineNext DEF Moves
<1>3. Tick => Arrived' = Arrived \/ (Arrived' = Arrived + 1 /\ Arrived + 1 =< MaxBytes)
  BY <1>1, LineTick DEF TickOn, TickOver, TickByte
<1> QED
  BY <1>1, <1>2, <1>3

LEMMA PositionStep ==
  ASSUME Inv1, [Next]_vars
  PROVE  PositionTypes' /\ LineInv'
<1>1. /\ Arrived \in Nat /\ LineTypes'
      /\ Arrived' = Arrived \/ (Tick /\ Arrived' = Arrived + 1)
  BY ArrivedStep
<1>2. /\ origin \in Nat /\ producer \in Nat /\ consumer \in Nat /\ written \in Nat
      /\ consumer =< producer /\ origin + producer =< Arrived /\ origin + written =< Arrived
      /\ origin =< Arrived
  BY Numbers DEF Sampled
<1>3. base \in {0, FirstPosition}
  BY TypeParts DEF Inv1, PositionTypes
<1> SUFFICES /\ PositionTypes'
             /\ origin' + producer' =< Arrived' /\ origin' + written' =< Arrived'
  BY <1>1 DEF LineInv, LineTypes, Sampled
<1>4. CASE Collect /\ ~Tick
  <2>1. /\ origin' = origin /\ base' = base /\ consumer' = consumer /\ written' = Position
        /\ producer' \in Nat /\ producer =< producer' /\ origin + producer' =< Arrived
        /\ Position \in Nat /\ origin + Position = Arrived
    BY <1>4, CollectFacts
  <2>2. Arrived' = Arrived
    BY <1>1, <1>4
  <2>3. PICK q : q = producer'
    OBVIOUS
  <2>4. q \in Nat /\ producer =< q /\ origin + q =< Arrived
    BY <2>1, <2>3
  <2>5. consumer \in 0 .. q /\ q \in 0 .. Arrived /\ Position \in 0 .. Arrived /\ origin \in 0 .. Arrived
    BY <1>1, <1>2, <2>1, <2>4
  <2> QED
    BY <1>3, <2>1, <2>2, <2>3, <2>4, <2>5 DEF PositionTypes
<1>5. CASE Restart
  <2>1. /\ origin' = Arrived /\ base' = 0 /\ consumer' = 0 /\ written' = 0 /\ producer' = 0
    BY <1>5 DEF Restart
  <2>2. Arrived' = Arrived
    BY <1>1, <1>5 DEF Restart, EndTransport, Tick
  <2> QED
    BY <1>1, <2>1, <2>2 DEF PositionTypes
<1>8. CASE Tick
  <2>1. /\ base' = base /\ producer' = producer /\ written' = written /\ consumer' = consumer
        /\ origin' = origin \/ (origin' = origin + 1 /\ receiving = 1)
    BY <1>8 DEF Tick
  <2>2. receiving = 1 => Arrived' = Arrived + 1
    <3>1. receiving = 1 => receiving' = 0 /\ gaps' = gaps
      BY <1>8 DEF Tick
    <3>2. receiving = 1 => Arrived = Len(gaps) - 1 /\ Len(gaps) \in Nat
      BY Numbers, LineFacts
    <3> QED
      BY <3>1, <3>2 DEF Arrived
  <2>3. PICK a, o : a = Arrived' /\ o = origin'
    OBVIOUS
  <2>4. /\ a = Arrived \/ a = Arrived + 1
        /\ o = origin \/ (o = origin + 1 /\ a = Arrived + 1)
    BY <1>1, <2>1, <2>2, <2>3
  <2>5. /\ o \in 0 .. a /\ consumer \in 0 .. producer /\ producer \in 0 .. a
        /\ written \in 0 .. a /\ o + producer =< a /\ o + written =< a
    BY <1>1, <1>2, <2>4
  <2> QED
    BY <1>3, <2>1, <2>3, <2>5 DEF PositionTypes
<1>6. CASE ReceiveError \/ ReadByte
  <2>1. /\ origin' = origin /\ base' = base /\ producer' = producer /\ written' = written
        /\ consumer' = producer \/ (consumer' = consumer + 1 /\ consumer # producer)
    BY <1>6 DEF ReceiveError, ReadByte, InFramer, positionVars
  <2>2. Arrived' = Arrived
    BY <1>6, LineNext, Numbers DEF ReceiveError, ReadByte, InFramer, lineVars, Tick, Arrived
  <2>3. CASE consumer' = producer
    BY <1>1, <1>2, <1>3, <2>1, <2>2, <2>3 DEF PositionTypes
  <2>4. CASE consumer' = consumer + 1 /\ consumer # producer
    BY <1>1, <1>2, <1>3, <2>1, <2>2, <2>4 DEF PositionTypes
  <2> QED
    BY <2>1, <2>3, <2>4
<1>7. CASE UNCHANGED <<positionVars, consumer>>
  <2>1. /\ origin' = origin /\ base' = base /\ producer' = producer /\ written' = written
        /\ consumer' = consumer
    BY <1>7 DEF positionVars
  <2>2. CASE Arrived' = Arrived
    BY <1>1, <1>2, <1>3, <2>1, <2>2 DEF PositionTypes
  <2>3. CASE Arrived' = Arrived + 1
    BY <1>1, <1>2, <1>3, <2>1, <2>3 DEF PositionTypes
  <2> QED
    BY <1>1, <2>2, <2>3
<1> QED
  BY <1>4, <1>5, <1>6, <1>7, <1>8 DEF Next, vars, StartByte, Disturb, Sample, RestartFails,
     EndTransport, Tick, HandleIdle, NoIdle, InFramer, HandleTimer, Take

LEMMA ErrorStep ==
  ASSUME Inv1, [Next]_vars
  PROVE  ErrorTypes'
<1>1. /\ lineError \in BOOLEAN /\ errors \in 0 .. MaxErrors /\ receiveError \in BOOLEAN
      /\ stopped \in BOOLEAN /\ MaxErrors \in Nat
  BY TypeParts, ConstantFacts DEF Inv1, ErrorTypes
<1>2. CASE Disturb
  BY <1>1, <1>2 DEF Disturb, ErrorTypes
<1>3. CASE /\ Sample \/ Restart \/ RestartFails \/ ReceiveError \/ Tick
              \/ UNCHANGED <<errorVars, receiveError>>
  <2>1. errors' = errors
    BY <1>3 DEF Sample, Restart, RestartFails, EndTransport, ReceiveError, Tick, InFramer, errorVars
  <2>2. lineError' \in {lineError, TRUE, FALSE} /\ stopped' \in {stopped, TRUE, FALSE}
    BY <1>3 DEF Sample, Restart, RestartFails, EndTransport, ReceiveError, Tick, InFramer, errorVars
  <2>3. receiveError' \in BOOLEAN
    BY <1>1, <1>3 DEF Sample, Restart, RestartFails, ReceiveError, Tick, InFramer
  <2> QED
    BY <1>1, <2>1, <2>2, <2>3 DEF ErrorTypes
<1> QED
  BY <1>2, <1>3 DEF Next, vars, errorVars, StartByte, Tick, ReadByte, HandleIdle, NoIdle, InFramer,
     HandleTimer, Take

LEMMA PhaseStep ==
  ASSUME Inv1, [Next]_vars
  PROVE  PhaseTypes'
<1>1. /\ phase \in {"TRANSPORT", "FRAMER", "TIMER"} /\ wait \in Nat /\ wait =< WaitBound
      /\ WaitBound \in Nat /\ WaitBound = (IF phase = "TRANSPORT" THEN MaxPass ELSE MaxInside)
      /\ MaxInside \in Nat /\ MaxPass \in Nat
  BY TypeParts, ConstantFacts DEF Inv1, PhaseTypes, WaitBound
<1>2. CASE Tick
  <2>1. wait' = wait + 1 /\ phase' = phase /\ wait < WaitBound
    BY <1>2 DEF Tick
  <2>2. WaitBound' = WaitBound
    BY <2>1 DEF WaitBound
  <2> QED
    BY <1>1, <2>1, <2>2 DEF PhaseTypes
<1>3. CASE Sample \/ Restart \/ RestartFails \/ HandleTimer
  BY <1>1, <1>3 DEF Sample, Restart, RestartFails, EndTransport, HandleTimer, PhaseTypes, WaitBound
<1>4. CASE HandleIdle \/ NoIdle
  BY <1>1, <1>4 DEF HandleIdle, NoIdle, InFramer, PhaseTypes, WaitBound
<1>5. CASE UNCHANGED <<phase, wait>>
  BY <1>1, <1>5 DEF PhaseTypes, WaitBound
<1> QED
  BY <1>2, <1>3, <1>4, <1>5 DEF Next, vars, StartByte, Disturb, ReceiveError, ReadByte, InFramer,
     Take

\* The framer and its timer, whatever it is given.
LEMMA FramerTyped ==
  ASSUME NEW b \in Nat, frame \in Seq(1 .. b), Len(frame) =< MaxLength, state \in FramerStates,
         mark \in 0 .. b, written \in 0 .. b, timer \in 0 .. T3_5, elapsed \in BOOLEAN
  PROVE  /\ \A byte \in 1 .. b : OnByte(byte) =>
              /\ state' \in FramerStates /\ mark' \in 0 .. b /\ frame' \in Seq(1 .. b)
              /\ Len(frame') =< MaxLength /\ timer' \in 0 .. T3_5 /\ elapsed' \in BOOLEAN
         /\ \A event : event.position \in 0 .. b /\ OnIdle(event) =>
              /\ state' \in FramerStates /\ mark' \in 0 .. b /\ frame' \in Seq(1 .. b)
              /\ Len(frame') =< MaxLength /\ timer' \in 0 .. T3_5 /\ elapsed' \in BOOLEAN
         /\ OnTimer =>
              /\ state' \in FramerStates /\ mark' \in 0 .. b /\ frame' \in Seq(1 .. b)
              /\ Len(frame') =< MaxLength /\ timer' \in 0 .. T3_5
<1>1. Len(frame) \in Nat /\ MaxLength \in Nat
  BY SeqFacts, ConstantFacts
<1>7. \A f \in {frame, <<>>} : f \in Seq(1 .. b) /\ Len(f) =< MaxLength
  <2>1. <<>> \in Seq(1 .. b) /\ Len(<<>>) = 0
    BY EmptySeq
  <2>2. frame \in Seq(1 .. b) /\ Len(frame) =< MaxLength
    OBVIOUS
  <2>3. Len(<<>>) =< MaxLength
    BY <1>1, <2>1
  <2> QED
    BY <2>1, <2>2, <2>3, Zenon
<1>2. /\ 0 \in 0 .. T3_5 /\ T3_5 \in 0 .. T3_5 /\ T1_5 - CharacterTime \in 0 .. T3_5
      /\ T3_5 - CharacterTime \in 0 .. T3_5 /\ T3_5 - T1_5 \in 0 .. T3_5
  BY ConstantFacts
<1>3. \A byte \in 1 .. b : Append(frame, byte) \in Seq(1 .. b)
                           /\ Len(Append(frame, byte)) = Len(frame) + 1
  BY AppendProperties
<1>4. ASSUME NEW byte \in 1 .. b, OnByte(byte)
      PROVE  /\ state' \in FramerStates /\ mark' \in 0 .. b /\ frame' \in Seq(1 .. b)
             /\ Len(frame') =< MaxLength /\ timer' \in 0 .. T3_5 /\ elapsed' \in BOOLEAN
  <2>1. mark' = mark
    BY <1>4 DEF OnByte
  <2>2. CASE DiscardUntilSilence
    <3>1. frame' = <<>> /\ state' = "DISCARD" /\ timer' = T3_5 /\ elapsed' = FALSE
      BY <2>2 DEF DiscardUntilSilence, StartTimer
    <3> QED
      BY <1>2, <1>7, <2>1, <3>1 DEF FramerStates
  <2>3. CASE StartTimer(T3_5) /\ UNCHANGED <<state, frame>>
    BY <1>1, <1>2, <2>1, <2>3 DEF StartTimer
  <2>4. CASE ~(Len(frame) >= MaxLength) /\ AppendByte(byte)
    <3>1. /\ frame' = Append(frame, byte) /\ state' = "RECEIVING"
          /\ timer' \in {0, timer} /\ elapsed' = elapsed
      BY <2>4 DEF AppendByte, StopTimer
    <3>2. Len(frame') =< MaxLength /\ frame' \in Seq(1 .. b)
      BY <1>1, <1>3, <2>4, <3>1
    <3> QED
      BY <1>2, <2>1, <3>1, <3>2 DEF FramerStates
  <2> QED
    BY <1>4, <2>2, <2>3, <2>4 DEF OnByte, AppendByte
<1>5. ASSUME NEW event, event.position \in 0 .. b, OnIdle(event)
      PROVE  /\ state' \in FramerStates /\ mark' \in 0 .. b /\ frame' \in Seq(1 .. b)
             /\ Len(frame') =< MaxLength /\ timer' \in 0 .. T3_5 /\ elapsed' \in BOOLEAN
  <2>1. /\ frame' \in {frame, <<>>} /\ mark' \in {event.position, written}
        /\ state' \in {state, "WAITING", "FRAME_READY", "WAIT_T1_5"}
        /\ timer' \in {timer, 0, T1_5 - CharacterTime, T3_5 - CharacterTime}
        /\ elapsed' \in {elapsed, FALSE}
    BY <1>5 DEF OnIdle, Completed, Reset, StopTimer, StartTimer, timerVars
  <2> QED
    BY <1>2, <1>5, <1>7, <2>1 DEF FramerStates
<1>6. ASSUME OnTimer
      PROVE  /\ state' \in FramerStates /\ mark' \in 0 .. b /\ frame' \in Seq(1 .. b)
             /\ Len(frame') =< MaxLength /\ timer' \in 0 .. T3_5
  <2>1. /\ frame' \in {frame, <<>>} /\ mark' \in {mark, written}
        /\ state' \in {state, "WAITING", "RECEIVING", "FRAME_READY", "WAIT_T3_5", "DISCARD"}
        /\ timer' \in {timer, 0, T3_5, T3_5 - T1_5}
    BY <1>6 DEF OnTimer, OnTimerRaced, OnTimerSilent, Completed, Reset, StopTimer,
       DiscardUntilSilence, StartTimer, framerVars
  <2> QED
    BY <1>2, <1>7, <2>1 DEF FramerStates
<1> QED
  BY <1>4, <1>5, <1>6

LEMMA FramerStep ==
  ASSUME Inv1, [Next]_vars
  PROVE  FramerTypes' /\ TimerTypes'
<1>1. /\ frame \in Seq(1 .. Arrived) /\ Len(frame) =< MaxLength /\ state \in FramerStates
      /\ mark \in 0 .. Arrived /\ written \in 0 .. Arrived /\ timer \in 0 .. T3_5
      /\ elapsed \in BOOLEAN /\ Arrived \in Nat
  BY TypeParts, Numbers DEF Inv1, FramerTypes, TimerTypes, PositionTypes
<1>2. Arrived' = Arrived \/ (Tick /\ Arrived' = Arrived + 1)
  BY ArrivedStep
<1>0. /\ <<>> \in Seq(1 .. Arrived) /\ Len(<<>>) =< MaxLength
      /\ 0 \in 0 .. T3_5 /\ T3_5 \in 0 .. T3_5
  <2>1. <<>> \in Seq(1 .. Arrived) /\ Len(<<>>) = 0
    BY EmptySeq
  <2>2. MaxLength \in Nat /\ T3_5 \in Nat
    BY ConstantFacts
  <2> QED
    BY <2>1, <2>2
<1>3. CASE Tick
  <2>1. UNCHANGED framerVars /\ timer' = (IF timer > 0 THEN timer - 1 ELSE 0)
        /\ elapsed' = (elapsed \/ timer = 1)
    BY <1>3 DEF Tick
  <2>2. frame \in Seq(1 .. Arrived + 1)
    BY <1>1, SeqGrows
  <2>3. TimerTypes'
    BY <1>1, <2>1, ConstantFacts DEF TimerTypes
  <2>4. CASE Arrived' = Arrived
    BY <1>1, <2>1, <2>3, <2>4 DEF FramerTypes, framerVars
  <2>5. CASE Arrived' = Arrived + 1
    BY <1>1, <2>1, <2>2, <2>3, <2>5 DEF FramerTypes, framerVars
  <2> QED
    BY <1>2, <2>4, <2>5
<1>4. CASE ReceiveError
  <2>1. Arrived' = Arrived
    BY <1>2, <1>4 DEF ReceiveError, Tick, InFramer, lineVars, Arrived
  <2>2. DiscardUntilSilence /\ mark' = mark
    BY <1>4 DEF ReceiveError
  <2>3. frame' = <<>> /\ state' = "DISCARD" /\ timer' = T3_5 /\ elapsed' = FALSE
    BY <2>2 DEF DiscardUntilSilence, StartTimer
  <2> QED
    BY <1>1, <1>0, <2>1, <2>2, <2>3 DEF FramerTypes, TimerTypes, FramerStates
<1>5. CASE ReadByte
  <2>1. Arrived' = Arrived
    BY <1>5 DEF ReadByte, InFramer, lineVars, Arrived
  <2>2. OnByte(origin + consumer + 1) /\ consumer # producer
    BY <1>5 DEF ReadByte
  <2>3. origin + consumer + 1 \in 1 .. Arrived
    BY <2>2, Numbers
  <2> QED
    BY <1>1, <2>1, <2>2, <2>3, FramerTyped DEF FramerTypes, TimerTypes
<1>6. CASE HandleIdle
  <2>1. Arrived' = Arrived
    BY <1>6 DEF HandleIdle, InFramer, lineVars, Arrived
  <2>2. OnIdle(Head(idles)) /\ idles # <<>>
    BY <1>6 DEF HandleIdle, Reached
  <2>3. Head(idles).position \in 0 .. Arrived
    <3>1. idles \in Seq(Events(Arrived)) /\ idles # <<>>
      BY <2>2, TypeParts DEF Inv1, QueueTypes
    <3>2. Head(idles) \in Events(Arrived)
      BY <3>1, SeqFacts
    <3> QED
      BY <3>2 DEF Events
  <2> QED
    BY <1>1, <2>1, <2>2, <2>3, FramerTyped DEF FramerTypes, TimerTypes
<1>7. CASE HandleTimer
  <2>1. Arrived' = Arrived
    BY <1>7 DEF HandleTimer, lineVars, Arrived
  <2>2. elapsed' = FALSE /\ (OnTimer \/ UNCHANGED <<framerVars, timer>>)
    BY <1>7 DEF HandleTimer
  <2>3. CASE OnTimer
    BY <1>1, <2>1, <2>2, <2>3, FramerTyped DEF FramerTypes, TimerTypes
  <2>4. CASE UNCHANGED <<framerVars, timer>>
    BY <1>1, <2>1, <2>2, <2>4 DEF FramerTypes, TimerTypes, framerVars
  <2> QED
    BY <2>2, <2>3, <2>4
<1>8. CASE Take
  <2>1. Arrived' = Arrived
    BY <1>8 DEF Take, lineVars, Arrived
  <2>2. Reset /\ elapsed' = elapsed
    BY <1>8 DEF Take
  <2>3. frame' = <<>> /\ state' = "WAITING" /\ timer' = 0 /\ mark' = written
    BY <2>2 DEF Reset, StopTimer
  <2> QED
    BY <1>1, <1>0, <2>1, <2>2, <2>3 DEF FramerTypes, TimerTypes, FramerStates
<1>9. CASE StartByte \/ UNCHANGED <<lineVars, framerVars, timerVars>>
  <2>1. Arrived' = Arrived
    BY <1>9, LineStill, Numbers DEF lineVars
  <2>2. UNCHANGED <<framerVars, timerVars>>
    BY <1>9 DEF StartByte
  <2> QED
    BY <1>1, <2>1, <2>2 DEF FramerTypes, TimerTypes, framerVars, timerVars
<1> QED
  BY <1>3, <1>4, <1>5, <1>6, <1>7, <1>8, <1>9 DEF Next, vars, Disturb, Sample, Restart,
     RestartFails,
     EndTransport, NoIdle, InFramer

LEMMA HistoryStep ==
  ASSUME Inv1, [Next]_vars
  PROVE  HistoryTypes'
<1>1. /\ taken \in Seq(1 .. Arrived) /\ spoiled \in BOOLEAN /\ late \in BOOLEAN /\ Arrived \in Nat
      /\ frame \in Seq(1 .. Arrived)
  BY TypeParts, Numbers DEF Inv1, FramerTypes, HistoryTypes
<1>2. taken' \in {taken, frame} /\ spoiled' \in BOOLEAN /\ late' \in BOOLEAN
  BY <1>1 DEF Next, vars, historyVars, StartByte, Disturb, Tick, Sample, Restart, RestartFails,
     EndTransport,
     ReceiveError, ReadByte, HandleIdle, NoIdle, InFramer, HandleTimer, Take
<1>3. Arrived' = Arrived \/ Arrived' = Arrived + 1
  BY ArrivedStep
<1>4. taken' \in Seq(1 .. Arrived) /\ taken' \in Seq(1 .. Arrived + 1)
  BY <1>1, <1>2, SeqGrows
<1> QED
  BY <1>2, <1>3, <1>4 DEF HistoryTypes


\* What becomes of the idle events when time goes on.
LEMMA QueueTick ==
  ASSUME Inv1, Tick
  PROVE  /\ Len(idles) \in Nat /\ Len(idleQueue) \in Nat
         /\ idles' \in Seq(Events(Arrived)) /\ Len(idles') = Len(idles)
         /\ \A n \in 1 .. Len(idles) :
              /\ idles'[n].position = idles[n].position
              /\ idles'[n].age = Capped(idles[n].age + 1, T3_5)
         /\ idleQueue' \in Seq(Events(Arrived))
         /\ Len(idleQueue') = Len(idleQueue) + (IF Idle /\ ~Full THEN 1 ELSE 0)
         /\ \A n \in 1 .. Len(idleQueue) :
              /\ idleQueue'[n].position = idleQueue[n].position
              /\ idleQueue'[n].age = Capped(idleQueue[n].age + 1, T3_5)
         /\ Idle /\ ~Full =>
              idleQueue'[Len(idleQueue) + 1] = [position |-> Position, age |-> 0]
<1>1. /\ idles \in Seq(Events(Arrived)) /\ idleQueue \in Seq(Events(Arrived))
      /\ Len(idles) \in Nat /\ Len(idleQueue) \in Nat /\ Arrived \in Nat
  BY TypeParts, SeqFacts, Numbers DEF Inv1, QueueTypes
<1>2. /\ idles' = Older(idles)
      /\ idleQueue' = Older(idleQueue) \o (IF Idle /\ ~Full
                                           THEN <<[position |-> Position, age |-> 0]>> ELSE <<>>)
  BY DEF Tick
<1>3. PICK q : q = Older(idleQueue)
  OBVIOUS
<1>4. /\ q \in Seq(Events(Arrived)) /\ Len(q) = Len(idleQueue)
      /\ \A n \in 1 .. Len(idleQueue) :
           /\ q[n].position = idleQueue[n].position
           /\ q[n].age = Capped(idleQueue[n].age + 1, T3_5)
  BY <1>1, <1>3, OlderFacts
<1>5. CASE Idle /\ ~Full
  <2>1. PICK e : e = [position |-> Position, age |-> 0]
    OBVIOUS
  <2>2. e \in Events(Arrived)
    <3>1. Position \in 0 .. Arrived
      BY Numbers DEF Position
    <3> QED
      BY <2>1, <3>1, ConstantFacts DEF Events
  <2>3. idleQueue' = q \o <<e>>
    BY <1>2, <1>3, <1>5, <2>1
  <2>4. <<e>> \in Seq(Events(Arrived)) /\ Len(<<e>>) = 1 /\ <<e>>[1] = e
    BY <2>2
  <2>5. /\ idleQueue' \in Seq(Events(Arrived)) /\ Len(idleQueue') = Len(q) + 1
        /\ \A n \in 1 .. Len(q) + 1 : idleQueue'[n] = IF n =< Len(q) THEN q[n] ELSE e
    <3>1. q \o <<e>> = Append(q, e)
      BY <1>4, <2>2
    <3> QED
      BY <1>4, <2>2, <2>3, <3>1, AppendProperties
  <2>6. /\ \A n \in 1 .. Len(q) : idleQueue'[n] = q[n]
        /\ idleQueue'[Len(q) + 1] = e
    BY <1>1, <1>4, <2>5
  <2> QED
    BY <1>1, <1>2, <1>4, <1>5, <2>1, <2>5, <2>6, OlderFacts
<1>6. CASE ~(Idle /\ ~Full)
  <2>1. idleQueue' = q \o <<>>
    BY <1>2, <1>3, <1>6
  <2>2. idleQueue' = q
    BY <1>4, <2>1, ConcatEmptySeq
  <2> QED
    BY <1>1, <1>2, <1>4, <1>6, <2>2, OlderFacts
<1> QED
  BY <1>5, <1>6

LEMMA QueueStep ==
  ASSUME Inv1, [Next]_vars
  PROVE  QueueTypes' /\ EventsAhead'
<1>1. /\ idles \in Seq(Events(Arrived)) /\ idleQueue \in Seq(Events(Arrived))
      /\ Len(idles) \in Nat /\ Len(idleQueue) \in Nat
      /\ Len(idles) =< IdleDepth /\ Len(idleQueue) =< IdleDepth /\ IdleDepth \in Nat
  BY TypeParts, SeqFacts, ConstantFacts DEF Inv1, QueueTypes
<1>2. /\ Arrived \in Nat /\ Arrived + 1 \in Nat
      /\ Arrived' = Arrived \/ (Tick /\ Arrived' = Arrived + 1)
  BY ArrivedStep
<1>3. /\ origin \in Nat /\ producer \in Nat /\ origin + producer =< Arrived /\ origin =< Arrived
  BY Numbers DEF Sampled
<1>4. \A s \in Seq(Events(Arrived)) : s \in Seq(Events(Arrived'))
  BY <1>2, EventsGrow
<1>5. \A n \in 1 .. Len(idleQueue) :
        /\ idleQueue[n].position \in Nat
        /\ producer =< idleQueue[n].position /\ origin + idleQueue[n].position =< Arrived
  <2> TAKE n \in 1 .. Len(idleQueue)
  <2>1. DOMAIN idleQueue = 1 .. Len(idleQueue) /\ idleQueue[n] \in Events(Arrived)
    BY <1>1, SeqFacts
  <2> QED
    BY <1>2, <2>1 DEF Inv1, EventsAhead, Byte, Events
<1>6. CASE Tick
  <2>1. PICK j \in Nat : j = Len(idleQueue)
    BY <1>1
  <2>2. /\ idles' \in Seq(Events(Arrived)) /\ Len(idles') = Len(idles)
        /\ idleQueue' \in Seq(Events(Arrived))
        /\ Len(idleQueue') = j + (IF Idle /\ ~Full THEN 1 ELSE 0)
        /\ \A n \in 1 .. j : idleQueue'[n].position = idleQueue[n].position
        /\ Idle /\ ~Full => idleQueue'[j + 1].position = Position
    BY <1>6, <2>1, QueueTick
  <2>3. /\ producer' = producer
        /\ origin' = origin \/ (origin' = origin + 1 /\ receiving = 1)
    BY <1>6 DEF Tick
  <2>4. receiving = 1 => Arrived' = Arrived + 1
    <3>1. receiving = 1 => receiving' = 0 /\ gaps' = gaps
      BY <1>6 DEF Tick
    <3>2. receiving = 1 => Arrived = Len(gaps) - 1 /\ Len(gaps) \in Nat
      BY Numbers, LineFacts
    <3> QED
      BY <3>1, <3>2 DEF Arrived
  <2>5. Position \in Nat /\ producer =< Position /\ origin + Position = Arrived
    BY <1>2, <1>3 DEF Position
  <2>6. Full <=> j = IdleDepth
    BY <2>1 DEF Full
  <2>7. Len(idleQueue') =< IdleDepth
    BY <1>1, <2>1, <2>2, <2>6
  <2>8. PICK a, o, k : a = Arrived' /\ o = origin' /\ k = Len(idleQueue')
    OBVIOUS
  <2>9. \A n \in 1 .. k : producer =< idleQueue'[n].position /\ o + idleQueue'[n].position =< a
    <3> TAKE n \in 1 .. k
    <3>1. (o = origin /\ (a = Arrived \/ a = Arrived + 1)) \/ (o = origin + 1 /\ a = Arrived + 1)
      BY <1>2, <2>3, <2>4, <2>8
    <3>2. CASE n =< j
      <4>1. n \in 1 .. j
        BY <2>2, <2>8, <3>2
      <4>2. PICK p : p = idleQueue[n].position
        OBVIOUS
      <4>3. p \in Nat /\ producer =< p /\ origin + p =< Arrived /\ idleQueue'[n].position = p
        BY <1>5, <2>1, <2>2, <4>1, <4>2
      <4> QED
        BY <1>2, <1>3, <3>1, <4>3
    <3>3. CASE n > j
      <4>1. Idle /\ ~Full /\ n = j + 1
        BY <2>2, <2>8, <3>3
      <4>2. idleQueue'[n].position = Position
        BY <2>2, <4>1
      <4> QED
        BY <1>2, <1>3, <2>5, <3>1, <4>2
    <3> QED
      BY <2>1, <3>2, <3>3
  <2>10. DOMAIN idleQueue' = 1 .. Len(idleQueue')
    BY <2>2, SeqFacts
  <2>11. EventsAhead'
    BY <2>3, <2>8, <2>9, <2>10 DEF EventsAhead, Byte
  <2> QED
    BY <1>1, <1>4, <2>2, <2>7, <2>11 DEF QueueTypes
<1>7. CASE idleQueue' = <<>> /\ ~Tick
  <2>1. idleQueue' \in Seq(Events(Arrived')) /\ Len(idleQueue') = 0 /\ EventsAhead'
    BY <1>7, EmptySeq DEF EventsAhead
  <2>2. CASE idles' = Collected
    BY <1>1, <1>4, <2>1, <2>2, CollectedFacts DEF QueueTypes
  <2>3. CASE idles' = <<>>
    BY <1>1, <2>1, <2>3, EmptySeq DEF QueueTypes
  <2>4. CASE idles' = idles
    BY <1>1, <1>4, <2>1, <2>4 DEF QueueTypes
  <2>5. CASE idles' = Tail(idles) /\ idles # <<>>
    <3>1. Tail(idles) \in Seq(Events(Arrived)) /\ Len(Tail(idles)) = Len(idles) - 1
      BY <1>1, <2>5, HeadTailProperties
    <3> QED
      BY <1>1, <1>4, <2>1, <2>5, <3>1 DEF QueueTypes
  <2> QED
    BY <1>7, <2>2, <2>3, <2>4, <2>5 DEF Next, vars, queueVars, StartByte, Disturb, Sample, Restart,
       RestartFails, Collect, EndTransport, ReceiveError, ReadByte, HandleIdle, Reached, NoIdle,
       InFramer, HandleTimer, Take
<1>8. CASE /\ idleQueue' = idleQueue /\ UNCHANGED positionVars /\ ~Tick
           /\ UNCHANGED idles \/ HandleIdle
  <2>1. Arrived' = Arrived /\ origin' = origin /\ producer' = producer
    BY <1>2, <1>8 DEF positionVars
  <2>2. EventsAhead'
    BY <1>8, <2>1 DEF Inv1, EventsAhead, Byte
  <2>3. CASE UNCHANGED idles
    BY <1>1, <1>4, <1>8, <2>2, <2>3 DEF QueueTypes
  <2>4. CASE HandleIdle
    <3>1. idles' = Tail(idles) /\ idles # <<>>
      BY <2>4 DEF HandleIdle, Reached
    <3>2. Tail(idles) \in Seq(Events(Arrived)) /\ Len(Tail(idles)) = Len(idles) - 1
      BY <1>1, <3>1, HeadTailProperties
    <3> QED
      <4>1. Len(idles') =< IdleDepth /\ idles' \in Seq(Events(Arrived'))
        BY <1>1, <1>4, <3>1, <3>2
      <4>2. Len(idleQueue') =< IdleDepth /\ idleQueue' \in Seq(Events(Arrived'))
        BY <1>1, <1>4, <1>8
      <4> QED
        BY <2>2, <4>1, <4>2 DEF QueueTypes
  <2> QED
    BY <1>8, <2>3, <2>4
<1> QED
  BY <1>6, <1>7, <1>8 DEF Next, vars, queueVars, StartByte, Disturb, Sample, Restart, RestartFails,
     EndTransport, ReceiveError, ReadByte, HandleIdle, NoIdle, InFramer, HandleTimer, Take

LEMMA Inv1Init == Init => Inv1
<1> SUFFICES ASSUME Init PROVE Inv1
  OBVIOUS
<1>1. Arrived = 0 /\ Len(<<>>) = 0
  <2>1. gaps = <<>> /\ receiving = 0 /\ Len(<<>>) = 0
    BY EmptySeq DEF Init
  <2> QED
    BY <2>1 DEF Arrived
<1>2. \A S : <<>> \in Seq(S)
  BY EmptySeq
<1>3. LineTypes
  BY <1>1, <1>2, ConstantFacts DEF Init, LineTypes
<1>4. PositionTypes /\ QueueTypes
  BY <1>1, <1>2, ConstantFacts DEF Init, PositionTypes, QueueTypes
<1>9. ErrorTypes /\ HistoryTypes
  <2>1. 0 \in 0 .. MaxErrors
    BY ConstantFacts
  <2>2. /\ lineError = FALSE /\ errors = 0 /\ stopped = FALSE /\ receiveError = FALSE
        /\ taken = <<>> /\ spoiled = FALSE /\ late = FALSE
    BY DEF Init
  <2> QED
    BY <1>2, <2>1, <2>2, Zenon DEF ErrorTypes, HistoryTypes
<1>5. FramerTypes
  BY <1>1, <1>2, ConstantFacts DEF Init, FramerTypes, FramerStates
<1>6. TimerTypes /\ PhaseTypes
  <2>1. timer = 0 /\ elapsed = FALSE /\ phase = "TRANSPORT" /\ wait = 0
    BY DEF Init
  <2>2. 0 \in 0 .. T3_5 /\ 0 \in 0 .. MaxPass
    BY ConstantFacts
  <2> QED
    BY <2>1, <2>2 DEF TimerTypes, PhaseTypes, WaitBound
<1>7. LineInv
  BY <1>1 DEF Init, LineInv, Sampled
<1>8. EventsAhead
  BY <1>1 DEF Init, EventsAhead
<1> QED
  BY <1>3, <1>4, <1>5, <1>6, <1>7, <1>8, <1>9, TypeParts DEF Inv1

LEMMA Inv1Step == Inv1 /\ [Next]_vars => Inv1'
<1> SUFFICES ASSUME Inv1, [Next]_vars PROVE Inv1'
  OBVIOUS
<1>1. LineTypes' /\ PositionTypes' /\ LineInv' /\ ErrorTypes' /\ PhaseTypes'
  BY ArrivedStep, PositionStep, ErrorStep, PhaseStep
<1>2. FramerTypes' /\ TimerTypes' /\ HistoryTypes'
  BY FramerStep, HistoryStep
<1>3. QueueTypes' /\ EventsAhead'
  BY QueueStep
<1> QED
  BY <1>1, <1>2, <1>3, TypePartsNext DEF Inv1

LEMMA Inv1Holds == Spec => []Inv1
BY Inv1Init, Inv1Step, PTL DEF Spec

\* The state of the receiver is what its types say: a position is never ahead of
\* the bytes that arrived, the frame never longer than s_frame, no queue of idle
\* events longer than it may be, and the ticks of the timer stay in their range.
THEOREM TypeCorrect == Spec => []TypeOK
<1>1. Inv1 => TypeOK
  BY DEF Inv1
<1> QED
  BY <1>1, Inv1Holds, PTL

-----------------------------------------------------------------------------
(* What errors leave behind, what a pass knows of the line, and the timer  *)
(* of the framer, as long as the positions do not roll over.               *)

NoRollover == FirstPosition + MaxBytes < PositionRange

Waits == {"WAIT_T1_5", "WAIT_T3_5"}

\* While the DMA is stopped there is nothing to read.
ErrorInv ==
  /\ lineError \/ receiveError \/ stopped => spoiled
  /\ receiveError => phase = "FRAMER"
  /\ stopped => Sampled = Arrived
  /\ stopped /\ ~receiveError => consumer = producer /\ frame = <<>>

\* What a pass does not see has come since it was sampled.
SampleInv ==
  /\ producer = written
  /\ Sampled < Arrived => Since < SinceSample
  /\ \A n \in DOMAIN idles : idles[n].position =< producer

\* The timer runs while the framer waits.
TimedInv ==
  /\ state \in Waits \cup {"DISCARD"} => (elapsed <=> timer = 0)
  /\ elapsed => InPass \/ wait > 0
  /\ state \in {"WAITING", "DISCARD"} <=> frame = <<>>
  /\ state = "WAIT_T1_5" => timer =< T1_5 - CharacterTime
  /\ state = "WAIT_T3_5" => timer =< T3_5 - T1_5

InTime(events) == \A n \in DOMAIN events : ~Late(events[n])

\* While the main loop keeps up, one idle event at most waits for it.
LateInv == ~late => Len(idleQueue) =< 1 /\ InTime(idleQueue) /\ InTime(idles)

Inv2 == Inv1 /\ ErrorInv /\ SampleInv /\ TimedInv /\ LateInv

\* An event of the transport, and what a tick makes of it.
LEMMA EventFacts ==
  ASSUME Inv1
  PROVE  /\ DOMAIN idles = 1 .. Len(idles) /\ Len(idles) \in Nat
         /\ DOMAIN idleQueue = 1 .. Len(idleQueue) /\ Len(idleQueue) \in Nat
         /\ \A n \in DOMAIN idles :
              /\ idles[n].position \in Nat /\ idles[n].position =< Arrived
              /\ idles[n].age \in Nat /\ idles[n].age =< T3_5
         /\ \A n \in DOMAIN idleQueue :
              /\ idleQueue[n].position \in Nat /\ idleQueue[n].position =< Arrived
              /\ idleQueue[n].age \in Nat /\ idleQueue[n].age =< T3_5
              /\ producer =< idleQueue[n].position /\ origin + idleQueue[n].position =< Arrived
         /\ idles # <<>> =>
              /\ Head(idles) = idles[1] /\ 1 \in DOMAIN idles
              /\ Len(Tail(idles)) = Len(idles) - 1
              /\ DOMAIN Tail(idles) = 1 .. Len(idles) - 1
              /\ \A n \in DOMAIN Tail(idles) : n + 1 \in DOMAIN idles /\ Tail(idles)[n] = idles[n + 1]
<1>1. /\ idles \in Seq(Events(Arrived)) /\ idleQueue \in Seq(Events(Arrived)) /\ Arrived \in Nat
      /\ T3_5 \in Nat
  BY TypeParts, Numbers, ConstantFacts DEF Inv1, QueueTypes
<1>2. /\ DOMAIN idles = 1 .. Len(idles) /\ Len(idles) \in Nat
      /\ DOMAIN idleQueue = 1 .. Len(idleQueue) /\ Len(idleQueue) \in Nat
      /\ \A n \in DOMAIN idles : idles[n] \in Events(Arrived)
      /\ \A n \in DOMAIN idleQueue : idleQueue[n] \in Events(Arrived)
  BY <1>1, SeqFacts
<1>3. \A e \in Events(Arrived) : /\ e.position \in Nat /\ e.position =< Arrived
                                 /\ e.age \in Nat /\ e.age =< T3_5
  <2>1. \A p \in 0 .. Arrived : p \in Nat /\ p =< Arrived
    BY <1>1
  <2>2. \A a \in 0 .. T3_5 : a \in Nat /\ a =< T3_5
    BY <1>1
  <2> QED
    BY <2>1, <2>2 DEF Events
<1>4. \A n \in DOMAIN idleQueue :
        producer =< idleQueue[n].position /\ origin + idleQueue[n].position =< Arrived
  BY DEF Inv1, EventsAhead, Byte
<1>5. ASSUME idles # <<>>
      PROVE  /\ Head(idles) = idles[1] /\ 1 \in DOMAIN idles
             /\ Len(Tail(idles)) = Len(idles) - 1
             /\ DOMAIN Tail(idles) = 1 .. Len(idles) - 1
             /\ \A n \in DOMAIN Tail(idles) : n + 1 \in DOMAIN idles /\ Tail(idles)[n] = idles[n + 1]
  <2>1. /\ Tail(idles) \in Seq(Events(Arrived)) /\ Len(Tail(idles)) = Len(idles) - 1
        /\ \A n \in 1 .. Len(Tail(idles)) : Tail(idles)[n] = idles[n + 1]
    BY <1>1, <1>5, HeadTailProperties
  <2>2. Len(idles) > 0
    BY <1>1, <1>5, SeqFacts
  <2>3. DOMAIN Tail(idles) = 1 .. Len(Tail(idles))
    BY <2>1, SeqFacts
  <2> QED
    BY <1>2, <1>5, <2>1, <2>2, <2>3
<1> QED
  BY <1>2, <1>3, <1>4, <1>5

\* Positions are compared as they were counted.
LEMMA ReachedMeans ==
  ASSUME NoRollover, Inv1
  PROVE  Reached <=> idles # <<>> /\ consumer >= idles[1].position
<1>1. CASE idles # <<>>
  <2>1. PICK p \in Nat : p = idles[1].position /\ p =< Arrived /\ Head(idles) = idles[1]
    BY <1>1, EventFacts
  <2>2. /\ consumer \in Nat /\ consumer =< Arrived /\ Arrived \in Nat /\ Arrived =< MaxBytes
        /\ MaxBytes \in Nat /\ PositionRange \in Nat /\ FirstPosition \in Nat
        /\ FirstPosition + MaxBytes < PositionRange
    <3>1. /\ consumer \in Nat /\ producer \in Nat /\ consumer =< producer /\ producer =< Arrived
          /\ Arrived \in Nat /\ Arrived =< MaxBytes
      BY Numbers
    <3> QED
      BY <3>1, ConstantFacts DEF NoRollover
  <2>3. base \in Nat /\ base =< FirstPosition
    BY <2>2, TypeParts DEF Inv1, PositionTypes
  <2>7. \A q \in Nat : q =< Arrived => base + q \in Nat /\ base + q < PositionRange
    BY <2>2, <2>3
  <2>8. \A i \in Nat : i < PositionRange => i % PositionRange = i
    BY <2>2
  <2>4. Absolute(consumer) = base + consumer
    BY <2>2, <2>7, <2>8 DEF Absolute
  <2>5. Absolute(p) = base + p
    BY <2>1, <2>7, <2>8 DEF Absolute
  <2>6. Absolute(consumer) >= Absolute(p) <=> consumer >= p
    BY <2>1, <2>2, <2>3, <2>4, <2>5
  <2> QED
    BY <1>1, <2>1, <2>6 DEF Reached
<1>2. CASE idles = <<>>
  BY <1>2 DEF Reached
<1> QED
  BY <1>1, <1>2

LEMMA TickFacts ==
  ASSUME Inv1, Tick
  PROVE  /\ UNCHANGED <<gaps, base, producer, written, consumer, phase, state, frame, mark,
                        taken, receiveError, stopped, errors>>
         /\ ~stopped => UNCHANGED origin
         /\ ~stopped /\ ~(Idle /\ Full) => UNCHANGED <<spoiled, lineError>>
         /\ wait' = wait + 1 /\ SinceSample' = SinceSample + 1 /\ SinceSample + 1 =< Pass
         /\ (InPass => wait + 1 =< MaxInside) /\ (~InPass => wait + 1 =< MaxPass)
         /\ TickOn \/ TickOver \/ TickByte
<1>1. /\ LineTypes /\ wait \in Nat
  BY Numbers
<1>2. /\ UNCHANGED <<gaps, base, producer, written, consumer, phase, state, frame, mark,
                     taken, receiveError, stopped, errors>>
      /\ ~stopped => UNCHANGED origin
      /\ wait' = wait + 1 /\ wait < WaitBound
  BY DEF Tick, framerVars
<1>5. ~stopped /\ ~(Idle /\ Full) => UNCHANGED <<spoiled, lineError>>
  <2>1. spoiled \in BOOLEAN
    BY TypeParts DEF Inv1, HistoryTypes
  <2> QED
    BY <2>1 DEF Tick
<1>3. (InPass => wait + 1 =< MaxInside) /\ (~InPass => wait + 1 =< MaxPass)
  BY <1>1, <1>2, ConstantFacts DEF WaitBound, InPass
<1>4. SinceSample' = SinceSample + 1 /\ SinceSample + 1 =< Pass
  <2>1. InPass' = InPass
    BY <1>2 DEF InPass
  <2> QED
    BY <1>1, <1>2, <1>3, <2>1, ConstantFacts DEF SinceSample
<1> QED
  BY <1>1, <1>2, <1>3, <1>4, <1>5, LineTick

\* Nothing but a sample makes the last one recent.
LEMMA SinceSampleKept ==
  ASSUME Inv1, [Next]_vars, ~Tick, ~Sample, ~Restart, ~RestartFails
  PROVE  \E q \in Nat : SinceSample' = q /\ SinceSample =< q
<1>1. SinceSample \in Nat /\ MaxInside \in Nat /\ wait \in Nat
  BY Numbers, ConstantFacts
<1>2. CASE HandleTimer
  <2>1. phase' = "TRANSPORT" /\ wait' = 0 /\ phase = "TIMER"
    BY <1>2 DEF HandleTimer
  <2>2. SinceSample' = MaxInside
    BY <1>1, <2>1 DEF SinceSample, InPass
  <2>3. SinceSample =< MaxInside
    BY <2>1, Numbers DEF InPass
  <2> QED
    BY <1>1, <2>2, <2>3
<1>3. CASE HandleIdle \/ NoIdle
  <2>1. phase' = "TIMER" /\ phase = "FRAMER" /\ wait' = wait
    BY <1>3 DEF HandleIdle, NoIdle, InFramer
  <2>2. SinceSample' = wait /\ SinceSample = wait
    BY <2>1 DEF SinceSample, InPass
  <2> QED
    BY <1>1, <2>2
<1>4. CASE UNCHANGED <<phase, wait>>
  <2>1. SinceSample' = SinceSample
    BY <1>4 DEF SinceSample, InPass
  <2> QED
    BY <1>1, <2>1
<1> QED
  BY <1>2, <1>3, <1>4 DEF Next, vars, StartByte, Disturb, ReceiveError, ReadByte, InFramer, Take

-----------------------------------------------------------------------------
(* What the steps do with the positions, the framer and its timer.         *)

LEMMA SampleEffect ==
  ASSUME NoRollover, Inv1, Sample \/ RestartFails
  PROVE  /\ phase = "TRANSPORT" /\ phase' = "FRAMER" /\ wait' = 0
         /\ idleQueue' = <<>> /\ idles' = Collected
         /\ producer' = Position /\ written' = Position /\ origin + Position = Arrived
         /\ Position \in Nat /\ Arrived' = Arrived /\ Sampled' = Arrived
         /\ UNCHANGED <<origin, consumer, state, frame, mark, timer, elapsed, taken, late, gaps>>
         /\ RestartFails => /\ receiveError' /\ stopped' /\ ~lineError' /\ UNCHANGED spoiled
                            /\ lineError
         /\ Sample => /\ ~lineError /\ ~lineError' /\ UNCHANGED stopped
                      /\ receiveError' = (receiveError \/ Crowded)
                      /\ spoiled' = (spoiled \/ Crowded)
<1>1. EndTransport /\ Collect
  BY DEF Sample, RestartFails
<1>2. /\ phase = "TRANSPORT" /\ phase' = "FRAMER" /\ wait' = 0 /\ idleQueue' = <<>>
      /\ UNCHANGED <<state, frame, mark, timer, elapsed, taken, late, gaps, receiving>>
  BY <1>1 DEF EndTransport, framerVars, timerVars, lineVars
<1>3. /\ producer' = Position /\ written' = Position /\ Position \in Nat
      /\ origin + Position = Arrived /\ origin' = origin /\ consumer' = consumer
      /\ idles' = Collected
  BY <1>1, CollectFacts DEF NoRollover
<1>4. Arrived' = Arrived /\ Sampled' = Arrived
  BY <1>2, <1>3 DEF Arrived, Sampled
<1>5. RestartFails => /\ receiveError' /\ stopped' /\ ~lineError' /\ UNCHANGED spoiled
                      /\ lineError
  BY DEF RestartFails
<1>6. Sample => /\ ~lineError /\ ~lineError' /\ UNCHANGED stopped
                /\ receiveError' = (receiveError \/ Crowded)
                /\ spoiled' = (spoiled \/ Crowded)
  BY DEF Sample
<1> QED
  BY <1>2, <1>3, <1>4, <1>5, <1>6

LEMMA RestartEffect ==
  ASSUME Restart
  PROVE  /\ receiveError' /\ phase = "TRANSPORT" /\ phase' = "FRAMER" /\ wait' = 0
         /\ UNCHANGED <<state, frame, mark, timer, elapsed, taken, spoiled, late, gaps, receiving,
                        silence>>
         /\ origin' = Arrived /\ consumer' = 0 /\ producer' = 0 /\ written' = 0
         /\ idles' = <<>> /\ idleQueue' = <<>>
         /\ lineError /\ ~lineError' /\ ~stopped' /\ Arrived' = Arrived
BY DEF Restart, EndTransport, framerVars, timerVars, lineVars, Arrived

LEMMA ReadByteEffect ==
  ASSUME Inv1, ReadByte
  PROVE  /\ UNCHANGED <<origin, producer, written, idles, idleQueue, phase, wait, mark, lineError,
                        errors, stopped, receiveError, taken, late, gaps>>
         /\ phase = "FRAMER" /\ ~receiveError /\ ~Reached
         /\ consumer' = consumer + 1 /\ Read' = Read + 1 /\ Read + 1 =< Sampled
         /\ spoiled => spoiled'
         /\ state = "FRAME_READY" => spoiled'
         /\ state # "FRAME_READY" => spoiled' = spoiled
         /\ \/ /\ state' = "DISCARD" /\ timer' = T3_5 /\ elapsed' = FALSE
               /\ frame' = <<>> \/ (state = "DISCARD" /\ frame' = frame)
               /\ state \in {"FRAME_READY", "WAIT_T3_5", "DISCARD"} \/ Len(frame) >= MaxLength
            \/ /\ state \in {"WAITING", "RECEIVING", "WAIT_T1_5"} /\ state' = "RECEIVING"
               /\ frame' = Append(frame, Read + 1) /\ elapsed' = elapsed /\ timer' \in {0, timer}
               /\ Len(frame) < MaxLength /\ Len(frame') = Len(frame) + 1 /\ frame' # <<>>
<1>1. /\ UNCHANGED <<origin, producer, written, idles, idleQueue, phase, wait, mark, lineError,
                     errors, stopped, receiveError, taken, late, gaps>>
      /\ phase = "FRAMER" /\ ~receiveError /\ consumer' = consumer + 1 /\ consumer # producer
      /\ ~Reached /\ OnByte(origin + consumer + 1)
      /\ spoiled' = (spoiled \/ state = "FRAME_READY")
  BY DEF ReadByte, InFramer, queueVars, lineVars, errorVars, positionVars, OnByte
<1>2. /\ origin \in Nat /\ consumer \in Nat /\ producer \in Nat /\ consumer =< producer
      /\ Read = origin + consumer /\ Sampled = origin + producer
  BY Numbers
<1>3. Read' = Read + 1 /\ Read + 1 =< Sampled /\ origin + consumer + 1 = Read + 1
  <2>1. Read' = origin' + consumer'
    BY DEF Read
  <2>2. Read' = Read + 1
    BY <1>1, <1>2, <2>1
  <2>3. Read + 1 =< Sampled
    BY <1>1, <1>2
  <2> QED
    BY <1>2, <2>2, <2>3
<1>5. Len(frame) \in Nat /\ MaxLength \in Nat
  BY TypeParts, SeqFacts, ConstantFacts DEF Inv1, FramerTypes
<1>6. \/ /\ state' = "DISCARD" /\ timer' = T3_5 /\ elapsed' = FALSE
         /\ frame' = <<>> \/ (state = "DISCARD" /\ frame' = frame)
         /\ state \in {"FRAME_READY", "WAIT_T3_5", "DISCARD"} \/ Len(frame) >= MaxLength
      \/ /\ state \in {"WAITING", "RECEIVING", "WAIT_T1_5"} /\ state' = "RECEIVING"
         /\ frame' = Append(frame, Read + 1) /\ elapsed' = elapsed /\ timer' \in {0, timer}
         /\ ~(Len(frame) >= MaxLength)
  BY <1>1, <1>3 DEF OnByte, AppendByte, DiscardUntilSilence, StartTimer, StopTimer
<1>7. ~(Len(frame) >= MaxLength) => Len(frame) < MaxLength
  BY <1>5
<1>8. /\ spoiled => spoiled'
      /\ state = "FRAME_READY" => spoiled'
      /\ state # "FRAME_READY" => spoiled' = spoiled
  <2>1. spoiled \in BOOLEAN
    BY TypeParts DEF Inv1, HistoryTypes
  <2> QED
    BY <1>1, <2>1
<1>9. Len(Append(frame, Read + 1)) = Len(frame) + 1 /\ Append(frame, Read + 1) # <<>>
  <2>1. Read + 1 \in 1 .. Arrived
    <3>1. Read \in Nat /\ Sampled =< Arrived /\ Arrived \in Nat /\ Sampled \in Nat
      BY Numbers
    <3> QED
      BY <1>3, <3>1
  <2>2. frame \in Seq(1 .. Arrived)
    BY TypeParts DEF Inv1, FramerTypes
  <2>3. Len(Append(frame, Read + 1)) = Len(frame) + 1
    BY <2>1, <2>2, AppendProperties
  <2>4. Len(<<>>) = 0 /\ Len(frame) + 1 # 0
    BY <1>5, EmptySeq
  <2> QED
    BY <2>3, <2>4
<1> QED
  BY <1>1, <1>3, <1>6, <1>7, <1>8, <1>9

LEMMA HandleIdleEffect ==
  ASSUME Inv1, HandleIdle
  PROVE  /\ UNCHANGED <<origin, producer, written, consumer, idleQueue, wait, lineError,
                        errors, stopped, receiveError, taken, spoiled, late, gaps>>
         /\ phase = "FRAMER" /\ phase' = "TIMER" /\ ~receiveError
         /\ idles # <<>> /\ idles' = Tail(idles) /\ Reached
         /\ \/ /\ Late(idles[1]) /\ elapsed' = elapsed
               /\ \/ /\ state = "RECEIVING" /\ Len(frame) < MinLength
                     /\ state' = "WAITING" /\ frame' = <<>> /\ mark' = written
                  \/ /\ state = "RECEIVING" /\ ~(Len(frame) < MinLength) /\ state' = "FRAME_READY"
                     /\ mark' = idles[1].position /\ UNCHANGED <<frame, timer>>
                  \/ /\ state = "DISCARD"
                     /\ state' = "WAITING" /\ frame' = <<>> /\ mark' = written
            \/ /\ mark' = idles[1].position /\ frame' = frame
               /\ \/ /\ ~Late(idles[1]) /\ state = "RECEIVING" /\ state' = "WAIT_T1_5"
                     /\ timer' = T1_5 - CharacterTime /\ elapsed' = FALSE
                  \/ /\ ~Late(idles[1]) /\ state = "DISCARD" /\ state' = "DISCARD"
                     /\ timer' = T3_5 - CharacterTime /\ elapsed' = FALSE
                  \/ state \notin {"RECEIVING", "DISCARD"} /\ UNCHANGED <<state, timer, elapsed>>
<1>1. /\ UNCHANGED <<origin, producer, written, consumer, idleQueue, wait, lineError,
                     errors, stopped, receiveError, taken, spoiled, late, gaps>>
      /\ phase = "FRAMER" /\ phase' = "TIMER" /\ ~receiveError
      /\ idles # <<>> /\ idles' = Tail(idles) /\ Reached /\ OnIdle(Head(idles))
  BY DEF HandleIdle, InFramer, Reached, lineVars, errorVars, positionVars
<1>2. Head(idles) = idles[1]
  BY <1>1, EventFacts
<1>3. PICK e : e = idles[1] /\ OnIdle(e)
  BY <1>1, <1>2
<1>4. Len(frame) \in Nat /\ MinLength \in Nat
  BY TypeParts, SeqFacts, ConstantFacts DEF Inv1, FramerTypes
<1>5. CASE Late(e) /\ UNCHANGED elapsed /\ state = "RECEIVING" /\ Completed(e.position)
  BY <1>1, <1>3, <1>4, <1>5 DEF Completed, Reset, StopTimer
<1>6. CASE Late(e) /\ UNCHANGED elapsed /\ state = "DISCARD" /\ Reset
  BY <1>1, <1>3, <1>6 DEF Reset, StopTimer
<1>7. CASE /\ ~Late(e) /\ mark' = e.position /\ UNCHANGED frame
           /\ \/ state = "RECEIVING" /\ state' = "WAIT_T1_5" /\ StartTimer(T1_5 - CharacterTime)
              \/ state = "DISCARD" /\ UNCHANGED state /\ StartTimer(T3_5 - CharacterTime)
  BY <1>1, <1>3, <1>7 DEF StartTimer
<1>8. CASE /\ state \notin {"RECEIVING", "DISCARD"}
           /\ mark' = e.position /\ UNCHANGED <<state, frame, timerVars>>
  BY <1>1, <1>3, <1>8 DEF timerVars
<1> QED
  BY <1>3, <1>5, <1>6, <1>7, <1>8 DEF OnIdle

LEMMA HandleTimerEffect ==
  ASSUME Inv2, HandleTimer
  PROVE  /\ UNCHANGED <<origin, producer, written, consumer, idleQueue, idles, lineError,
                        errors, stopped, receiveError, taken, spoiled, late, gaps>>
         /\ phase = "TIMER" /\ phase' = "TRANSPORT" /\ wait' = 0 /\ elapsed' = FALSE
         /\ ~receiveError
         /\ \/ /\ ~elapsed \/ state \in {"WAITING", "RECEIVING", "FRAME_READY"}
               /\ UNCHANGED <<state, frame, mark, timer>>
            \/ /\ elapsed /\ mark # producer /\ mark' = mark
               /\ \/ state = "WAIT_T1_5" /\ state' = "RECEIVING" /\ UNCHANGED <<frame, timer>>
                  \/ state = "WAIT_T3_5" /\ state' = "DISCARD" /\ timer' = T3_5 /\ frame' = <<>>
                  \/ state = "DISCARD" /\ state' = "DISCARD" /\ timer' = T3_5 /\ frame' = frame
            \/ /\ elapsed /\ mark = producer
               /\ \/ /\ state = "WAIT_T1_5" /\ state' = "WAIT_T3_5" /\ UNCHANGED <<frame, mark>>
                     /\ timer' = T3_5 - T1_5
                  \/ /\ state = "WAIT_T3_5" /\ state' = "FRAME_READY" /\ frame' = frame
                     /\ Len(frame) >= MinLength
                  \/ /\ state = "WAIT_T3_5" /\ state' = "WAITING" /\ frame' = <<>>
                     /\ Len(frame) < MinLength
                  \/ /\ state = "DISCARD" /\ state' = "WAITING" /\ frame' = <<>>
<1>1. /\ UNCHANGED <<origin, producer, written, consumer, idleQueue, idles, lineError,
                     errors, stopped, receiveError, taken, spoiled, late, gaps>>
      /\ phase = "TIMER" /\ phase' = "TRANSPORT" /\ wait' = 0 /\ elapsed' = FALSE
      /\ IF elapsed THEN OnTimer ELSE UNCHANGED <<framerVars, timer>>
  BY DEF HandleTimer, lineVars, errorVars, queueVars, positionVars, historyVars
<1>2. ~receiveError /\ producer = written
  BY <1>1 DEF Inv2, ErrorInv, SampleInv
<1>3. elapsed /\ OnTimerRaced =>
        /\ elapsed /\ mark # producer /\ mark' = mark
        /\ \/ state = "WAIT_T1_5" /\ state' = "RECEIVING" /\ UNCHANGED <<frame, timer>>
           \/ state = "WAIT_T3_5" /\ state' = "DISCARD" /\ timer' = T3_5 /\ frame' = <<>>
           \/ state = "DISCARD" /\ state' = "DISCARD" /\ timer' = T3_5 /\ frame' = frame
  BY <1>2 DEF OnTimerRaced, DiscardUntilSilence, StartTimer
<1>4. elapsed /\ OnTimerSilent =>
        /\ elapsed /\ mark = producer
        /\ \/ /\ state = "WAIT_T1_5" /\ state' = "WAIT_T3_5" /\ UNCHANGED <<frame, mark>>
              /\ timer' = T3_5 - T1_5
           \/ /\ state = "WAIT_T3_5" /\ state' = "FRAME_READY" /\ frame' = frame
              /\ Len(frame) >= MinLength
           \/ /\ state = "WAIT_T3_5" /\ state' = "WAITING" /\ frame' = <<>>
              /\ Len(frame) < MinLength
           \/ /\ state = "DISCARD" /\ state' = "WAITING" /\ frame' = <<>>
  BY <1>2 DEF OnTimerSilent, Completed, Reset, StopTimer, StartTimer
<1>5. CASE elapsed /\ ~OnTimerRaced /\ ~OnTimerSilent
  BY <1>1, <1>2, <1>5 DEF OnTimer, framerVars
<1>6. CASE ~elapsed
  BY <1>1, <1>2, <1>6 DEF framerVars
<1> QED
  BY <1>1, <1>2, <1>3, <1>4, <1>5, <1>6

\* The other steps leave the framer alone, but for an error and for the server.
LEMMA FramerEffect ==
  ASSUME Inv2, [Next]_vars
  PROVE  \/ Tick \/ Sample \/ Restart \/ RestartFails \/ ReadByte \/ HandleIdle \/ HandleTimer
         \/ /\ ReceiveError /\ state' = "DISCARD" /\ timer' = T3_5 /\ elapsed' = FALSE
            /\ frame' = <<>> /\ consumer' = producer /\ idles' = <<>> /\ idleQueue' = <<>>
            /\ spoiled /\ spoiled' /\ phase = "FRAMER" /\ receiveError /\ ~receiveError'
            /\ UNCHANGED <<origin, producer, written, phase, wait, mark, taken, gaps, late,
                           lineError, stopped>>
         \/ /\ Take /\ state = "FRAME_READY" /\ state' = "WAITING" /\ frame' = <<>> /\ timer' = 0
            /\ phase = "TRANSPORT" /\ taken' = frame /\ mark' = written
            /\ UNCHANGED <<origin, producer, written, consumer, idles, idleQueue, elapsed, phase,
                           wait, spoiled, receiveError, gaps, late, lineError, stopped>>
         \/ /\ StartByte \/ Disturb \/ NoIdle \/ UNCHANGED vars
            /\ UNCHANGED <<origin, producer, written, consumer, idles, idleQueue, state, frame, mark,
                           timer, elapsed, receiveError, wait, taken, stopped>>
            /\ NoIdle \/ phase' = phase
            /\ Disturb \/ lineError' = lineError
            /\ StartByte \/ late' = late
            /\ StartByte \/ gaps' = gaps
            /\ Disturb => spoiled'
            /\ spoiled' => spoiled \/ Disturb
            /\ (spoiled /\ ~spoiled') \/ (late /\ ~late') => StartByte /\ silence = Quiet /\ AtRest
<1>1. CASE ReceiveError
  <2>1. spoiled
    BY <1>1 DEF ReceiveError, Inv2, ErrorInv
  <2> QED
    BY <1>1, <2>1 DEF ReceiveError, InFramer, DiscardUntilSilence, StartTimer,
       positionVars, errorVars, lineVars
<1>2. CASE Take
  BY <1>2 DEF Take, Reset, StopTimer, positionVars, queueVars, lineVars, errorVars
<1>4. CASE StartByte
  <2>1. /\ UNCHANGED <<origin, producer, written, consumer, idles, idleQueue, state, frame, mark,
                       timer, elapsed, receiveError, wait, taken, stopped>>
        /\ phase' = phase /\ lineError' = lineError
    BY <1>4 DEF StartByte, positionVars, queueVars, framerVars, timerVars, errorVars
  <2>2. \/ silence = Quiet /\ AtRest /\ spoiled' = FALSE /\ late' = FALSE
        \/ spoiled' = spoiled /\ late' = late
    BY <1>4 DEF StartByte
  <2>3. /\ spoiled' => spoiled
        /\ (spoiled /\ ~spoiled') \/ (late /\ ~late') => silence = Quiet /\ AtRest
    BY <2>2
  <2>4. ~Disturb
    BY <1>4 DEF StartByte, Disturb, lineVars
  <2> QED
    BY <1>4, <2>1, <2>3, <2>4, Zenon
<1>5. CASE Disturb
  BY <1>5 DEF Disturb, positionVars, queueVars, framerVars, timerVars, lineVars
<1>6. CASE NoIdle
  <2>1. /\ UNCHANGED <<origin, producer, written, consumer, idles, idleQueue, state, frame, mark,
                       timer, elapsed, receiveError, wait, taken, stopped>>
        /\ lineError' = lineError /\ late' = late /\ gaps' = gaps /\ spoiled' = spoiled
    BY <1>6 DEF NoIdle, InFramer, positionVars, queueVars, framerVars, timerVars, errorVars,
       lineVars
  <2>2. ~Disturb
    BY <1>6 DEF NoIdle, InFramer, Disturb
  <2> QED
    BY <1>6, <2>1, <2>2, Zenon
<1>7. CASE UNCHANGED vars
  <2>1. /\ UNCHANGED <<origin, producer, written, consumer, idles, idleQueue, state, frame, mark,
                       timer, elapsed, receiveError, wait, taken, stopped>>
        /\ phase' = phase /\ errors' = errors
        /\ lineError' = lineError /\ late' = late /\ gaps' = gaps /\ spoiled' = spoiled
    BY <1>7 DEF vars, positionVars, queueVars, framerVars, timerVars, historyVars, errorVars,
       lineVars
  <2>2. ~Disturb
    <3>1. errors \in 0 .. MaxErrors
      BY TypeParts DEF Inv2, Inv1, ErrorTypes
    <3>2. errors + 1 # errors
      BY <3>1, ConstantFacts
    <3> QED
      BY <2>1, <3>2 DEF Disturb
  <2> QED
    BY <1>7, <2>1, <2>2, Zenon
<1> QED
  BY <1>1, <1>2, <1>4, <1>5, <1>6, <1>7 DEF Next

LEMMA ErrorInvStep ==
  ASSUME NoRollover, Inv2, [Next]_vars
  PROVE  ErrorInv'
<1>1. ErrorInv /\ Inv1
  BY DEF Inv2
<1>2. CASE Tick
  <2>1. /\ UNCHANGED <<producer, consumer, phase, frame, receiveError, stopped>>
    BY <1>1, <1>2, TickFacts
  <2>2. (lineError' \/ receiveError' \/ stopped') => spoiled'
    <3>1. lineError' => lineError \/ (Idle /\ (Full \/ stopped))
      BY <1>2 DEF Tick
    <3>2. spoiled' = (spoiled \/ (Idle /\ Full))
      BY <1>2 DEF Tick
    <3> QED
      BY <1>1, <2>1, <3>1, <3>2 DEF ErrorInv
  <2>3. stopped' => (Sampled = Arrived)'
    <3> SUFFICES ASSUME stopped PROVE Sampled' = Arrived'
      BY <2>1
    <3>1. /\ Arrived \in Nat /\ origin \in Nat /\ producer \in Nat /\ origin + producer = Arrived
      BY <1>1, Numbers DEF ErrorInv, Sampled
    <3>2. (Arrived' = Arrived /\ receiving # 1) \/ (Arrived' = Arrived + 1 /\ receiving = 1)
      <4>1. LineTypes
        BY <1>1, Numbers
      <4>2. receiving = 1 => receiving' = 0
        BY <1>2 DEF Tick
      <4>3. gaps' = gaps /\ Len(gaps) \in Nat /\ receiving \in 0 .. CharacterTime
            /\ CharacterTime \in Nat
        BY <1>2, <4>1, LineFacts, ConstantFacts DEF Tick, LineTypes
      <4>4. receiving > 1 => receiving' = receiving - 1
        BY <1>2, <4>3 DEF Tick
      <4>5. receiving = 0 => receiving' = 0
        BY <1>2 DEF Tick
      <4>6. CASE receiving = 0
        BY <4>3, <4>5, <4>6 DEF Arrived
      <4>7. CASE receiving = 1
        BY <4>2, <4>3, <4>7 DEF Arrived
      <4>8. CASE receiving > 1
        BY <4>3, <4>4, <4>8 DEF Arrived
      <4> QED
        BY <4>3, <4>6, <4>7, <4>8
    <3>3. origin' = IF receiving = 1 THEN origin + 1 ELSE origin
      BY <1>2 DEF Tick
    <3>4. CASE receiving = 1
      BY <2>1, <3>1, <3>2, <3>3, <3>4 DEF Sampled
    <3>5. CASE receiving # 1
      BY <2>1, <3>1, <3>2, <3>3, <3>5 DEF Sampled
    <3> QED
      BY <3>4, <3>5
  <2> QED
    BY <1>1, <2>1, <2>2, <2>3 DEF ErrorInv
<1>3. ~Tick => Arrived' = Arrived
  BY <1>1, ArrivedStep
<1>4. CASE Sample
  <2>1. /\ producer' = Position /\ Sampled' = Arrived' /\ phase' = "FRAMER" /\ origin' = origin
        /\ ~lineError' /\ stopped' = stopped /\ consumer' = consumer /\ frame' = frame
        /\ receiveError' = (receiveError \/ Crowded) /\ spoiled' = (spoiled \/ Crowded)
        /\ origin + Position = Arrived /\ Position \in Nat
    BY <1>1, <1>4, SampleEffect
  <2>2. stopped => producer' = producer
    <3>1. stopped => origin + producer = Arrived
      BY <1>1 DEF ErrorInv, Sampled
    <3>2. origin \in Nat /\ producer \in Nat
      BY <1>1, Numbers
    <3>3. stopped => Position = producer
      BY <2>1, <3>1, <3>2
    <3> QED
      BY <2>1, <3>3
  <2> QED
    BY <1>1, <2>1, <2>2 DEF ErrorInv
<1>5. CASE RestartFails
  <2>1. /\ Sampled' = Arrived' /\ phase' = "FRAMER" /\ ~lineError' /\ spoiled' = spoiled
        /\ receiveError' /\ lineError
    BY <1>1, <1>5, SampleEffect
  <2> QED
    BY <1>1, <2>1 DEF ErrorInv
<1>6. CASE Restart
  BY <1>1, <1>6, RestartEffect DEF ErrorInv
<1>7. CASE ReadByte
  <2>1. /\ UNCHANGED <<origin, producer, phase, lineError, stopped, receiveError>>
        /\ ~receiveError /\ consumer # producer /\ (spoiled => spoiled')
    <3>1. consumer # producer
      BY <1>7 DEF ReadByte
    <3> QED
      BY <1>1, <1>7, <3>1, ReadByteEffect
  <2>2. ~stopped
    BY <1>1, <2>1 DEF ErrorInv
  <2> QED
    BY <1>1, <2>1, <2>2 DEF ErrorInv
<1>8. CASE HandleIdle \/ HandleTimer \/ Take
  <2>1. /\ UNCHANGED <<origin, producer, consumer, lineError, stopped, receiveError, spoiled>>
        /\ ~receiveError /\ frame' \in {frame, <<>>} /\ Arrived' = Arrived
    <3>1. CASE HandleIdle
      BY <1>1, <1>3, <3>1, HandleIdleEffect DEF HandleIdle, InFramer, Tick
    <3>2. CASE HandleTimer
      <4>1. ~Tick
        BY <3>2 DEF HandleTimer, Tick
      <4> QED
        BY <1>1, <1>3, <3>2, <4>1, HandleTimerEffect
    <3>3. CASE Take
      <4>1. ~receiveError
        BY <1>1, <3>3 DEF Take, ErrorInv
      <4> QED
        BY <3>3, <4>1 DEF Take, positionVars, errorVars, Reset, lineVars, Arrived
    <3> QED
      BY <1>8, <3>1, <3>2, <3>3
  <2>2. Sampled' = Sampled
    BY <2>1 DEF Sampled
  <2> QED
    BY <1>1, <2>1, <2>2 DEF ErrorInv
<1>9. CASE /\ ReceiveError /\ consumer' = producer /\ frame' = <<>> /\ spoiled' /\ ~receiveError'
           /\ UNCHANGED <<origin, producer>>
  <2>1. Sampled' = Sampled /\ stopped' = stopped
    BY <1>9 DEF Sampled, ReceiveError, InFramer, errorVars
  <2>2. Arrived' = Arrived
    BY <1>9 DEF ReceiveError, InFramer, lineVars, Arrived
  <2> QED
    BY <1>1, <1>9, <2>1, <2>2 DEF ErrorInv
<1>10. CASE /\ StartByte \/ Disturb \/ NoIdle \/ UNCHANGED vars
            /\ UNCHANGED <<origin, producer, consumer, frame, receiveError, stopped>>
            /\ NoIdle \/ phase' = phase
            /\ Disturb \/ lineError' = lineError
            /\ Disturb => spoiled'
            /\ spoiled /\ ~spoiled' => AtRest
  <2>1. Arrived' = Arrived
    <3>1. ~Tick
      <4>1. CASE StartByte
        BY <4>1 DEF StartByte, AtRest, Tick
      <4>2. CASE Disturb \/ NoIdle \/ UNCHANGED vars
        <5>1. lineVars' = lineVars
          BY <4>2 DEF Disturb, NoIdle, InFramer, vars
        <5>2. Arrived' = Arrived
          BY <5>1 DEF lineVars, Arrived
        <5>3. wait' = wait /\ wait \in Nat
          BY <1>1, <4>2, Numbers DEF Disturb, NoIdle, vars
        <5>4. wait + 1 # wait
          BY <5>3
        <5> QED
          BY <5>3, <5>4 DEF Tick
      <4> QED
        BY <1>10, <4>1, <4>2
    <3> QED
      BY <1>3, <3>1
  <2>2. Sampled' = Sampled
    BY <1>10 DEF Sampled
  <2>3. receiveError => ~NoIdle
    BY DEF NoIdle
  <2> QED
    BY <1>1, <1>10, <2>1, <2>2, <2>3 DEF ErrorInv, AtRest
<1> QED
  BY <1>2, <1>4, <1>5, <1>6, <1>7, <1>8, <1>9, <1>10, FramerEffect

LEMMA SampleInvStep ==
  ASSUME NoRollover, Inv2, [Next]_vars
  PROVE  SampleInv'
<1>1. SampleInv /\ Inv1 /\ ErrorInv
  BY DEF Inv2
<1>2. /\ Arrived \in Nat /\ origin \in Nat /\ producer \in Nat /\ origin =< Arrived
      /\ Since \in Nat /\ SinceSample \in Nat /\ Sampled = origin + producer /\ Sampled =< Arrived
      /\ LineTypes /\ silence \in Nat
  BY <1>1, Numbers
<1>3. ~Tick => Arrived' = Arrived /\ Since' = Since
  BY <1>2, LineNext
<1>4. CASE Sample \/ RestartFails
  <2>1. /\ producer' = Position /\ written' = Position /\ Sampled' = Arrived' /\ idles' = Collected
        /\ Position \in Nat /\ origin + Position = Arrived
    BY <1>1, <1>4, SampleEffect
  <2>2. ~(Sampled < Arrived)'
    BY <1>2, <1>3, <2>1, SampleEffect, <1>1, <1>4
  <2>3. \A n \in 1 .. Len(Collected) : Collected[n].position =< Position
    <3> TAKE n \in 1 .. Len(Collected)
    <3>1. Len(idles) \in Nat /\ Len(Collected) \in Nat
      BY <1>1, CollectedFacts
    <3>2. CASE n =< Len(idles)
      <4>1. n \in 1 .. Len(idles) /\ Collected[n] = idles[n]
        BY <1>1, <3>2, CollectedFacts
      <4>2. PICK p \in Nat : p = idles[n].position
        BY <1>1, <4>1, EventFacts
      <4>3. p =< producer
        BY <1>1, <4>1, <4>2, EventFacts DEF SampleInv
      <4>4. producer =< Position
        BY <1>2, <2>1
      <4> QED
        BY <1>2, <2>1, <4>1, <4>2, <4>3, <4>4
    <3>3. CASE n > Len(idles)
      <4>1. n - Len(idles) \in 1 .. Len(idleQueue) /\ Collected[n] = idleQueue[n - Len(idles)]
        BY <1>1, <3>3, CollectedFacts
      <4>2. PICK k : k = n - Len(idles)
        OBVIOUS
      <4>3. PICK p \in Nat : p = idleQueue[k].position /\ origin + p =< Arrived
        BY <1>1, <4>1, <4>2, EventFacts
      <4>4. p =< Position
        BY <1>2, <2>1, <4>3
      <4> QED
        BY <4>1, <4>2, <4>3, <4>4
    <3> QED
      BY <3>1, <3>2, <3>3
  <2>4. DOMAIN Collected = 1 .. Len(Collected)
    BY <1>1, CollectedFacts, SeqFacts
  <2> QED
    BY <2>1, <2>2, <2>3, <2>4 DEF SampleInv
<1>5. CASE Restart
  <2>1. producer' = 0 /\ written' = 0 /\ origin' = Arrived /\ idles' = <<>> /\ Arrived' = Arrived
    BY <1>5, RestartEffect
  <2>3. ~(Sampled < Arrived)'
    BY <1>2, <2>1 DEF Sampled
  <2> QED
    BY <2>1, <2>3 DEF SampleInv
<1>6. CASE Tick
  <2>1. /\ producer' = producer /\ written' = written
        /\ SinceSample' = SinceSample + 1 /\ (TickOn \/ TickOver \/ TickByte)
        /\ ~stopped => origin' = origin
    BY <1>1, <1>6, TickFacts
  <2>2. \A n \in DOMAIN idles' : idles'[n].position =< producer'
    <3>1. /\ idles' \in Seq(Events(Arrived)) /\ Len(idles') = Len(idles)
          /\ \A n \in 1 .. Len(idles) : idles'[n].position = idles[n].position
      BY <1>1, <1>6, QueueTick
    <3>2. DOMAIN idles' = 1 .. Len(idles) /\ DOMAIN idles = 1 .. Len(idles)
      BY <1>1, <1>2, <3>1, SeqFacts, EventFacts
    <3> QED
      BY <1>1, <2>1, <3>1, <3>2 DEF SampleInv
  <2>3. (Sampled < Arrived => Since < SinceSample)'
    <3>0. CASE stopped
      <4>1. (Sampled = Arrived)'
        BY <1>6, <3>0, ErrorInvStep DEF ErrorInv, Tick
      <4>2. Arrived' \in Nat
        BY <1>2, <2>1 DEF TickOn, TickOver, TickByte
      <4> QED
        BY <4>1, <4>2
    <3>4. CASE ~stopped
      <4>5. Sampled' = Sampled
        BY <2>1, <3>4 DEF Sampled
      <4>1. CASE TickOn
        <5>1. Arrived' = Arrived /\ Since' = Since + 1
          BY <4>1 DEF TickOn
        <5> QED
          BY <1>1, <1>2, <2>1, <4>5, <5>1 DEF SampleInv
      <4>2. CASE TickOver
        <5>1. Arrived' = Arrived /\ Since' = Since
          BY <4>2 DEF TickOver
        <5> QED
          BY <1>1, <1>2, <2>1, <4>5, <5>1 DEF SampleInv
      <4>3. CASE TickByte
        <5>1. Since' = 0
          BY <4>3 DEF TickByte
        <5> QED
          BY <1>2, <2>1, <5>1
      <4> QED
        BY <2>1, <4>1, <4>2, <4>3
    <3> QED
      BY <3>0, <3>4
  <2> QED
    BY <1>1, <2>1, <2>2, <2>3 DEF SampleInv
<1>7. CASE ~Tick /\ ~Sample /\ ~Restart /\ ~RestartFails
  <2>1. producer' = producer /\ written' = written /\ origin' = origin
    BY <1>7 DEF Next, vars, positionVars, StartByte, Disturb, ReceiveError, ReadByte, HandleIdle,
       NoIdle, InFramer, HandleTimer, Take
  <2>2. Sampled' = Sampled /\ Arrived' = Arrived /\ Since' = Since
    BY <1>3, <1>7, <2>1 DEF Sampled
  <2>3. PICK q \in Nat : SinceSample' = q /\ SinceSample =< q
    BY <1>1, <1>7, SinceSampleKept
  <2>4. Sampled < Arrived => Since < q
    BY <1>1, <1>2, <2>3 DEF SampleInv
  <2>5. \A n \in DOMAIN idles' : idles'[n].position =< producer
    <3>1. CASE idles' = idles \/ idles' = <<>>
      BY <1>1, <3>1 DEF SampleInv
    <3>2. CASE idles' = Tail(idles) /\ idles # <<>>
      <4> SUFFICES ASSUME NEW n \in DOMAIN idles' PROVE idles'[n].position =< producer
        OBVIOUS
      <4>1. n + 1 \in DOMAIN idles /\ idles'[n] = idles[n + 1]
        BY <1>1, <3>2, EventFacts
      <4> QED
        BY <1>1, <4>1 DEF SampleInv
    <3> QED
      BY <1>7, <3>1, <3>2 DEF Next, vars, queueVars, StartByte, Disturb, ReceiveError, ReadByte,
         HandleIdle, Reached, NoIdle, InFramer, HandleTimer, Take
  <2> QED
    BY <1>1, <2>1, <2>2, <2>3, <2>4, <2>5 DEF SampleInv
<1> QED
  BY <1>4, <1>5, <1>6, <1>7

LEMMA TimedInvStep ==
  ASSUME NoRollover, Inv2, [Next]_vars
  PROVE  TimedInv'
<1> DEFINE Bounded(s, t) == /\ s = "WAIT_T1_5" => t =< T1_5 - CharacterTime
                            /\ s = "WAIT_T3_5" => t =< T3_5 - T1_5
           Ticking == state \in Waits \cup {"DISCARD"} => (elapsed <=> timer = 0)
           Fresh == elapsed => InPass \/ wait > 0
           Holding == state \in {"WAITING", "DISCARD"} <=> frame = <<>>
<1>1. /\ timer \in Nat /\ timer =< T3_5 /\ wait \in Nat /\ elapsed \in BOOLEAN
      /\ state \in FramerStates /\ Inv1 /\ Len(frame) \in Nat /\ MaxLength \in Nat /\ 0 < MaxLength
      /\ frame \in Seq(1 .. Arrived) /\ TimedInv
  BY TypeParts, Numbers, SeqFacts, ConstantFacts DEF Inv2, Inv1, TimerTypes, FramerTypes
<1>2. /\ T3_5 \in Nat /\ T1_5 \in Nat /\ CharacterTime \in Nat /\ T3_5 > 0 /\ 0 < MinLength
      /\ T1_5 - CharacterTime > 0 /\ T3_5 - CharacterTime > 0 /\ T3_5 - T1_5 > 0
      /\ MinLength \in Nat
  BY ConstantFacts
<1>3. Ticking /\ Fresh /\ Holding /\ Bounded(state, timer)
  BY <1>1 DEF TimedInv
<1> SUFFICES Ticking' /\ Fresh' /\ Holding' /\ Bounded(state', timer')
  BY DEF TimedInv
<1>4. CASE Tick
  <2>1. /\ timer' = (IF timer > 0 THEN timer - 1 ELSE 0) /\ elapsed' = (elapsed \/ timer = 1)
        /\ wait' = wait + 1 /\ state' = state /\ frame' = frame
    BY <1>4 DEF Tick, framerVars
  <2>2. wait' > 0
    BY <1>1, <2>1
  <2>3. state \in Waits \cup {"DISCARD"} => (elapsed' <=> timer' = 0)
    <3>1. /\ timer > 1 => timer' # 0 /\ timer # 1 /\ timer # 0
          /\ timer = 1 => timer' = 0
          /\ timer = 0 => timer' = 0 /\ timer # 1
          /\ timer > 1 \/ timer = 1 \/ timer = 0
      BY <1>1, <2>1
    <3>2. elapsed' <=> elapsed \/ timer = 1
      BY <2>1
    <3> QED
      BY <1>3, <3>1, <3>2
  <2>4. Bounded(state, timer')
    <3>1. PICK t \in Nat : timer' = t /\ t =< timer
      BY <1>1, <2>1
    <3> QED
      BY <1>1, <1>2, <1>3, <3>1
  <2> QED
    BY <1>3, <2>1, <2>2, <2>3, <2>4
<1>5. CASE Restart \/ Sample \/ RestartFails
  <2>1. UNCHANGED <<state, frame, timer, elapsed>> /\ InPass'
    BY <1>1, <1>5, RestartEffect, SampleEffect DEF InPass
  <2> QED
    BY <1>3, <2>1
<1>6. CASE ReadByte
  <2>1. phase' = "FRAMER"
    BY <1>1, <1>6, ReadByteEffect
  <2>2. CASE /\ state' = "DISCARD" /\ timer' = T3_5 /\ elapsed' = FALSE
             /\ frame' = <<>> \/ (state = "DISCARD" /\ frame' = frame)
    <3>1. frame' = <<>>
      BY <1>3, <2>2
    <3>2. ~(timer' = 0)
      BY <1>2, <2>2
    <3> QED
      BY <2>1, <2>2, <3>1, <3>2 DEF InPass
  <2>3. CASE state' = "RECEIVING" /\ frame' # <<>>
    BY <2>1, <2>3 DEF InPass, Waits
  <2> QED
    BY <1>1, <1>6, <2>2, <2>3, ReadByteEffect
<1>7. CASE HandleIdle
  <2>1. phase' = "TIMER"
    BY <1>1, <1>7, HandleIdleEffect
  <2>2. CASE /\ state = "RECEIVING" /\ state' = "WAIT_T1_5" /\ frame' = frame
             /\ timer' = T1_5 - CharacterTime /\ elapsed' = FALSE
    <3>1. ~(timer' = 0) /\ timer' =< T1_5 - CharacterTime
      BY <1>2, <2>2
    <3> QED
      BY <1>3, <2>1, <2>2, <3>1 DEF InPass, Waits
  <2>3. CASE /\ state = "DISCARD" /\ state' = "DISCARD" /\ frame' = frame
             /\ timer' = T3_5 - CharacterTime /\ elapsed' = FALSE
    <3>1. ~(timer' = 0)
      BY <1>2, <2>3
    <3> QED
      BY <1>3, <2>1, <2>3, <3>1 DEF InPass, Waits
  <2>4. CASE UNCHANGED <<state, timer, elapsed, frame>>
    BY <1>3, <2>1, <2>4 DEF InPass
  <2>5. CASE state' = "WAITING" /\ frame' = <<>>
    BY <2>1, <2>5 DEF InPass, Waits
  <2>6. CASE state = "RECEIVING" /\ state' = "FRAME_READY" /\ frame' = frame
    BY <1>3, <2>1, <2>6 DEF InPass, Waits
  <2> QED
    BY <1>1, <1>7, <2>2, <2>3, <2>4, <2>5, <2>6, HandleIdleEffect
<1>8. CASE HandleTimer
  <2>1. elapsed' = FALSE
    BY <1>8, HandleTimerEffect
  <2>2. (state' \in Waits \cup {"DISCARD"} => timer' # 0) /\ Bounded(state', timer')
    <3>1. CASE /\ ~elapsed \/ state \in {"WAITING", "RECEIVING", "FRAME_READY"}
               /\ UNCHANGED <<state, frame, mark, timer>>
      BY <1>3, <3>1 DEF Waits
    <3>2. CASE state' \in {"RECEIVING", "FRAME_READY", "WAITING"}
      BY <3>2 DEF Waits
    <3>3. CASE state' = "DISCARD" /\ timer' = T3_5
      BY <1>2, <3>3
    <3>4. CASE state' = "WAIT_T3_5" /\ timer' = T3_5 - T1_5
      BY <1>2, <3>4
    <3> QED
      BY <1>8, <3>1, <3>2, <3>3, <3>4, HandleTimerEffect
  <2>3. state' \in {"WAITING", "DISCARD"} <=> frame' = <<>>
    BY <1>3, <1>8, HandleTimerEffect
  <2> QED
    BY <2>1, <2>2, <2>3
<1>9. CASE /\ ReceiveError /\ state' = "DISCARD" /\ timer' = T3_5 /\ elapsed' = FALSE
           /\ frame' = <<>>
  <2>1. ~(timer' = 0)
    BY <1>2, <1>9
  <2> QED
    BY <1>9, <2>1
<1>10. CASE /\ Take /\ state' = "WAITING" /\ frame' = <<>> /\ UNCHANGED <<elapsed, phase, wait>>
  BY <1>3, <1>10 DEF Waits, InPass
<1>11. CASE /\ UNCHANGED <<state, frame, timer, elapsed, wait>>
            /\ NoIdle \/ phase' = phase
  <2>1. InPass' <=> InPass
    BY <1>11 DEF InPass, NoIdle, InFramer
  <2> QED
    BY <1>3, <1>11, <2>1
<1> QED
  BY <1>4, <1>5, <1>6, <1>7, <1>8, <1>9, <1>10, <1>11, FramerEffect

LEMMA LateInvStep ==
  ASSUME NoRollover, Inv2, [Next]_vars
  PROVE  LateInv'
<1> SUFFICES ASSUME ~late'
             PROVE  /\ Len(idleQueue') =< 1
                    /\ \A n \in DOMAIN idleQueue' : ~Late(idleQueue'[n])
                    /\ \A n \in DOMAIN idles' : ~Late(idles'[n])
  BY DEF LateInv, InTime, Late
<1>1. Inv1 /\ LateInv
  BY DEF Inv2
<1>2. Len(<<>>) = 0 /\ DOMAIN <<>> = {}
  BY EmptySeq
<1>3. CASE Tick
  <2>1. ~Overtaken'
    <3>1. late' = (late \/ Overtaken')
      BY <1>3 DEF Tick
    <3> QED
      BY <3>1
  <2>2. Len(idleQueue') \in Nat
    BY <1>1, <1>3, QueueTick, SeqFacts
  <2> QED
    BY <2>1, <2>2 DEF Overtaken, Late
<1>4. CASE ~late /\ idleQueue' = <<>> /\ (Sample \/ RestartFails)
  <2>1. idles' = Collected
    BY <1>1, <1>4, SampleEffect
  <2>2. \A n \in DOMAIN Collected : ~Late(Collected[n])
    <3> TAKE n \in DOMAIN Collected
    <3>1. Len(idles) \in Nat /\ Len(Collected) \in Nat /\ DOMAIN Collected = 1 .. Len(Collected)
          /\ DOMAIN idles = 1 .. Len(idles) /\ DOMAIN idleQueue = 1 .. Len(idleQueue)
      BY <1>1, CollectedFacts, SeqFacts, EventFacts
    <3>2. CASE n =< Len(idles)
      <4>1. n \in DOMAIN idles /\ Collected[n] = idles[n]
        BY <1>1, <3>1, <3>2, CollectedFacts
      <4> QED
        BY <1>1, <1>4, <4>1 DEF LateInv, InTime
    <3>3. CASE n > Len(idles)
      <4>1. n - Len(idles) \in DOMAIN idleQueue /\ Collected[n] = idleQueue[n - Len(idles)]
        BY <1>1, <3>1, <3>3, CollectedFacts
      <4> QED
        BY <1>1, <1>4, <4>1 DEF LateInv, InTime
    <3> QED
      BY <3>1, <3>2, <3>3
  <2> QED
    BY <1>2, <1>4, <2>1, <2>2 DEF Late
<1>5. CASE idleQueue' = <<>> /\ idles' = <<>>
  BY <1>2, <1>5
<1>6. CASE ~late /\ idleQueue' = idleQueue /\ idles' = Tail(idles) /\ idles # <<>>
  <2>1. \A n \in DOMAIN Tail(idles) : n + 1 \in DOMAIN idles /\ Tail(idles)[n] = idles[n + 1]
    BY <1>1, <1>6, EventFacts
  <2> QED
    BY <1>1, <1>6, <2>1 DEF LateInv, InTime, Late
<1>7. CASE ~late /\ idleQueue' = idleQueue /\ idles' = idles
  BY <1>1, <1>7 DEF LateInv, InTime, Late
<1>8. CASE late /\ AtRest /\ idleQueue' = idleQueue /\ idles' = idles
  BY <1>2, <1>8 DEF AtRest
<1>9. CASE ReadByte
  BY <1>1, <1>7, <1>9, ReadByteEffect
<1>10. CASE HandleIdle
  BY <1>1, <1>6, <1>10, HandleIdleEffect
<1>11. CASE HandleTimer
  BY <1>7, <1>11, HandleTimerEffect
<1>12. CASE Sample \/ RestartFails
  BY <1>1, <1>4, <1>12, SampleEffect
<1>13. CASE Restart
  BY <1>5, <1>13, RestartEffect
<1> QED
  BY <1>3, <1>5, <1>7, <1>8, <1>9, <1>10, <1>11, <1>12, <1>13, FramerEffect

LEMMA Inv2Init == Init => Inv2
<1> SUFFICES ASSUME Init PROVE Inv2
  OBVIOUS
<1>1. Inv1 /\ Arrived = 0
  <2>1. gaps = <<>> /\ receiving = 0 /\ Len(<<>>) = 0
    BY EmptySeq DEF Init
  <2> QED
    BY <2>1, Inv1Init DEF Arrived
<1>2. Len(<<>>) = 0 /\ DOMAIN <<>> = {}
  BY EmptySeq
<1>3. ErrorInv
  BY <1>1 DEF Init, ErrorInv, Sampled
<1>4. SampleInv
  BY <1>1, <1>2 DEF Init, SampleInv, Sampled
<1>5. TimedInv
  BY DEF Init, TimedInv, Waits
<1>6. LateInv
  BY <1>2 DEF Init, LateInv, InTime
<1> QED
  BY <1>1, <1>3, <1>4, <1>5, <1>6 DEF Inv2

LEMMA Inv2Step == NoRollover /\ Inv2 /\ [Next]_vars => Inv2'
<1> SUFFICES ASSUME NoRollover, Inv2, [Next]_vars PROVE Inv2'
  OBVIOUS
<1>1. Inv1'
  BY Inv1Step DEF Inv2
<1> QED
  BY <1>1, ErrorInvStep, SampleInvStep, TimedInvStep, LateInvStep DEF Inv2

LEMMA Inv2Holds == ASSUME NoRollover PROVE Spec => []Inv2
BY Inv2Init, Inv2Step, PTL DEF Spec

-----------------------------------------------------------------------------
(* The receiver while the main loop keeps up and no error is to be handled: *)
(* one idle event at most is in each queue, and tells the silence after its *)
(* byte.  An error that is handled brings it back to that.                  *)

Sound == ~late /\ ~stopped /\ ~receiveError

QueueInv ==
  /\ Len(idleQueue) =< 1
  /\ idleQueue # <<>> => Aged(idleQueue[1]) /\ idleQueue[1].age < SinceSample

IdlesInv ==
  /\ Len(idles) =< 1
  /\ idles # <<>> =>
       /\ phase = "FRAMER" /\ Aged(idles[1]) /\ idles[1].age < Pass + wait
       /\ consumer =< idles[1].position /\ idles[1].position =< producer
       /\ idleQueue # <<>> => idles[1].position < idleQueue[1].position

Paced == Inv2 /\ ~stopped /\ ~receiveError /\ QueueInv /\ IdlesInv

\* Sequences of one event.
LEMMA OlderNone == Older(<<>>) = <<>>
<1>1. <<>> \in Seq(Events(0)) /\ Len(<<>>) = 0
  BY EmptySeq
<1>2. Older(<<>>) \in Seq(Events(0)) /\ Len(Older(<<>>)) = 0
  BY <1>1, OlderFacts
<1> QED
  BY <1>2, SeqFacts

LEMMA OneFacts ==
  ASSUME NEW m \in Nat, NEW s \in Seq(Events(m)), Len(s) =< 1, s # <<>>
  PROVE  /\ Len(s) = 1 /\ Head(s) = s[1] /\ Tail(s) = <<>> /\ s = << s[1] >>
         /\ s[1].position \in Nat /\ s[1].age \in Nat /\ s[1].position =< m /\ s[1].age =< T3_5
         /\ s[1] = [position |-> s[1].position, age |-> s[1].age]
<1>1. Len(s) = 1
  <2>1. PICK n \in Nat : n = Len(s) /\ n > 0
    BY SeqFacts
  <2>2. n =< 1
    BY <2>1
  <2> QED
    BY <2>1, <2>2
<1>2. s[1] \in Events(m) /\ s = << s[1] >>
  <2>1. 1 \in 1 .. Len(s)
    BY <1>1
  <2>2. s[1] \in Events(m)
    BY <2>1, ElementOfSeq
  <2> QED
    BY <1>1, <2>2
<1>3. s[1].position \in 0 .. m /\ s[1].age \in 0 .. T3_5
      /\ s[1] = [position |-> s[1].position, age |-> s[1].age]
  BY <1>2 DEF Events
<1>4. /\ s[1].position \in Nat /\ s[1].age \in Nat /\ s[1].position =< m /\ s[1].age =< T3_5
  <2>1. T3_5 \in Nat
    BY ConstantFacts
  <2>2. \A i \in 0 .. m : i \in Nat /\ i =< m
    OBVIOUS
  <2>3. \A i \in 0 .. T3_5 : i \in Nat /\ i =< T3_5
    BY <2>1
  <2> QED
    BY <1>3, <2>2, <2>3
<1>5. Tail(s) = <<>>
  <2>1. Tail(s) \in Seq(Events(m)) /\ Len(Tail(s)) = 0
    BY <1>1, HeadTailProperties
  <2> QED
    BY <2>1, SeqFacts
<1> QED
  BY <1>1, <1>2, <1>3, <1>4, <1>5

LEMMA OlderOne ==
  ASSUME NEW m \in Nat, NEW s \in Seq(Events(m)), Len(s) = 1, s[1].age < T3_5
  PROVE  Older(s) = <<[position |-> s[1].position, age |-> s[1].age + 1]>>
<1>0. 1 \in 1 .. Len(s)
  OBVIOUS
<1>1. s[1] \in Events(m)
  BY <1>0, ElementOfSeq
<1>2. s[1].age \in 0 .. T3_5
  BY <1>1 DEF Events
<1>3. Capped(s[1].age + 1, T3_5) = s[1].age + 1
  BY <1>2, ConstantFacts DEF Capped
<1>4. /\ Older(s) \in Seq(Events(m)) /\ Len(Older(s)) = 1
      /\ Older(s)[1].position = s[1].position
      /\ Older(s)[1].age = s[1].age + 1
  BY <1>3, OlderFacts
<1>5. Older(s)[1] \in Events(m)
  <2>1. 1 \in 1 .. Len(Older(s))
    BY <1>4
  <2> QED
    BY <1>4, <2>1, ElementOfSeq
<1>6. Older(s)[1] = [position |-> s[1].position, age |-> s[1].age + 1]
  BY <1>4, <1>5 DEF Events
<1>7. Older(s) = << Older(s)[1] >>
  BY <1>4
<1> QED
  BY <1>6, <1>7

\* What the proofs below take of an idle event in either queue.
LEMMA IdleFacts ==
  ASSUME Paced
  PROVE  /\ idles # <<>> =>
              /\ Len(idles) = 1 /\ Head(idles) = idles[1] /\ Tail(idles) = <<>>
              /\ idles = << idles[1] >>
              /\ idles[1].position \in Nat /\ idles[1].age \in Nat
              /\ idles[1].position =< Arrived
              /\ idles[1] = [position |-> idles[1].position, age |-> idles[1].age]
         /\ idleQueue # <<>> =>
              /\ Len(idleQueue) = 1 /\ idleQueue = << idleQueue[1] >>
              /\ idleQueue[1].position \in Nat /\ idleQueue[1].age \in Nat
              /\ idleQueue[1].position =< Arrived
              /\ idleQueue[1] = [position |-> idleQueue[1].position, age |-> idleQueue[1].age]
              /\ producer =< idleQueue[1].position
              /\ Aged(idleQueue[1]) /\ idleQueue[1].age < SinceSample
<1>1. /\ idles \in Seq(Events(Arrived)) /\ idleQueue \in Seq(Events(Arrived)) /\ Arrived \in Nat
      /\ Len(idleQueue) =< 1 /\ Len(idles) =< 1 /\ Inv1
  BY TypeParts, Numbers DEF Paced, Inv2, Inv1, QueueTypes, QueueInv, IdlesInv
<1>2. ASSUME idleQueue # <<>>
      PROVE  /\ producer =< idleQueue[1].position
             /\ Aged(idleQueue[1]) /\ idleQueue[1].age < SinceSample
  <2>1. Len(idleQueue) = 1
    BY <1>1, <1>2, OneFacts
  <2>2. 1 \in DOMAIN idleQueue
    BY <1>1, <2>1, SeqFacts
  <2> QED
    BY <1>1, <1>2, <2>2, EventFacts DEF Paced, QueueInv
<1>3. ASSUME idles # <<>>
      PROVE  /\ Len(idles) = 1 /\ Head(idles) = idles[1] /\ Tail(idles) = <<>>
             /\ idles = << idles[1] >>
             /\ idles[1].position \in Nat /\ idles[1].age \in Nat
             /\ idles[1].position =< Arrived
             /\ idles[1] = [position |-> idles[1].position, age |-> idles[1].age]
  BY <1>1, <1>3, OneFacts
<1>4. ASSUME idleQueue # <<>>
      PROVE  /\ Len(idleQueue) = 1 /\ idleQueue = << idleQueue[1] >>
             /\ idleQueue[1].position \in Nat /\ idleQueue[1].age \in Nat
             /\ idleQueue[1].position =< Arrived
             /\ idleQueue[1] = [position |-> idleQueue[1].position, age |-> idleQueue[1].age]
  BY <1>1, <1>4, OneFacts
<1> QED
  BY <1>2, <1>3, <1>4

\* The steps a sound receiver takes.
LEMMA PacedEffect ==
  ASSUME NoRollover, Paced, [Next]_vars, Sound'
  PROVE  /\ ~Restart /\ ~RestartFails /\ ~ReceiveError
         /\ \/ Tick \/ ReadByte \/ HandleIdle \/ HandleTimer
            \/ /\ Sample /\ ~Crowded /\ phase = "TRANSPORT" /\ phase' = "FRAMER" /\ wait' = 0
               /\ producer' = Position /\ written' = Position
               /\ origin + Position = Arrived /\ Position \in Nat
               /\ idles' = Collected /\ idleQueue' = <<>>
               /\ UNCHANGED <<origin, consumer, state, frame, mark, timer, elapsed, receiveError,
                              taken, gaps>>
            \/ /\ Take /\ state = "FRAME_READY" /\ state' = "WAITING" /\ frame' = <<>>
               /\ timer' = 0 /\ phase = "TRANSPORT" /\ taken' = frame /\ mark' = written
               /\ UNCHANGED <<origin, producer, written, consumer, idles, idleQueue, elapsed, phase,
                              wait, spoiled, receiveError, gaps>>
            \/ /\ StartByte \/ Disturb \/ NoIdle \/ UNCHANGED vars
               /\ UNCHANGED <<origin, producer, written, consumer, idles, idleQueue, state, frame,
                              mark, timer, elapsed, receiveError, wait, taken>>
               /\ NoIdle \/ phase' = phase
               /\ spoiled' => spoiled \/ Disturb
               /\ spoiled /\ ~spoiled' => StartByte /\ silence = Quiet /\ AtRest
<1>1. Inv2 /\ Inv1 /\ ~receiveError /\ ~receiveError' /\ ~stopped'
  BY DEF Paced, Inv2, Sound
<1>2. ~Restart /\ ~RestartFails /\ ~ReceiveError
  BY <1>1, RestartEffect, SampleEffect DEF ReceiveError
<1>3. CASE Sample
  <2>1. ~Crowded /\ receiveError' = receiveError
    <3>1. receiveError' = (receiveError \/ Crowded)
      BY <1>1, <1>3, SampleEffect
    <3>2. receiveError \in BOOLEAN
      BY <1>1, TypeParts DEF Inv1, ErrorTypes
    <3> QED
      BY <1>1, <3>1, <3>2
  <2> QED
    BY <1>1, <1>2, <1>3, <2>1, SampleEffect
<1> QED
  BY <1>1, <1>2, <1>3, FramerEffect

\* Time goes on, and the main loop keeps up with it.
LEMMA PacedTick ==
  ASSUME Paced, Tick, Sound'
  PROVE  /\ Inv1 /\ origin' = origin /\ ~Full /\ Len(idleQueue') =< 1
         /\ idleQueue # <<>> => idleQueue[1].age < T3_5 - CharacterTime
         /\ idles # <<>> => idles[1].age < T3_5 - CharacterTime
         /\ InPass => wait + 1 < T3_5
<1>1. Inv1 /\ ~stopped /\ LateInv /\ QueueInv /\ ~late'
  BY DEF Paced, Inv2, Sound
<1>2. ~late /\ ~Overtaken'
  <2>1. late' = (late \/ Overtaken') /\ late \in BOOLEAN
    BY <1>1, TypeParts DEF Tick, Inv1, HistoryTypes
  <2> QED
    BY <1>1, <2>1
<1>3. origin' = origin /\ wait' = wait + 1 /\ phase' = phase /\ wait \in Nat
  BY <1>1, TickFacts, Numbers
<1>4. ~Full
  <2>1. Len(idleQueue) =< 1 /\ IdleDepth > 1 /\ IdleDepth \in Nat
    BY <1>1, ConstantFacts DEF QueueInv
  <2> QED
    BY <2>1 DEF Full
<1>5. Len(idleQueue') =< 1
  <2>1. Len(idleQueue') \in Nat
    BY <1>1, QueueTick, SeqFacts
  <2> QED
    BY <1>2, <2>1 DEF Overtaken
<1>6. ASSUME idleQueue # <<>> PROVE idleQueue[1].age < T3_5 - CharacterTime
  <2>1. 1 \in DOMAIN idleQueue /\ idleQueue[1].age \in Nat
    BY <1>1, <1>6, IdleFacts, EventFacts
  <2>2. ~Late(idleQueue[1])
    BY <1>1, <1>2, <2>1 DEF LateInv, InTime
  <2> QED
    BY <2>1, <2>2, ConstantFacts DEF Late
<1>7. ASSUME idles # <<>> PROVE idles[1].age < T3_5 - CharacterTime
  <2>1. 1 \in DOMAIN idles /\ idles[1].age \in Nat
    BY <1>1, <1>7, IdleFacts, EventFacts
  <2>2. ~Late(idles[1])
    BY <1>1, <1>2, <2>1 DEF LateInv, InTime
  <2> QED
    BY <2>1, <2>2, ConstantFacts DEF Late
<1>8. InPass => wait + 1 < T3_5
  <2>1. InPass => ~(wait + 1 >= T3_5)
    BY <1>2, <1>3 DEF Overtaken, InPass
  <2> QED
    BY <1>3, <2>1, ConstantFacts
<1> QED
  BY <1>1, <1>3, <1>4, <1>5, <1>6, <1>7, <1>8

\* An event and the line, a tick later.
LEMMA AgedNext ==
  ASSUME Paced, Tick, Sound', NEW p \in Nat, NEW a \in Nat,
         Aged([position |-> p, age |-> a]), a < T3_5 - CharacterTime
  PROVE  Aged([position |-> p, age |-> a + 1])'
<1>1. LineTypes /\ origin \in Nat /\ origin' = origin /\ Arrived \in Nat
  BY Numbers, PacedTick
<1>2. /\ origin + p =< Arrived
      /\ origin + p = Arrived' => silence' >= CharacterTime /\ a + 1 = Since' - CharacterTime
      /\ origin + p < Arrived' =>
           /\ gaps'[origin + p + 1] >= CharacterTime
           /\ a + 1 >= gaps'[origin + p + 1] + Since'
  BY <1>1, AgedTick
<1>3. Arrived' = Arrived \/ Arrived' = Arrived + 1
  BY <1>1, LineTick DEF TickOn, TickOver, TickByte
<1>4. origin + p =< Arrived'
  <2>1. CASE Arrived' = Arrived
    BY <1>2, <2>1
  <2>2. CASE Arrived' = Arrived + 1
    BY <1>1, <1>2, <2>2
  <2> QED
    BY <1>3, <2>1, <2>2
<1>5. a + 1 \in Nat
  OBVIOUS
<1> QED
  BY <1>1, <1>2, <1>4, <1>5 DEF Aged, Byte

LEMMA AgedStill ==
  ASSUME Inv1, [Next]_vars, ~Tick, origin' = origin,
         NEW p \in Nat, NEW a \in Nat, Aged([position |-> p, age |-> a])
  PROVE  Aged([position |-> p, age |-> a])'
<1>1. LineTypes /\ origin \in Nat /\ Arrived \in Nat
  BY Numbers
<1>2. /\ Arrived' = Arrived /\ Since' = Since /\ silence' = silence
      /\ \A n \in 1 .. Arrived : gaps'[n] = gaps[n]
  BY <1>1, LineNext
<1>3. /\ origin + p =< Arrived /\ origin + p \in Nat
      /\ origin + p = Arrived => silence >= CharacterTime /\ a = Since - CharacterTime
      /\ origin + p < Arrived => /\ gaps[origin + p + 1] >= CharacterTime
                                 /\ a >= gaps[origin + p + 1] + Since
  BY <1>1 DEF Aged, Byte
<1>4. origin + p < Arrived => gaps'[origin + p + 1] = gaps[origin + p + 1]
  BY <1>1, <1>2, <1>3
<1> QED
  BY <1>2, <1>3, <1>4 DEF Aged, Byte

\* What becomes of the event of the interrupt handler, and of that of the pass.
LEMMA OneTick ==
  ASSUME Paced, Tick, Sound'
  PROVE  /\ \/ idleQueue = <<>> /\ idleQueue' = <<>> /\ ~Idle
            \/ /\ idleQueue = <<>> /\ idleQueue' = <<[position |-> Position, age |-> 0]>>
               /\ Idle
            \/ /\ Len(idleQueue) = 1 /\ idleQueue # <<>> /\ ~Idle
               /\ idleQueue' = <<[position |-> idleQueue[1].position,
                                  age |-> idleQueue[1].age + 1]>>
         /\ \/ idles = <<>> /\ idles' = <<>>
            \/ /\ Len(idles) = 1 /\ idles # <<>>
               /\ idles' = <<[position |-> idles[1].position, age |-> idles[1].age + 1]>>
<1>1. /\ idleQueue' = Older(idleQueue) \o (IF Idle /\ ~Full
                                           THEN <<[position |-> Position, age |-> 0]>> ELSE <<>>)
      /\ idles' = Older(idles)
  BY DEF Tick
<1>2. /\ Inv1 /\ ~Full /\ Len(idleQueue') =< 1
      /\ idleQueue # <<>> => idleQueue[1].age < T3_5 - CharacterTime
      /\ idles # <<>> => idles[1].age < T3_5 - CharacterTime
      /\ T3_5 \in Nat /\ CharacterTime \in Nat
  BY PacedTick, ConstantFacts
<1>3. /\ idles \in Seq(Events(Arrived)) /\ idleQueue \in Seq(Events(Arrived)) /\ Arrived \in Nat
  BY <1>2, TypeParts, Numbers DEF Inv1, QueueTypes
<1>4. \/ idles = <<>> /\ idles' = <<>>
      \/ /\ Len(idles) = 1 /\ idles # <<>>
         /\ idles' = <<[position |-> idles[1].position, age |-> idles[1].age + 1]>>
  <2>1. CASE idles = <<>>
    BY <1>1, <2>1, OlderNone
  <2>2. CASE idles # <<>>
    <3>1. Len(idles) = 1 /\ idles[1].age \in Nat
      BY <2>2, IdleFacts
    <3>2. idles[1].age < T3_5
      BY <1>2, <2>2, <3>1
    <3> QED
      BY <1>1, <1>3, <2>2, <3>1, <3>2, OlderOne
  <2> QED
    BY <2>1, <2>2
<1>5. CASE idleQueue = <<>>
  <2>1. Older(idleQueue) = <<>>
    BY <1>5, OlderNone
  <2>2. CASE Idle
    <3>1. idleQueue' = <<>> \o <<[position |-> Position, age |-> 0]>>
      BY <1>1, <1>2, <2>1, <2>2
    <3>2. idleQueue' = <<[position |-> Position, age |-> 0]>>
      BY <3>1
    <3> QED
      BY <1>4, <1>5, <2>2, <3>2
  <2>3. CASE ~Idle
    <3>1. idleQueue' = <<>> \o <<>>
      BY <1>1, <2>1, <2>3
    <3>2. idleQueue' = <<>>
      BY <3>1
    <3> QED
      BY <1>4, <1>5, <2>3, <3>2
  <2> QED
    BY <2>2, <2>3
<1>6. CASE idleQueue # <<>>
  <2>1. Len(idleQueue) = 1 /\ idleQueue[1].age \in Nat
    BY <1>6, IdleFacts
  <2>2. idleQueue[1].age < T3_5
    BY <1>2, <1>6, <2>1
  <2>3. Older(idleQueue) = <<[position |-> idleQueue[1].position, age |-> idleQueue[1].age + 1]>>
    BY <1>3, <1>6, <2>1, <2>2, OlderOne
  <2>4. ~Idle
    <3>1. Len(idleQueue') = Len(idleQueue) + (IF Idle /\ ~Full THEN 1 ELSE 0)
      BY <1>2, QueueTick
    <3> QED
      BY <1>2, <2>1, <3>1
  <2> QED
    BY <1>1, <1>4, <1>6, <2>1, <2>3, <2>4
<1> QED
  BY <1>5, <1>6

LEMMA OneEvent ==
  ASSUME NEW p, NEW a, idleQueue' = <<[position |-> p, age |-> a]>>,
         Aged([position |-> p, age |-> a])', a < SinceSample'
  PROVE  QueueInv'
<1>1. Len(idleQueue') = 1 /\ idleQueue'[1] = [position |-> p, age |-> a]
  OBVIOUS
<1>2. idleQueue'[1].position = p /\ idleQueue'[1].age = a
  BY <1>1
<1>3. Aged(idleQueue[1])'
  BY <1>1
<1> QED
  BY <1>1, <1>2, <1>3 DEF QueueInv

LEMMA OneIdle ==
  ASSUME NEW p, NEW a, idles' = <<[position |-> p, age |-> a]>>, phase' = "FRAMER",
         Aged([position |-> p, age |-> a])', a < Pass + wait', consumer' =< p, p =< producer',
         idleQueue' # <<>> => p < idleQueue'[1].position
  PROVE  IdlesInv'
<1>1. Len(idles') = 1 /\ idles'[1] = [position |-> p, age |-> a]
  OBVIOUS
<1>2. idles'[1].position = p /\ idles'[1].age = a
  BY <1>1
<1>3. Aged(idles[1])'
  BY <1>1
<1>4. Pass' = Pass
  BY DEF Pass
<1> QED
  BY <1>1, <1>2, <1>3, <1>4 DEF IdlesInv

LEMMA QueueInvStep ==
  ASSUME NoRollover, Paced, [Next]_vars, Sound'
  PROVE  QueueInv'
<1>1. /\ LineTypes /\ Arrived \in Nat /\ Since \in Nat /\ silence \in Nat /\ origin \in Nat
      /\ origin =< Arrived /\ wait \in Nat /\ SinceSample \in Nat /\ Inv1
  BY Numbers DEF Paced, Inv2
<1>2. CASE idleQueue' = <<>>
  BY <1>2, EmptySeq DEF QueueInv
<1>3. CASE Tick
  <2>1. origin' = origin /\ SinceSample' = SinceSample + 1
    BY <1>1, <1>3, PacedTick, TickFacts
  <2>2. CASE idleQueue' = <<[position |-> Position, age |-> 0]>> /\ Idle
    <3>1. PICK p \in Nat : origin + p = Arrived /\ p = Position
      BY <1>1 DEF Position
    <3>2. /\ Arrived' = Arrived /\ silence' = CharacterTime /\ Since' = CharacterTime
      <4>1. receiving = 0 /\ silence + 1 = CharacterTime
        BY <2>2 DEF Idle
      <4>2. receiving' = 0 /\ gaps' = gaps /\ silence' = Capped(silence + 1, Quiet)
        BY <1>3, <4>1 DEF Tick
      <4> QED
        BY <1>1, <4>1, <4>2, ConstantFacts DEF Capped, Arrived, Since
    <3>3. 0 < SinceSample'
      BY <1>1, <2>1
    <3>4. /\ origin' + p = Arrived' /\ ~(origin' + p < Arrived') /\ 0 = Since' - CharacterTime
          /\ origin' + p =< Arrived' /\ silence' >= CharacterTime
      <4>1. CharacterTime \in Nat
        BY ConstantFacts
      <4> QED
        BY <1>1, <2>1, <3>1, <3>2, <4>1
    <3>5. Aged([position |-> p, age |-> 0])'
      BY <3>1, <3>4 DEF Aged, Byte
    <3> QED
      BY <2>2, <3>1, <3>3, <3>5, OneEvent
  <2>3. CASE /\ idleQueue # <<>>
             /\ idleQueue' = <<[position |-> idleQueue[1].position, age |-> idleQueue[1].age + 1]>>
    <3>1. PICK p \in Nat, a \in Nat :
            /\ p = idleQueue[1].position /\ a = idleQueue[1].age
            /\ Aged([position |-> p, age |-> a]) /\ a < SinceSample
      BY <2>3, IdleFacts
    <3>2. a < T3_5 - CharacterTime
      BY <1>3, <2>3, <3>1, PacedTick
    <3>3. Aged([position |-> p, age |-> a + 1])'
      BY <1>3, <3>1, <3>2, AgedNext
    <3>4. a + 1 < SinceSample'
      BY <1>1, <2>1, <3>1
    <3> QED
      BY <2>3, <3>1, <3>3, <3>4, OneEvent
  <2> QED
    BY <1>2, <1>3, <2>2, <2>3, OneTick
<1>4. CASE /\ idleQueue' = idleQueue /\ idleQueue # <<>> /\ origin' = origin
           /\ ~Tick /\ ~Sample /\ ~Restart /\ ~RestartFails
  <2>1. PICK p \in Nat, a \in Nat :
          /\ p = idleQueue[1].position /\ a = idleQueue[1].age
          /\ Aged([position |-> p, age |-> a]) /\ a < SinceSample
          /\ idleQueue = <<[position |-> p, age |-> a]>>
    <3>1. idleQueue = << idleQueue[1] >>
      BY <1>4, IdleFacts
    <3>2. /\ idleQueue[1].position \in Nat /\ idleQueue[1].age \in Nat
          /\ idleQueue[1] = [position |-> idleQueue[1].position, age |-> idleQueue[1].age]
          /\ Aged(idleQueue[1]) /\ idleQueue[1].age < SinceSample
      BY <1>4, IdleFacts
    <3> QED
      BY <3>1, <3>2
  <2>2. PICK q \in Nat : SinceSample' = q /\ SinceSample =< q
    BY <1>1, <1>4, SinceSampleKept
  <2>3. a < q
    BY <1>1, <2>1, <2>2
  <2>4. Aged([position |-> p, age |-> a])'
    BY <1>1, <1>4, <2>1, AgedStill
  <2>5. idleQueue' = <<[position |-> p, age |-> a]>>
    BY <1>4, <2>1
  <2> QED
    BY <2>2, <2>3, <2>4, <2>5, OneEvent
<1>5. \/ idleQueue' = <<>> \/ Tick
      \/ /\ idleQueue' = idleQueue /\ idleQueue # <<>> /\ origin' = origin
         /\ ~Tick /\ ~Sample /\ ~Restart /\ ~RestartFails
  <2>1. ~Restart /\ ~RestartFails /\ ~ReceiveError
    BY PacedEffect
  <2>2. Sample => idleQueue' = <<>>
    BY <1>1, SampleEffect
  <2>3. ReadByte => idleQueue' = idleQueue /\ origin' = origin
    BY <1>1, ReadByteEffect
  <2>4. HandleIdle => idleQueue' = idleQueue /\ origin' = origin
    BY <1>1, HandleIdleEffect
  <2>5. HandleTimer => idleQueue' = idleQueue /\ origin' = origin
    BY HandleTimerEffect DEF Paced
  <2> QED
    BY <2>1, <2>2, <2>3, <2>4, <2>5, PacedEffect
<1> QED
  BY <1>2, <1>3, <1>4, <1>5

LEMMA CollectedOne ==
  ASSUME Paced, ~InPass
  PROVE  idles = <<>> /\ Collected = idleQueue
<1>1. idles = <<>>
  BY DEF Paced, IdlesInv, InPass
<1>2. /\ idleQueue \in Seq(Events(Arrived)) /\ Inv1 /\ Len(idleQueue) \in Nat
      /\ Len(idleQueue) =< 1 /\ IdleDepth \in Nat /\ IdleDepth > 1
  BY TypeParts, SeqFacts, ConstantFacts DEF Paced, Inv2, Inv1, QueueTypes, QueueInv
<1>3. Len(idles) = 0
  BY <1>1, EmptySeq
<1>4. ~Crowded
  BY <1>2, <1>3 DEF Crowded
<1>5. Collected \in Seq(Events(Arrived)) /\ Len(Collected) = Len(idleQueue)
  BY <1>2, <1>3, <1>4, CollectedFacts
<1>6. CASE idleQueue = <<>>
  BY <1>1, <1>5, <1>6, SeqFacts, EmptySeq
<1>7. CASE idleQueue # <<>>
  <2>1. Len(idleQueue) = 1 /\ idleQueue = << idleQueue[1] >>
    BY <1>7, IdleFacts
  <2>2. 1 \in 1 .. Len(Collected) /\ 1 > Len(idles) /\ 1 - Len(idles) = 1
    BY <1>3, <1>5, <2>1
  <2>3. Collected[1] = idleQueue[1]
    BY <1>2, <2>2, CollectedFacts
  <2>4. Collected = << Collected[1] >>
    BY <1>5, <2>1
  <2> QED
    BY <1>1, <2>1, <2>3, <2>4
<1> QED
  BY <1>6, <1>7

LEMMA IdlesInvStep ==
  ASSUME NoRollover, Paced, [Next]_vars, Sound'
  PROVE  IdlesInv'
<1>1. /\ Inv1 /\ Len(idles) =< 1
      /\ idles # <<>> =>
           /\ phase = "FRAMER" /\ Aged(idles[1]) /\ idles[1].age < Pass + wait
           /\ consumer =< idles[1].position /\ idles[1].position =< producer
           /\ idleQueue # <<>> => idles[1].position < idleQueue[1].position
  BY DEF Paced, Inv2, IdlesInv
<1>2. /\ Arrived \in Nat /\ origin \in Nat /\ producer \in Nat /\ consumer \in Nat /\ wait \in Nat
      /\ Since \in Nat /\ silence \in Nat /\ SinceSample \in Nat /\ consumer =< producer
      /\ Pass \in Nat /\ CharacterTime \in Nat /\ T3_5 \in Nat
  BY <1>1, Numbers, ConstantFacts
<1>4. CASE idles' = <<>>
  BY <1>4, EmptySeq DEF IdlesInv
<1>5. CASE Tick /\ idles # <<>>
  <2>1. PICK p \in Nat, a \in Nat : p = idles[1].position /\ a = idles[1].age
                                    /\ idles[1] = [position |-> p, age |-> a]
    BY <1>5, IdleFacts
  <2>2. /\ phase = "FRAMER" /\ Aged([position |-> p, age |-> a]) /\ a < Pass + wait
        /\ consumer =< p /\ p =< producer
        /\ idleQueue # <<>> => p < idleQueue[1].position
    BY <1>1, <1>5, <2>1
  <2>3. /\ UNCHANGED <<producer, consumer, phase>> /\ wait' = wait + 1
    BY <1>1, <1>5, TickFacts
  <2>4. a < T3_5 - CharacterTime
    BY <1>5, <2>1, PacedTick
  <2>5. idles' = <<[position |-> p, age |-> a + 1]>>
    BY <1>5, <2>1, OneTick
  <2>6. Aged([position |-> p, age |-> a + 1])'
    BY <1>5, <2>2, <2>4, AgedNext
  <2>7. idleQueue' # <<>> => p < idleQueue'[1].position
    <3>1. CASE idleQueue' = <<>>
      BY <3>1
    <3>2. CASE idleQueue' = <<[position |-> Position, age |-> 0]>> /\ Idle
      <4>1. idleQueue'[1].position = Position
        BY <3>2
      <4>2. origin + p # Arrived /\ origin + p =< Arrived
        BY <1>2, <2>2, <3>2 DEF Aged, Byte, Idle
      <4>3. p < Position
        BY <1>2, <4>2 DEF Position
      <4> QED
        BY <4>1, <4>3
    <3>3. CASE /\ idleQueue # <<>>
               /\ idleQueue' = <<[position |-> idleQueue[1].position, age |-> idleQueue[1].age + 1]>>
      <4>1. idleQueue'[1].position = idleQueue[1].position
        BY <3>3
      <4> QED
        BY <2>2, <3>3, <4>1
    <3> QED
      BY <1>5, <3>1, <3>2, <3>3, OneTick
  <2>8. a + 1 < Pass + wait'
    BY <1>2, <2>2, <2>3
  <2> QED
    BY <2>2, <2>3, <2>5, <2>6, <2>7, <2>8, OneIdle
<1>6. CASE Sample /\ idleQueue # <<>>
  <2>1. /\ phase = "TRANSPORT" /\ phase' = "FRAMER" /\ wait' = 0 /\ consumer' = consumer
        /\ idleQueue' = <<>> /\ origin' = origin /\ producer' = Position
        /\ origin + Position = Arrived /\ idles' = Collected
    BY <1>1, <1>6, SampleEffect
  <2>2. PICK p \in Nat, a \in Nat :
          /\ idleQueue = <<[position |-> p, age |-> a]>> /\ producer =< p
          /\ Aged([position |-> p, age |-> a]) /\ a < SinceSample
    <3>1. idleQueue = << idleQueue[1] >>
      BY <1>6, IdleFacts
    <3>2. /\ idleQueue[1].position \in Nat /\ idleQueue[1].age \in Nat
          /\ idleQueue[1] = [position |-> idleQueue[1].position, age |-> idleQueue[1].age]
          /\ producer =< idleQueue[1].position
          /\ Aged(idleQueue[1]) /\ idleQueue[1].age < SinceSample
      BY <1>6, IdleFacts
    <3> QED
      BY <3>1, <3>2
  <2>3. idles' = <<[position |-> p, age |-> a]>>
    BY <2>1, <2>2, CollectedOne DEF InPass
  <2>5. ~Tick
    BY <1>6 DEF Sample, EndTransport, Tick
  <2>6. Aged([position |-> p, age |-> a])'
    BY <1>1, <2>1, <2>2, <2>5, AgedStill
  <2>7. a < Pass + wait'
    <3>1. SinceSample =< Pass
      BY <1>1, Numbers
    <3> QED
      BY <1>2, <2>1, <2>2, <3>1
  <2>8. p =< producer'
    <3>1. origin + p =< Arrived
      BY <2>2 DEF Aged, Byte
    <3> QED
      BY <1>2, <2>1, <3>1 DEF Position
  <2>9. consumer' =< p
    BY <1>2, <2>1, <2>2
  <2> QED
    BY <2>1, <2>3, <2>6, <2>7, <2>8, <2>9, OneIdle
<1>7. CASE /\ idles' = idles /\ idles # <<>> /\ idleQueue' = idleQueue
           /\ UNCHANGED <<origin, producer, phase, wait>> /\ ~Tick
           /\ consumer' = consumer \/ ReadByte
  <2>1. PICK p \in Nat, a \in Nat : p = idles[1].position /\ a = idles[1].age
                                    /\ idles = <<[position |-> p, age |-> a]>>
                                    /\ idles[1] = [position |-> p, age |-> a]
    <3>1. /\ idles = << idles[1] >> /\ idles[1].position \in Nat /\ idles[1].age \in Nat
          /\ idles[1] = [position |-> idles[1].position, age |-> idles[1].age]
      BY <1>7, IdleFacts
    <3> QED
      BY <3>1
  <2>2. /\ phase = "FRAMER" /\ Aged([position |-> p, age |-> a]) /\ a < Pass + wait
        /\ consumer =< p /\ p =< producer
        /\ idleQueue # <<>> => p < idleQueue[1].position
    BY <1>1, <1>7, <2>1
  <2>5. Aged([position |-> p, age |-> a])'
    BY <1>1, <1>7, <2>2, AgedStill
  <2>6. consumer' =< p
    <3>1. CASE ReadByte
      <4>1. consumer' = consumer + 1 /\ ~Reached
        BY <3>1 DEF ReadByte
      <4>2. ~(consumer >= p)
        BY <1>1, <1>7, <2>1, <4>1, ReachedMeans
      <4> QED
        BY <1>2, <4>1, <4>2
    <3>2. CASE consumer' = consumer
      BY <2>2, <3>2
    <3> QED
      BY <1>7, <3>1, <3>2
  <2> QED
    BY <1>7, <2>1, <2>2, <2>5, <2>6, OneIdle
<1>8. CASE HandleIdle
  <2>1. idles # <<>> /\ idles' = Tail(idles)
    BY <1>1, <1>8, HandleIdleEffect
  <2> QED
    BY <1>4, <2>1, IdleFacts
<1>9. CASE NoIdle
  <2>1. consumer = producer /\ ~Reached /\ idles' = idles
    BY <1>9 DEF NoIdle, queueVars
  <2>2. idles = <<>>
    <3> SUFFICES ASSUME idles # <<>> PROVE FALSE
      OBVIOUS
    <3>1. PICK p \in Nat : p = idles[1].position
      BY IdleFacts
    <3>2. p =< producer /\ ~(consumer >= p)
      BY <1>1, <2>1, <3>1, ReachedMeans
    <3> QED
      BY <1>2, <2>1, <3>2
  <2> QED
    BY <1>4, <2>1, <2>2
<1>10. CASE Tick /\ idles = <<>>
  BY <1>4, <1>10, OneTick
<1>11. CASE Sample /\ idleQueue = <<>>
  <2>1. idles' = Collected /\ phase = "TRANSPORT"
    BY <1>1, <1>11, SampleEffect
  <2> QED
    BY <1>4, <1>11, <2>1, CollectedOne DEF InPass
<1>13. CASE HandleTimer \/ Take
  <2>1. phase # "FRAMER" /\ idles' = idles
    BY <1>13 DEF HandleTimer, Take, queueVars
  <2> QED
    BY <1>1, <1>4, <2>1
<1>14. CASE StartByte \/ Disturb \/ ReadByte \/ UNCHANGED vars
  <2>0. ~Tick
    <3>1. wait + 1 # wait
      BY <1>2
    <3> QED
      BY <1>14, <3>1 DEF Tick, StartByte, Disturb, ReadByte, vars
  <2>1. /\ idles' = idles /\ idleQueue' = idleQueue /\ UNCHANGED <<origin, producer, phase, wait>>
        /\ consumer' = consumer \/ ReadByte
    BY <1>14 DEF StartByte, Disturb, ReadByte, InFramer, vars, queueVars, positionVars
  <2> QED
    BY <1>4, <1>7, <2>0, <2>1
<1> QED
  BY <1>5, <1>6, <1>8, <1>9, <1>10, <1>11, <1>13, <1>14, PacedEffect

\* An error that is handled, or a silence at rest, leaves no idle event.
LEMMA NoEvents ==
  /\ idles = <<>> /\ idleQueue = <<>> => QueueInv /\ IdlesInv
  /\ (idles = <<>> /\ idleQueue = <<>> => QueueInv /\ IdlesInv)'
BY EmptySeq DEF QueueInv, IdlesInv

-----------------------------------------------------------------------------
(* The spacing of the bytes and the idle events that are not handled yet.  *)

\* The line was idle after a byte, so that the USART raised an idle interrupt.
Quieted(byte) == IF byte < Arrived THEN gaps[byte + 1] >= CharacterTime
                                   ELSE silence >= CharacterTime

\* The idle event of a byte is still to be handled.
Pending(byte) == \/ idles # <<>> /\ Byte(idles[1]) = byte
                 \/ idleQueue # <<>> /\ Byte(idleQueue[1]) = byte

LEMMA SpacingTypes ==
  ASSUME Inv1, NEW b \in Nat, b =< Arrived
  PROVE  /\ Spacing(b) \in Nat /\ (Quieted(b) => Spacing(b) >= CharacterTime)
         /\ b = Arrived => Spacing(b) = Since
         /\ b < Arrived => /\ Spacing(b) = gaps[b + 1] + CharacterTime /\ gaps[b + 1] \in Nat
                           /\ (Quieted(b) <=> gaps[b + 1] >= CharacterTime)
<1>1. /\ Arrived \in Nat /\ Since \in Nat /\ silence \in Nat /\ silence =< Since
      /\ LineTypes /\ CharacterTime \in Nat
  BY Numbers, ConstantFacts
<1>2. CASE b < Arrived
  <2>1. gaps[b + 1] \in Nat
    BY <1>1, <1>2, GapTypes
  <2> QED
    BY <1>1, <1>2, <2>1 DEF Spacing, Quieted
<1>3. CASE b = Arrived
  BY <1>1, <1>3 DEF Spacing, Quieted
<1> QED
  BY <1>1, <1>2, <1>3

LEMMA SpacingStill ==
  ASSUME Inv1, [Next]_vars, ~Tick, NEW b \in Nat, b =< Arrived
  PROVE  Spacing(b)' = Spacing(b) /\ (Quieted(b)' <=> Quieted(b)) /\ Arrived' = Arrived
<1>1. LineTypes /\ Arrived \in Nat
  BY Numbers
<1>2. /\ Arrived' = Arrived /\ Since' = Since /\ silence' = silence
      /\ \A n \in 1 .. Arrived : gaps'[n] = gaps[n]
  BY <1>1, LineNext
<1>3. b < Arrived => gaps'[b + 1] = gaps[b + 1]
  BY <1>1, <1>2
<1> QED
  BY <1>2, <1>3 DEF Spacing, Quieted

LEMMA SpacingTick ==
  ASSUME Inv1, Tick, NEW b \in Nat, b =< Arrived
  PROVE  /\ \E s \in Nat : /\ Spacing(b)' = s /\ s =< Spacing(b) + 1
                           /\ b < Arrived => s = Spacing(b)
                           /\ b = Arrived => s = Spacing(b) + 1 \/ s >= T3_5
         /\ Quieted(b) => Quieted(b)'
         /\ Quieted(b)' => Quieted(b) \/ (b = Arrived /\ Idle)
         /\ b < Arrived => (b < Arrived)'
<1>1. /\ Arrived \in Nat /\ Since \in Nat /\ silence \in Nat /\ silence =< Since
      /\ LineTypes /\ CharacterTime \in Nat /\ CharacterTime > 0 /\ T3_5 \in Nat /\ Quiet \in Nat
      /\ T3_5 =< Quiet /\ CharacterTime < T3_5
  BY Numbers, ConstantFacts
<1>2. gaps' = gaps /\ (TickOn \/ TickOver \/ TickByte)
  BY TickFacts
<1>3. Spacing(b) \in Nat
  BY SpacingTypes
<1>4. CASE b < Arrived
  <2>1. (b < Arrived)'
    <3>1. Arrived' = Arrived \/ Arrived' = Arrived + 1
      BY <1>2 DEF TickOn, TickOver, TickByte
    <3>2. CASE Arrived' = Arrived
      BY <1>4, <3>2
    <3>3. CASE Arrived' = Arrived + 1
      BY <1>1, <1>4, <3>3
    <3> QED
      BY <3>1, <3>2, <3>3
  <2>2. Spacing(b)' = Spacing(b) /\ (Quieted(b)' <=> Quieted(b))
    BY <1>2, <1>4, <2>1 DEF Spacing, Quieted
  <2> QED
    BY <1>3, <1>4, <2>1, <2>2
<1>5. CASE b = Arrived
  <2>1. Spacing(b) = Since /\ ~(b < Arrived) /\ (Quieted(b) <=> silence >= CharacterTime)
    BY <1>1, <1>5 DEF Spacing, Quieted
  <2>2. CASE TickOn
    <3>1. Arrived' = Arrived /\ Since' = Since + 1
          /\ (silence' = silence \/ silence' = silence + 1)
      BY <2>2 DEF TickOn
    <3>2. ~(b < Arrived)'
      BY <2>1, <3>1
    <3>3. Spacing(b)' = Since + 1 /\ (Quieted(b)' <=> silence' >= CharacterTime)
      BY <3>1, <3>2 DEF Spacing, Quieted
    <3>5. /\ silence >= CharacterTime => silence' >= CharacterTime
          /\ silence' >= CharacterTime => silence >= CharacterTime \/ Idle
      <4>1. CASE silence' = silence
        BY <4>1
      <4>2. CASE silence' = silence + 1
        <5>1. receiving = 0
          <6>1. receiving > 0 => silence' \in {0, silence}
            BY DEF Tick
          <6>2. receiving \in 0 .. CharacterTime
            BY <1>1 DEF LineTypes
          <6>3. silence + 1 \notin {0, silence}
            BY <1>1
          <6> QED
            BY <1>1, <4>2, <6>1, <6>2, <6>3
        <5> QED
          BY <1>1, <4>2, <5>1 DEF Idle
      <4> QED
        BY <3>1, <4>1, <4>2
    <3> QED
      BY <1>1, <1>5, <2>1, <3>3, <3>5
  <2>3. CASE TickOver
    <3>1. Arrived' = Arrived /\ Since' = Since /\ silence' = silence /\ Since = Quiet
      BY <2>3 DEF TickOver
    <3>2. ~(b < Arrived)'
      BY <2>1, <3>1
    <3>3. Spacing(b)' = Since /\ (Quieted(b)' <=> silence >= CharacterTime)
      BY <3>1, <3>2 DEF Spacing, Quieted
    <3> QED
      BY <1>1, <1>5, <2>1, <3>1, <3>3
  <2>4. CASE TickByte
    <3>1. /\ Arrived' = Arrived + 1 /\ Since = silence + CharacterTime - 1
          /\ gaps[Arrived + 1] = Gap
      BY <2>4 DEF TickByte
    <3>2. (b < Arrived)'
      BY <1>1, <1>5, <3>1
    <3>3. /\ Gap \in Nat /\ Gap =< silence /\ (Gap >= T3_5 \/ Gap = silence)
          /\ (Gap >= CharacterTime <=> silence >= CharacterTime)
      BY <1>1, GapFacts
    <3>4. Spacing(b)' = Gap + CharacterTime /\ (Quieted(b)' <=> Gap >= CharacterTime)
      BY <1>2, <1>5, <3>1, <3>2 DEF Spacing, Quieted
    <3> QED
      BY <1>1, <1>5, <2>1, <3>1, <3>3, <3>4
  <2> QED
    BY <1>2, <2>2, <2>3, <2>4
<1> QED
  BY <1>1, <1>4, <1>5

\* A byte that is complete only now is not quieted.
LEMMA FreshByte ==
  ASSUME Inv1, Tick, NEW b \in Nat, Arrived < b, (b =< Arrived)'
  PROVE  ~Quieted(b)' /\ Spacing(b)' = 0
<1>1. Arrived \in Nat /\ CharacterTime \in Nat /\ CharacterTime > 0
  BY Numbers, ConstantFacts
<1>2. TickOn \/ TickOver \/ TickByte
  BY TickFacts
<1>3. CASE Arrived' = Arrived
  BY <1>1, <1>3
<1>4. CASE TickByte
  <2>1. Arrived' = Arrived + 1 /\ Since' = 0 /\ silence' = 0
    BY <1>4 DEF TickByte
  <2>2. ~(b < Arrived)'
    BY <1>1, <2>1
  <2>3. Spacing(b)' = Since' /\ (Quieted(b)' <=> silence' >= CharacterTime)
    BY <2>2 DEF Spacing, Quieted
  <2> QED
    BY <1>1, <2>1, <2>3
<1> QED
  BY <1>2, <1>3, <1>4 DEF TickOn, TickOver

LEMMA PendingTick ==
  ASSUME Paced, Tick, Sound', NEW b \in Nat
  PROVE  /\ Pending(b) => Pending(b)'
         /\ Pending(b)' => Pending(b) \/ (b = Arrived /\ Idle)
         /\ b = Arrived /\ Idle => Pending(b)'
<1>1. origin \in Nat /\ Arrived \in Nat /\ origin' = origin
  BY PacedTick, Numbers
<1>2. /\ idles' # <<>> <=> idles # <<>>
      /\ idles # <<>> => idles'[1].position = idles[1].position
  BY OneTick
<1>3. /\ idleQueue' # <<>> <=> idleQueue # <<>> \/ Idle
      /\ idleQueue # <<>> => ~Idle /\ idleQueue'[1].position = idleQueue[1].position
      /\ Idle => idleQueue'[1].position = Position
  BY OneTick
<1>4. origin + Position = Arrived
  BY <1>1 DEF Position
<1> QED
  BY <1>1, <1>2, <1>3, <1>4 DEF Pending, Byte

LEMMA PendingKept ==
  ASSUME NoRollover, Paced, [Next]_vars, Sound', ~Tick, NEW b \in Nat
  PROVE  /\ Pending(b)' => Pending(b)
         /\ ~HandleIdle => (Pending(b) => Pending(b)')
         /\ HandleIdle => /\ idles # <<>> /\ Byte(idles[1]) =< Read
                          /\ idles' = <<>> /\ (b = Byte(idles[1]) => ~Pending(b)')
                          /\ b # Byte(idles[1]) /\ Pending(b) => Pending(b)'
<1>1. /\ Inv1 /\ origin \in Nat /\ consumer \in Nat
      /\ idles # <<>> => phase = "FRAMER"
      /\ idles # <<>> /\ idleQueue # <<>> => idles[1].position < idleQueue[1].position
  BY Numbers DEF Paced, Inv2, IdlesInv
<1>2. CASE Sample
  <2>1. idleQueue' = <<>> /\ origin' = origin /\ phase = "TRANSPORT" /\ idles' = Collected
    BY <1>1, <1>2, SampleEffect
  <2>2. idles = <<>> /\ idles' = idleQueue
    BY <2>1, CollectedOne DEF InPass
  <2>3. ~HandleIdle
    BY <2>1 DEF HandleIdle, InFramer
  <2> QED
    BY <2>1, <2>2, <2>3 DEF Pending, Byte
<1>3. CASE HandleIdle
  <2>1. /\ idles # <<>> /\ idles' = Tail(idles) /\ idleQueue' = idleQueue /\ origin' = origin
        /\ Reached
    BY <1>1, <1>3, HandleIdleEffect
  <2>2. PICK p \in Nat : p = idles[1].position /\ consumer >= p /\ idles' = <<>>
    BY <1>1, <2>1, IdleFacts, ReachedMeans
  <2>3. Byte(idles[1]) = origin + p /\ origin + p =< Read
    BY <1>1, <2>2 DEF Byte, Read
  <2>4. b = origin + p => ~Pending(b)'
    <3>1. ASSUME idleQueue # <<>> PROVE origin + idleQueue[1].position # origin + p
      <4>1. PICK q \in Nat : q = idleQueue[1].position
        BY <1>1, <3>1, IdleFacts
      <4>2. p < q
        BY <1>1, <2>1, <2>2, <3>1, <4>1
      <4>3. origin + q # origin + p
        BY <1>1, <4>2
      <4> QED
        BY <4>1, <4>3
    <3> QED
      BY <2>1, <2>2, <3>1 DEF Pending, Byte
  <2> QED
    BY <1>3, <2>1, <2>2, <2>3, <2>4 DEF Pending, Byte
<1>4. CASE UNCHANGED <<idles, idleQueue, origin>> /\ ~HandleIdle
  BY <1>4 DEF Pending, Byte
<1>5. CASE ReadByte
  BY <1>1, <1>4, <1>5, ReadByteEffect DEF ReadByte, HandleIdle
<1>6. CASE HandleTimer
  BY <1>4, <1>6, HandleTimerEffect DEF Paced, HandleIdle, InFramer
<1>7. HandleIdle \/ ~HandleIdle
  OBVIOUS
<1> QED
  BY <1>2, <1>3, <1>4, <1>5, <1>6, PacedEffect

-----------------------------------------------------------------------------
(* What the framer makes of a byte and of an idle event in time.           *)

\* A byte is not read across an idle event.
LEMMA ByteTaken ==
  ASSUME NoRollover, Paced, ReadByte
  PROVE  ~Pending(Read)
<1>1. /\ consumer # producer /\ ~Reached /\ origin \in Nat /\ consumer \in Nat /\ producer \in Nat
      /\ consumer =< producer /\ Read = origin + consumer /\ Inv1
  BY Numbers DEF Paced, Inv2, ReadByte
<1>2. ASSUME idles # <<>> PROVE Byte(idles[1]) # Read
  <2>1. PICK p \in Nat : p = idles[1].position
    BY <1>2, IdleFacts
  <2>2. ~(consumer >= p)
    BY <1>1, <1>2, <2>1, ReachedMeans
  <2>3. origin + p # Read
    BY <1>1, <2>2
  <2> QED
    BY <2>1, <2>3 DEF Byte
<1>3. ASSUME idleQueue # <<>> PROVE Byte(idleQueue[1]) # Read
  <2>1. PICK p \in Nat : p = idleQueue[1].position /\ producer =< p
    BY <1>3, IdleFacts
  <2>2. origin + p # Read
    BY <1>1, <2>1
  <2> QED
    BY <2>1, <2>2 DEF Byte
<1> QED
  BY <1>2, <1>3 DEF Pending

\* An idle event is that of the last byte read, and the rest of T3.5 is not over.
LEMMA IdleTaken ==
  ASSUME NoRollover, Paced, HandleIdle, Sound'
  PROVE  /\ UNCHANGED <<origin, producer, written, consumer, idleQueue, wait, frame, lineError,
                        errors, receiveError, taken, spoiled, gaps>>
         /\ phase = "FRAMER" /\ phase' = "TIMER"
         /\ mark' = consumer /\ idles # <<>> /\ idles' = <<>> /\ Byte(idles[1]) = Read
         /\ Pending(Read) /\ Quieted(Read) /\ Spacing(Read) < CharacterTime + Pass + wait
         /\ \/ /\ state = "RECEIVING" /\ state' = "WAIT_T1_5"
               /\ timer' = T1_5 - CharacterTime /\ elapsed' = FALSE
            \/ /\ state = "DISCARD" /\ state' = "DISCARD"
               /\ timer' = T3_5 - CharacterTime /\ elapsed' = FALSE
            \/ state \notin {"RECEIVING", "DISCARD"} /\ UNCHANGED <<state, timer, elapsed>>
<1>1. Inv1 /\ LateInv
  BY DEF Paced, Inv2
<1>2. /\ UNCHANGED <<origin, producer, written, consumer, idleQueue, wait, lineError,
                     errors, receiveError, taken, spoiled, late, gaps>>
      /\ phase = "FRAMER" /\ phase' = "TIMER"
      /\ idles # <<>> /\ idles' = Tail(idles) /\ Reached
  BY <1>1, HandleIdleEffect
<1>3. /\ origin \in Nat /\ consumer \in Nat /\ producer \in Nat /\ Arrived \in Nat /\ Since \in Nat
      /\ Read = origin + consumer /\ wait \in Nat /\ LineTypes
      /\ Pass \in Nat /\ CharacterTime \in Nat
      /\ CharacterTime > 0 /\ silence \in Nat
  BY <1>1, Numbers, ConstantFacts
<1>4. PICK p \in Nat, a \in Nat :
        /\ p = idles[1].position /\ a = idles[1].age /\ Tail(idles) = <<>>
        /\ Aged([position |-> p, age |-> a]) /\ a < Pass + wait /\ p = consumer
  <2>1. /\ idles[1].position \in Nat /\ idles[1].age \in Nat /\ Tail(idles) = <<>>
        /\ idles[1] = [position |-> idles[1].position, age |-> idles[1].age]
    BY <1>2, IdleFacts
  <2>2. Aged(idles[1]) /\ idles[1].age < Pass + wait /\ consumer =< idles[1].position
    BY <1>2 DEF Paced, IdlesInv
  <2>3. consumer >= idles[1].position
    BY <1>1, <1>2, ReachedMeans
  <2>4. PICK p \in Nat : p = idles[1].position
    BY <2>1
  <2>5. p = consumer
    BY <1>3, <2>2, <2>3, <2>4
  <2> QED
    BY <2>1, <2>2, <2>4, <2>5
<1>5. Byte(idles[1]) = Read /\ Pending(Read) /\ origin + p = Read
  BY <1>2, <1>3, <1>4 DEF Byte, Pending
<1>6. /\ Read \in Nat /\ Read =< Arrived
      /\ Read = Arrived => silence >= CharacterTime /\ a = Since - CharacterTime
      /\ Read < Arrived => /\ gaps[Read + 1] >= CharacterTime
                           /\ a >= gaps[Read + 1] + Since
  BY <1>3, <1>4, <1>5 DEF Aged, Byte
<1>7. Quieted(Read) /\ Spacing(Read) < CharacterTime + Pass + wait
  <2>1. /\ Read = Arrived => Spacing(Read) = Since
        /\ Read < Arrived => /\ Spacing(Read) = gaps[Read + 1] + CharacterTime
                             /\ gaps[Read + 1] \in Nat
    BY <1>1, <1>6, SpacingTypes
  <2>2. CASE Read = Arrived
    BY <1>3, <1>4, <1>6, <2>1, <2>2 DEF Quieted
  <2>3. CASE Read < Arrived
    <3>1. PICK g \in Nat : g = gaps[Read + 1]
      BY <2>1, <2>3
    <3>2. g =< a
      BY <1>3, <1>6, <2>3, <3>1
    <3>3. g + CharacterTime < CharacterTime + Pass + wait
      BY <1>3, <1>4, <3>2
    <3> QED
      BY <1>6, <2>1, <2>3, <3>1, <3>3 DEF Quieted
  <2> QED
    BY <1>3, <1>6, <2>2, <2>3
<1>8. ~Late(idles[1])
  <2>1. ~late /\ 1 \in DOMAIN idles
    BY <1>1, <1>2, EventFacts DEF Sound
  <2> QED
    BY <1>1, <2>1 DEF LateInv, InTime
<1>9. /\ mark' = consumer /\ frame' = frame
      /\ \/ /\ state = "RECEIVING" /\ state' = "WAIT_T1_5"
            /\ timer' = T1_5 - CharacterTime /\ elapsed' = FALSE
         \/ /\ state = "DISCARD" /\ state' = "DISCARD"
            /\ timer' = T3_5 - CharacterTime /\ elapsed' = FALSE
         \/ state \notin {"RECEIVING", "DISCARD"} /\ UNCHANGED <<state, timer, elapsed>>
  BY <1>1, <1>4, <1>8, HandleIdleEffect
<1> QED
  BY <1>2, <1>4, <1>5, <1>7, <1>9

\* Read and the bytes after it, from one state to the next.
LEMMA ReadStep ==
  ASSUME NoRollover, Paced, [Next]_vars, Sound', ~ReadByte
  PROVE  UNCHANGED <<origin, consumer>> /\ Read' = Read
<1>1. UNCHANGED <<origin, consumer>>
  BY PacedEffect, PacedTick, TickFacts, HandleIdleEffect, HandleTimerEffect DEF Paced, Inv2
<1> QED
  BY <1>1 DEF Read

-----------------------------------------------------------------------------
(* An idle event is handled once, and the framer remembers it; no event of *)
(* a gap gets lost, but by an error.                                       *)

MarkInv ==
  /\ state \in Waits => mark = consumer /\ Quieted(Read) /\ ~Pending(Read)
  /\ phase = "TIMER" => consumer = producer \/ mark = consumer
  /\ phase = "TIMER" /\ state = "WAIT_T3_5" => consumer = producer

\* The error of this pass took the event of a byte with it, and the framer
\* discards what it was about.
Lost(byte) ==
  /\ state = "DISCARD" /\ spoiled
  /\ InPass /\ byte > Sampled => idles = <<>> /\ ~elapsed /\ timer >= T3_5 - wait

EventInv ==
  \A byte \in Nat :
    Read < byte /\ byte =< Arrived /\ Quieted(byte) => Pending(byte) \/ Lost(byte)

LEMMA MarkInvStep ==
  ASSUME NoRollover, Paced, MarkInv, [Next]_vars, Sound'
  PROVE  MarkInv'
<1>1. /\ Inv1 /\ Read \in Nat /\ Read =< Arrived /\ Arrived \in Nat /\ Sampled =< Arrived
      /\ Read =< Sampled /\ Sampled \in Nat
  BY Numbers DEF Paced, Inv2
<1>4. CASE ReadByte
  <2>1. state' \in {"DISCARD", "RECEIVING"} /\ phase' = "FRAMER"
    BY <1>1, <1>4, ReadByteEffect
  <2> QED
    BY <2>1 DEF MarkInv, Waits
<1>5. CASE HandleIdle
  <2>1. /\ mark' = consumer /\ consumer' = consumer /\ producer' = producer /\ Pending(Read)
        /\ Quieted(Read) /\ Byte(idles[1]) = Read
    BY <1>5, IdleTaken
  <2>2. state \notin Waits
    BY <2>1 DEF MarkInv
  <2>3. state' \in Waits => state' = "WAIT_T1_5"
    BY <1>5, <2>2, IdleTaken DEF Waits
  <2>4. ~Tick /\ ~ReadByte
    BY <1>5 DEF HandleIdle, InFramer, Tick, ReadByte
  <2>5. Read' = Read /\ (Quieted(Read) => Quieted(Read)')
    <3>1. Read' = Read
      BY <2>4, ReadStep
    <3>2. PICK b \in Nat : b = Read
      BY <1>1
    <3>3. Quieted(b)' <=> Quieted(b)
      BY <1>1, <2>4, <3>2, SpacingStill
    <3> QED
      BY <3>1, <3>2, <3>3
  <2>6. ~Pending(Read)'
    <3>1. PICK b \in Nat : b = Read
      BY <1>1
    <3>2. ~Pending(b)'
      BY <1>5, <2>1, <2>4, <3>1, PendingKept
    <3> QED
      BY <2>5, <3>1, <3>2
  <2>7. Quieted(Read)'
    BY <2>1, <2>5
  <2>8. mark' = consumer' /\ (state' \in Waits => state' # "WAIT_T3_5")
    BY <2>1, <2>3
  <2>9. state' = "WAIT_T3_5" => state' \in Waits
    BY DEF Waits
  <2> QED
    BY <2>6, <2>7, <2>8, <2>9 DEF MarkInv
<1>6. CASE ~ReadByte /\ ~HandleIdle
  <2>1. consumer' = consumer /\ Read' = Read
    BY <1>6, ReadStep
  <2>2. PICK b \in Nat : b = Read
    BY <1>1
  <2>3. Quieted(b) => Quieted(b)'
    <3>1. CASE Tick
      BY <1>1, <2>2, <3>1, SpacingTick
    <3>2. CASE ~Tick
      BY <1>1, <2>2, <3>2, SpacingStill
    <3> QED
      BY <3>1, <3>2
  <2>4. Quieted(b) /\ ~Pending(b) => ~Pending(b)'
    <3>1. CASE Tick
      <4>1. Quieted(b) => ~(b = Arrived /\ Idle)
        <5>1. silence \in Nat /\ CharacterTime \in Nat
          BY <1>1, Numbers, ConstantFacts
        <5>2. b = Arrived /\ Quieted(b) => silence >= CharacterTime
          BY <1>1 DEF Quieted
        <5> QED
          BY <5>1, <5>2 DEF Idle
      <4> QED
        BY <3>1, <4>1, PendingTick
    <3>2. CASE ~Tick
      BY <1>6, <3>2, PendingKept
    <3> QED
      BY <3>1, <3>2
  <2>5. state' \in Waits => state \in Waits /\ mark' = mark
    <3>1. CASE HandleTimer
      BY <3>1, HandleTimerEffect DEF Waits, Paced
    <3>2. CASE Tick
      BY <1>1, <3>2, TickFacts
    <3>3. CASE Take
      BY <3>3 DEF Take, Reset, Waits
    <3> QED
      BY <1>6, <3>1, <3>2, <3>3, PacedEffect
  <2>7. phase' = "TIMER" => /\ consumer = producer /\ producer' = producer
                            \/ /\ phase = "TIMER" /\ state' = state /\ mark' = mark
                               /\ producer' = producer
    <3>1. CASE NoIdle
      BY <3>1 DEF NoIdle, InFramer, positionVars
    <3>2. CASE Tick
      BY <1>1, <3>2, TickFacts
    <3>3. CASE HandleTimer
      BY <3>3 DEF HandleTimer
    <3>4. CASE Sample \/ Take
      BY <3>4 DEF Sample, EndTransport, Take
    <3> QED
      BY <1>6, <3>1, <3>2, <3>3, <3>4, PacedEffect
  <2>8. state' \in Waits => mark' = consumer' /\ Quieted(Read)' /\ ~Pending(Read)'
    BY <2>1, <2>2, <2>3, <2>4, <2>5 DEF MarkInv
  <2>9. phase' = "TIMER" =>
          /\ consumer' = producer' \/ mark' = consumer'
          /\ state' = "WAIT_T3_5" => consumer' = producer'
    BY <2>1, <2>7 DEF MarkInv
  <2> QED
    BY <2>8, <2>9 DEF MarkInv
<1> QED
  BY <1>4, <1>5, <1>6

Inv3 == Paced /\ MarkInv /\ EventInv

LEMMA EventInvStep ==
  ASSUME NoRollover, Inv3, [Next]_vars, Sound'
  PROVE  EventInv'
<1>1. /\ Inv1 /\ Inv2 /\ TimedInv /\ MarkInv /\ EventInv /\ Paced
      /\ Read \in Nat /\ Read =< Arrived /\ Arrived \in Nat /\ Sampled =< Arrived
      /\ Read =< Sampled /\ Sampled \in Nat /\ timer \in Nat /\ wait \in Nat
      /\ Read = origin + consumer /\ Sampled = origin + producer
      /\ origin \in Nat /\ consumer \in Nat /\ producer \in Nat
  BY Numbers DEF Inv3, Paced, Inv2
<1>2. T3_5 \in Nat /\ MaxInside \in Nat
  BY ConstantFacts
<1> SUFFICES ASSUME NEW b \in Nat, (Read < b)', (b =< Arrived)', Quieted(b)'
             PROVE  Pending(b)' \/ Lost(b)'
  BY DEF EventInv
<1>3. ~ReceiveError /\ ~Restart /\ ~RestartFails
  BY <1>1, PacedEffect
<1>5. CASE Tick
  <2>1. UNCHANGED <<origin, consumer, producer, receiveError, state, spoiled, phase>>
        /\ wait' = wait + 1 /\ (InPass => wait + 1 < T3_5)
    <3>1. InPass => wait + 1 < T3_5
      BY <1>1, <1>5, PacedTick
    <3>2. origin' = origin /\ ~(Idle /\ Full) /\ ~stopped
      BY <1>1, <1>5, PacedTick DEF Paced
    <3> QED
      BY <1>1, <1>5, <3>1, <3>2, TickFacts
  <2>2. Read' = Read /\ Sampled' = Sampled /\ (InPass' <=> InPass)
    BY <2>1 DEF Read, Sampled, InPass
  <2>3. CASE Arrived < b
    BY <1>1, <1>5, <2>3, FreshByte
  <2>4. CASE b =< Arrived /\ ~Quieted(b)
    <3>1. b = Arrived /\ Idle
      BY <1>1, <1>5, <2>4, SpacingTick
    <3> QED
      BY <1>1, <1>5, <3>1, PendingTick
  <2>5. CASE b =< Arrived /\ Quieted(b)
    <3>1. Read < b
      BY <2>2
    <3>2. CASE Pending(b)
      BY <1>1, <1>5, <3>2, PendingTick
    <3>3. CASE Lost(b)
      <4>1. ASSUME InPass, b > Sampled
            PROVE  idles' = <<>> /\ ~elapsed' /\ timer' >= T3_5 - wait'
        <5>1. idles = <<>> /\ ~elapsed /\ timer >= T3_5 - wait
          BY <3>3, <4>1 DEF Lost
        <5>2. idles' = <<>>
          BY <1>1, <1>5, <5>1, OneTick
        <5>3. timer > 1
          BY <1>1, <1>2, <2>1, <4>1, <5>1
        <5>4. timer' = timer - 1 /\ elapsed' = (elapsed \/ timer = 1)
          BY <1>5, <5>3, <1>1 DEF Tick
        <5>5. timer - 1 >= T3_5 - (wait + 1)
          BY <1>1, <1>2, <5>1
        <5>6. ~elapsed'
          <6>1. timer # 1
            BY <1>1, <5>3
          <6> QED
            BY <5>1, <5>4, <6>1
        <5> QED
          BY <2>1, <5>2, <5>4, <5>5, <5>6
      <4>2. state' = "DISCARD" /\ spoiled'
        BY <2>1, <3>3 DEF Lost
      <4> QED
        BY <2>2, <4>1, <4>2 DEF Lost
    <3> QED
      BY <1>1, <2>5, <3>1, <3>2, <3>3 DEF EventInv
  <2> QED
    BY <1>1, <2>3, <2>4, <2>5
<1>6. CASE ~Tick
  <2>1. Arrived' = Arrived
    BY <1>1, <1>6, LineNext, Numbers
  <2>2. b =< Arrived
    BY <2>1
  <2>3. Quieted(b)
    BY <1>1, <1>6, <2>2, SpacingStill
  <2>4. ReadByte \/ Read' = Read
    BY <1>1, <1>6, ReadStep
  <2>5. Read < b
    <3>1. CASE ReadByte
      <4>1. Read' = Read + 1
        BY <1>1, <3>1, ReadByteEffect
      <4>2. Read + 1 < b
        BY <4>1
      <4> QED
        BY <1>1, <4>2
    <3> QED
      BY <2>4, <3>1
  <2>7. CASE Pending(b)
    <3>1. HandleIdle => b # Byte(idles[1])
      <4>1. HandleIdle => Byte(idles[1]) = Read
        BY <1>1, IdleTaken
      <4> QED
        BY <1>1, <2>5, <4>1
    <3> QED
      BY <1>1, <1>6, <2>7, <3>1, PendingKept
  <2>8. CASE Lost(b)
    <3>0. state = "DISCARD" /\ spoiled
      BY <2>8 DEF Lost
    <3>1. CASE ReadByte
      <4>1. /\ UNCHANGED <<origin, producer, idles, phase, wait>> /\ spoiled'
            /\ state' = "DISCARD" /\ timer' = T3_5 /\ elapsed' = FALSE
        BY <1>1, <3>0, <3>1, ReadByteEffect
      <4>2. Sampled' = Sampled /\ (InPass' <=> InPass)
        BY <4>1 DEF Sampled, InPass
      <4>3. timer' >= T3_5 - wait'
        BY <1>1, <1>2, <4>1
      <4> QED
        BY <2>8, <4>1, <4>2, <4>3 DEF Lost
    <3>2. CASE HandleIdle
      <4>1. /\ UNCHANGED <<origin, producer, spoiled>> /\ idles # <<>> /\ phase = "FRAMER"
            /\ state' = "DISCARD"
        BY <1>1, <3>0, <3>2, IdleTaken
      <4>2. ~(b > Sampled)
        BY <2>8, <4>1 DEF Lost, InPass
      <4>3. ~(b > Sampled)'
        BY <4>1, <4>2 DEF Sampled
      <4> QED
        BY <3>0, <4>1, <4>3 DEF Lost
    <3>3. CASE HandleTimer
      <4>1. /\ UNCHANGED <<spoiled>> /\ phase = "TIMER" /\ phase' = "TRANSPORT"
            /\ state' = "DISCARD" \/ (state' = "WAITING" /\ elapsed /\ mark = producer)
        BY <1>1, <3>0, <3>3, HandleTimerEffect
      <4>2. ASSUME elapsed, mark = producer PROVE FALSE
        <5>1. consumer = producer
          BY <1>1, <4>1, <4>2 DEF MarkInv
        <5>2. b > Sampled
          BY <1>1, <2>5, <5>1
        <5> QED
          BY <2>8, <4>1, <4>2, <5>2 DEF Lost, InPass
      <4> QED
        BY <3>0, <4>1, <4>2 DEF Lost, InPass
    <3>4. CASE Sample
      <4>1. UNCHANGED <<origin, state>> /\ spoiled' /\ Sampled' = Arrived
        BY <1>1, <3>0, <3>4, SampleEffect
      <4>3. ~(b > Sampled)'
        BY <1>1, <2>2, <4>1
      <4> QED
        BY <3>0, <4>1, <4>3 DEF Lost
    <3>5. CASE /\ UNCHANGED <<origin, producer, idles, state, timer, elapsed, wait>>
               /\ NoIdle \/ phase' = phase
               /\ spoiled /\ ~spoiled' => AtRest
      <4>1. spoiled'
        BY <3>0, <3>5 DEF AtRest
      <4>2. Sampled' = Sampled /\ (InPass' <=> InPass)
        BY <3>5 DEF Sampled, InPass, NoIdle, InFramer
      <4> QED
        BY <2>8, <3>5, <4>1, <4>2 DEF Lost
    <3> QED
      BY <1>1, <1>6, <3>0, <3>1, <3>2, <3>3, <3>4, <3>5, PacedEffect
  <2> QED
    BY <1>1, <2>2, <2>3, <2>5, <2>7, <2>8 DEF EventInv
<1> QED
  BY <1>5, <1>6


-----------------------------------------------------------------------------
(* How long the line was silent at least: what the timer has run of its    *)
(* delay, while nothing was read, but for the ticks of the pass that looks *)
(* at it.                                                                  *)

Ran == (IF state = "WAIT_T1_5" THEN T1_5 ELSE T3_5) - timer

LowerInv ==
  /\ state \in Waits \cup {"DISCARD"} =>
       /\ Read = Arrived => Spacing(Read) >= Ran
       /\ InPass /\ Read = Sampled /\ Read < Arrived => Spacing(Read) + wait - 1 >= Ran
  /\ state \in {"WAITING", "FRAME_READY"} => Spacing(Read) + Unseen >= T3_5

\* LowerInv of the next state, put together from its numbers.
LEMMA LowerFrom ==
  ASSUME NEW b \in Nat, NEW s \in Nat, NEW r \in Int, NEW w \in Nat,
         Read' = b, Spacing(b)' = s, Ran' = r, wait' = w,
         state' \in Waits \cup {"DISCARD"} =>
           /\ b = Arrived' => s >= r
           /\ InPass' /\ b = Sampled' /\ b < Arrived' => s + w - 1 >= r,
         state' \in {"WAITING", "FRAME_READY"} => s + Unseen >= T3_5
  PROVE  LowerInv'
<1>1. Spacing(Read)' = s
  OBVIOUS
<1>2. Unseen' = Unseen
  BY DEF Unseen
<1> QED
  BY <1>1, <1>2 DEF LowerInv

\* A byte that arrived since the sample takes time.
LEMMA Sampling ==
  ASSUME Inv2, InPass, Sampled < Arrived
  PROVE  wait >= 1
<1>1. Since < SinceSample /\ Since \in Nat /\ SinceSample = wait /\ wait \in Nat
  BY Numbers DEF Inv2, SampleInv
<1> QED
  BY <1>1

LEMMA LowerInvStep ==
  ASSUME NoRollover, Inv3, LowerInv, [Next]_vars, Sound'
  PROVE  LowerInv'
<1>1. /\ Inv1 /\ Inv2 /\ TimedInv /\ MarkInv /\ Paced
      /\ Read \in Nat /\ Read =< Arrived /\ Arrived \in Nat /\ Sampled =< Arrived
      /\ Read =< Sampled /\ Sampled \in Nat /\ timer \in Nat /\ timer =< T3_5 /\ wait \in Nat
      /\ Read = origin + consumer /\ Sampled = origin + producer
      /\ origin \in Nat /\ consumer \in Nat /\ producer \in Nat
      /\ InPass => wait =< MaxInside
  BY Numbers DEF Inv3, Paced, Inv2
<1>2. /\ T3_5 \in Nat /\ T1_5 \in Nat /\ CharacterTime \in Nat /\ MaxInside \in Nat
      /\ CharacterTime < T1_5 /\ T1_5 < T3_5 /\ Unseen \in Nat /\ CharacterTime > 0
      /\ MaxInside > 0 => Unseen = MaxInside - 1
  BY ConstantFacts DEF Unseen
<1>3. Spacing(Read) \in Nat /\ (Quieted(Read) => Spacing(Read) >= CharacterTime)
  BY <1>1, SpacingTypes
<1>4. Ran \in Int /\ Ran =< T3_5
  BY <1>1, <1>2 DEF Ran
<1>5. ~ReceiveError /\ ~Restart /\ ~RestartFails
  BY <1>1, PacedEffect
<1>6. CASE Tick
  <2>1. /\ UNCHANGED <<origin, consumer, producer, receiveError, state, phase>> /\ wait' = wait + 1
    BY <1>1, <1>6, PacedTick, TickFacts
  <2>2. Read' = Read /\ Sampled' = Sampled /\ (InPass' <=> InPass)
    BY <2>1 DEF Read, Sampled, InPass
  <2>3. PICK r \in Int : Ran' = r /\ r =< Ran + 1 /\ r =< T3_5
    <3>1. timer' = (IF timer > 0 THEN timer - 1 ELSE 0)
      BY <1>6 DEF Tick
    <3>2. CASE timer > 0
      <4>1. Ran' = Ran + 1
        BY <1>1, <1>2, <2>1, <3>1, <3>2 DEF Ran
      <4>2. Ran + 1 =< T3_5
        BY <1>1, <1>2, <3>2 DEF Ran
      <4> QED
        BY <1>4, <4>1, <4>2
    <3>3. CASE timer = 0
      <4>1. Ran' = Ran
        BY <1>1, <1>2, <2>1, <3>1, <3>3 DEF Ran
      <4> QED
        BY <1>4, <4>1
    <3> QED
      BY <1>1, <3>2, <3>3
  <2>4. PICK b \in Nat : b = Read
    BY <1>1
  <2>5. PICK s \in Nat : /\ Spacing(b)' = s /\ s =< Spacing(b) + 1
                         /\ b < Arrived => s = Spacing(b)
                         /\ b = Arrived => s = Spacing(b) + 1 \/ s >= T3_5
    BY <1>1, <1>6, <2>4, SpacingTick
  <2>6. Arrived' = Arrived \/ Arrived' = Arrived + 1
    BY <1>1, ArrivedStep
  <2>7. ASSUME state' \in Waits \cup {"DISCARD"}
        PROVE  /\ b = Arrived' => s >= r
               /\ InPass' /\ b = Sampled' /\ b < Arrived' => s + (wait + 1) - 1 >= r
    <3>1. /\ b = Arrived => Spacing(b) >= Ran
          /\ InPass /\ b = Sampled /\ b < Arrived => Spacing(b) + wait - 1 >= Ran
      BY <2>1, <2>4, <2>7 DEF LowerInv
    <3>2. b = Arrived' => b = Arrived
      BY <1>1, <2>4, <2>6
    <3>3. b = Arrived => s >= r
      BY <1>2, <1>3, <1>4, <2>3, <2>4, <2>5, <3>1
    <3>4. InPass /\ b = Sampled => s + (wait + 1) - 1 >= r
      <4>1. CASE b = Arrived
        BY <1>1, <3>3, <4>1
      <4>2. CASE b < Arrived
        BY <1>1, <1>3, <1>4, <2>3, <2>4, <2>5, <3>1, <4>2
      <4> QED
        BY <1>1, <2>4, <4>1, <4>2
    <3> QED
      BY <2>2, <3>2, <3>3, <3>4
  <2>8. ASSUME state' \in {"WAITING", "FRAME_READY"}
        PROVE  s + Unseen >= T3_5
    <3>1. Spacing(b) + Unseen >= T3_5
      BY <2>1, <2>4, <2>8 DEF LowerInv
    <3> QED
      BY <1>1, <1>2, <1>3, <2>4, <2>5, <3>1
  <2>9. wait + 1 \in Nat /\ wait' = wait + 1 /\ Read' = b
    BY <1>1, <2>1, <2>2, <2>4
  <2> QED
    BY <2>3, <2>5, <2>7, <2>8, <2>9, LowerFrom
<1>7. CASE ~Tick
  <2>1. Arrived' = Arrived
    BY <1>1, <1>7, LineNext, Numbers
  <2>2. wait \in Nat /\ (wait' = wait \/ wait' = 0)
    BY <1>1, <1>7, PacedEffect, ReadByteEffect, HandleIdleEffect, HandleTimerEffect
  <2>3. ASSUME state' = "DISCARD", timer' = T3_5, NEW b \in Nat, b =< Arrived, Read' = b,
               Sampled' = Sampled, wait' = wait, InPass
        PROVE  LowerInv'
    <3>1. Ran' = 0
      BY <1>2, <2>3 DEF Ran
    <3>2. Spacing(b)' = Spacing(b) /\ Spacing(b) \in Nat
      BY <1>1, <1>7, <2>3, SpacingStill, SpacingTypes
    <3>3. b = Sampled /\ b < Arrived => Spacing(b) + wait - 1 >= 0
      <4> SUFFICES ASSUME b = Sampled, b < Arrived PROVE Spacing(b) + wait - 1 >= 0
        OBVIOUS
      <4>1. wait >= 1
        BY <1>1, <2>3, Sampling
      <4> QED
        BY <1>1, <3>2, <4>1
    <3>4. Spacing(b) >= 0
      BY <3>2
    <3>5. state' \notin {"WAITING", "FRAME_READY"}
      BY <2>3
    <3>6. wait' = wait /\ wait \in Nat /\ Read' = b
      BY <1>1, <2>3
    <3>7. /\ b = Arrived' => Spacing(b) >= 0
          /\ InPass' /\ b = Sampled' /\ b < Arrived' => Spacing(b) + wait - 1 >= 0
      BY <2>1, <2>3, <3>3, <3>4
    <3> QED
      BY <3>1, <3>2, <3>5, <3>6, <3>7, LowerFrom
  <2>5. CASE ReadByte
    <3>1. /\ Read' = Read + 1 /\ Read + 1 =< Sampled /\ phase = "FRAMER"
          /\ UNCHANGED <<origin, producer, wait>>
          /\ (state' = "DISCARD" /\ timer' = T3_5) \/ state' = "RECEIVING"
      BY <1>1, <2>5, ReadByteEffect
    <3>2. Sampled' = Sampled /\ Read + 1 \in Nat /\ Read + 1 =< Arrived
      BY <1>1, <3>1 DEF Sampled
    <3>3. CASE state' = "RECEIVING"
      BY <3>3 DEF LowerInv, Waits
    <3> QED
      BY <2>3, <3>1, <3>2, <3>3 DEF InPass
  <2>6. CASE ~ReadByte
    <3>1. Read' = Read
      BY <1>1, <1>7, <2>6, ReadStep
    <3>2. PICK b \in Nat : b = Read
      BY <1>1
    <3>3. Spacing(b)' = Spacing(b) /\ Spacing(b) \in Nat /\ b =< Arrived /\ Read' = b
      BY <1>1, <1>3, <1>7, <3>1, <3>2, SpacingStill
    <3>4. PICK w \in Nat : wait' = w
      BY <2>2
    <3>5. CASE HandleIdle
      <4>1. /\ UNCHANGED <<origin, producer, wait>> /\ phase = "FRAMER" /\ Quieted(Read) /\ Pending(Read)
            /\ \/ /\ state = "RECEIVING" /\ state' = "WAIT_T1_5" /\ timer' = T1_5 - CharacterTime
               \/ /\ state = "DISCARD" /\ state' = "DISCARD" /\ timer' = T3_5 - CharacterTime
               \/ state \notin {"RECEIVING", "DISCARD"} /\ UNCHANGED <<state, timer>>
        BY <1>1, <3>5, IdleTaken
      <4>2. CASE Ran' = CharacterTime /\ state' \in {"WAIT_T1_5", "DISCARD"}
        <5>1. Spacing(b) >= CharacterTime
          BY <1>3, <3>2, <4>1
        <5>2. b = Sampled /\ b < Arrived => Spacing(b) + wait - 1 >= CharacterTime
          <6> SUFFICES ASSUME b = Sampled, b < Arrived PROVE Spacing(b) + wait - 1 >= CharacterTime
            OBVIOUS
          <6>1. wait >= 1
            BY <1>1, <4>1, Sampling DEF InPass
          <6> QED
            BY <1>1, <1>2, <3>3, <5>1, <6>1
        <5>3. Sampled' = Sampled /\ CharacterTime \in Int
          BY <1>2, <4>1 DEF Sampled
        <5>4. /\ b = Arrived' => Spacing(b) >= CharacterTime
              /\ InPass' /\ b = Sampled' /\ b < Arrived' => Spacing(b) + wait - 1 >= CharacterTime
          BY <2>1, <5>1, <5>2, <5>3
        <5>5. state' \notin {"WAITING", "FRAME_READY"} /\ wait' = wait
          BY <4>1, <4>2
        <5> QED
          BY <1>1, <3>3, <4>2, <5>3, <5>4, <5>5, LowerFrom
      <4>3. CASE state \notin {"RECEIVING", "DISCARD"} /\ UNCHANGED <<state, timer>>
        <5>1. state \notin Waits
          BY <1>1, <4>1 DEF MarkInv
        <5>2. Ran' = Ran
          BY <4>3 DEF Ran
        <5>3. state' \in {"WAITING", "FRAME_READY"} => Spacing(b) + Unseen >= T3_5
          BY <3>2, <4>1, <4>3 DEF LowerInv
        <5>4. state' \notin Waits \cup {"DISCARD"}
          BY <4>3, <5>1
        <5> QED
          BY <1>4, <3>3, <3>4, <5>2, <5>3, <5>4, LowerFrom
      <4>4. (state' = "WAIT_T1_5" /\ timer' = T1_5 - CharacterTime => Ran' = CharacterTime)
            /\ (state' = "DISCARD" /\ timer' = T3_5 - CharacterTime => Ran' = CharacterTime)
        BY <1>2 DEF Ran
      <4> QED
        BY <4>1, <4>2, <4>3, <4>4
    <3>6. CASE HandleTimer
      <4>1. ~InPass' /\ phase = "TIMER" /\ InPass
        BY <1>1, <3>6, HandleTimerEffect DEF InPass
      <4>2. CASE UNCHANGED <<state, timer>>
        <5>1. Ran' = Ran
          BY <4>2 DEF Ran
        <5>2. /\ state' \in Waits \cup {"DISCARD"} => (b = Arrived' => Spacing(b) >= Ran)
              /\ state' \in {"WAITING", "FRAME_READY"} => Spacing(b) + Unseen >= T3_5
          BY <2>1, <3>2, <4>1, <4>2 DEF LowerInv
        <5> QED
          BY <1>4, <3>3, <3>4, <4>1, <5>1, <5>2, LowerFrom
      <4>3. CASE state' = "DISCARD" /\ timer' = T3_5
        <5>1. Ran' = 0 /\ Spacing(b) >= 0
          BY <1>2, <3>3, <4>3 DEF Ran
        <5>2. state' \notin {"WAITING", "FRAME_READY"}
          BY <4>3
        <5> QED
          BY <3>3, <3>4, <4>1, <5>1, <5>2, LowerFrom
      <4>4. CASE state' = "RECEIVING"
        BY <4>4 DEF LowerInv, Waits
      <4>5. CASE elapsed /\ state = "WAIT_T1_5" /\ state' = "WAIT_T3_5" /\ timer' = T3_5 - T1_5
        <5>1. timer = 0
          BY <1>1, <4>5 DEF TimedInv, Waits
        <5>2. Ran' = T1_5 /\ Ran = T1_5
          BY <1>2, <4>5, <5>1 DEF Ran
        <5>3. b = Arrived' => Spacing(b) >= T1_5
          BY <2>1, <3>2, <4>1, <4>5, <5>2 DEF LowerInv, Waits
        <5>4. state' \notin {"WAITING", "FRAME_READY"} /\ T1_5 \in Int
          BY <1>2, <4>5
        <5> QED
          BY <3>3, <3>4, <4>1, <5>2, <5>3, <5>4, LowerFrom
      <4>6. CASE /\ elapsed /\ mark = producer /\ state \in {"WAIT_T3_5", "DISCARD"}
                 /\ state' \in {"FRAME_READY", "WAITING"}
        <5>1. timer = 0
          BY <1>1, <4>6 DEF TimedInv, Waits
        <5>2. Ran = T3_5
          BY <1>2, <4>6, <5>1 DEF Ran
        <5>3. Read = Sampled
          <6>1. consumer = producer
            BY <1>1, <4>1, <4>6 DEF MarkInv
          <6> QED
            BY <1>1, <6>1
        <5>4. /\ b = Arrived => Spacing(b) >= T3_5
              /\ b < Arrived => Spacing(b) + wait - 1 >= T3_5
          BY <3>2, <4>1, <4>6, <5>2, <5>3 DEF LowerInv, Waits
        <5>5. Spacing(b) + Unseen >= T3_5
          <6>1. CASE b = Arrived
            BY <1>2, <3>3, <5>4, <6>1
          <6>2. CASE b < Arrived
            <7>1. wait >= 1 /\ wait =< MaxInside
              BY <1>1, <3>2, <4>1, <5>3, <6>2, Sampling
            <7>2. Unseen >= wait - 1
              BY <1>1, <1>2, <7>1
            <7> QED
              BY <1>1, <1>2, <3>3, <5>4, <6>2, <7>2
          <6> QED
            BY <1>1, <3>3, <6>1, <6>2
        <5>6. state' \notin Waits \cup {"DISCARD"}
          BY <4>6 DEF Waits
        <5>7. PICK r \in Int : Ran' = r
          <6>1. timer' \in Nat
            <7>1. timer' \in 0 .. T3_5
              BY <1>1, FramerStep DEF TimerTypes
            <7> QED
              BY <1>2, <7>1
          <6>2. PICK t \in Nat : timer' = t
            BY <6>1
          <6>3. Ran' = T3_5 - t
            BY <4>6, <6>2 DEF Ran
          <6> QED
            BY <1>2, <6>3
        <5> QED
          BY <3>3, <3>4, <5>5, <5>6, <5>7, LowerFrom
      <4> QED
        BY <1>1, <3>6, <4>2, <4>3, <4>4, <4>5, <4>6, HandleTimerEffect
    <3>7. CASE Take
      <4>1. state = "FRAME_READY" /\ state' = "WAITING" /\ timer' = 0
        BY <3>7 DEF Take, Reset, StopTimer
      <4>2. Ran' = T3_5 /\ T3_5 \in Int
        BY <1>2, <4>1 DEF Ran
      <4>3. Spacing(b) + Unseen >= T3_5
        BY <3>2, <4>1 DEF LowerInv
      <4>4. state' \notin Waits \cup {"DISCARD"}
        BY <4>1 DEF Waits
      <4> QED
        BY <3>3, <3>4, <4>2, <4>3, <4>4, LowerFrom
    <3>8. CASE UNCHANGED <<state, timer>> /\ ~HandleTimer /\ ~HandleIdle /\ ~Take
      <4>1. Ran' = Ran
        BY <3>8 DEF Ran
      <4>2. ASSUME state' \in Waits \cup {"DISCARD"}, InPass', b = Sampled', b < Arrived'
            PROVE  Spacing(b) + w - 1 >= Ran
        <5>1. CASE Sample
          <6>1. Sampled' = Arrived
            BY <1>1, <5>1, SampleEffect
          <6> QED
            BY <1>1, <2>1, <3>3, <4>2, <6>1
        <5>2. CASE UNCHANGED <<origin, producer, wait>> /\ (InPass' <=> InPass)
          <6>1. Sampled' = Sampled /\ w = wait
            BY <3>4, <5>2 DEF Sampled
          <6> QED
            BY <2>1, <3>2, <3>8, <4>2, <5>2, <6>1 DEF LowerInv
        <5>3. NoIdle \/ phase' = phase => (InPass' <=> InPass)
          BY DEF NoIdle, InFramer, InPass
        <5> QED
          BY <1>1, <1>7, <2>6, <3>8, <5>1, <5>2, <5>3, PacedEffect
      <4>3. /\ state' \in Waits \cup {"DISCARD"} => (b = Arrived' => Spacing(b) >= Ran)
            /\ state' \in {"WAITING", "FRAME_READY"} => Spacing(b) + Unseen >= T3_5
        BY <2>1, <3>2, <3>8 DEF LowerInv
      <4> QED
        BY <1>4, <3>3, <3>4, <4>1, <4>2, <4>3, LowerFrom
    <3> QED
      BY <1>1, <1>7, <2>6, <3>5, <3>6, <3>7, <3>8, PacedEffect
  <2> QED
    BY <2>5, <2>6
<1> QED
  BY <1>6, <1>7

-----------------------------------------------------------------------------
(* How long the line was silent at most before T1.5 is noticed, and what a *)
(* frame is made of.                                                       *)

Short(byte) == Spacing(byte) =< T1_5 + TwoPasses

UpperInv ==
  state = "WAIT_T1_5" =>
    /\ ~elapsed => Spacing(Read) < T1_5 + Pass + MaxInside - timer
    /\ elapsed /\ ~InPass => Spacing(Read) < T1_5 + Pass + MaxInside + wait - 1
    /\ elapsed /\ InPass => /\ consumer < producer => Short(Read)
                            /\ Spacing(Read) =< T1_5 + TwoPasses + wait

\* A silence that is still to be told of, or that was no longer than it may be.
ReceivingInv ==
  state = "RECEIVING" /\ Quieted(Read) =>
    Pending(Read) \/ (Read < Sampled /\ Short(Read))

\* The bytes of a frame follow each other, and the first one follows a silence.
Joined(f) ==
  /\ Consecutive(f)
  /\ gaps[Head(f)] + CharacterTime + Unseen >= T3_5
  /\ \A n \in 2 .. Len(f) : gaps[f[n]] < CharacterTime \/ Short(f[n] - 1)

FrameInv ==
  frame # <<>> =>
    /\ Joined(frame)
    /\ state = "FRAME_READY" => Spacing(Last(frame)) + Unseen >= T3_5

LEMMA UpperFrom ==
  ASSUME NEW b \in Nat, NEW s \in Nat, NEW w \in Nat, NEW t \in Nat,
         Read' = b, Spacing(b)' = s, wait' = w, timer' = t,
         state' = "WAIT_T1_5" =>
           /\ ~elapsed' => s < T1_5 + Pass + MaxInside - t
           /\ elapsed' /\ ~InPass' => s < T1_5 + Pass + MaxInside + w - 1
           /\ elapsed' /\ InPass' => /\ consumer' < producer' => s =< T1_5 + TwoPasses
                                     /\ s =< T1_5 + TwoPasses + w
  PROVE  UpperInv'
<1>1. Spacing(Read)' = s
  OBVIOUS
<1>2. Pass' = Pass /\ TwoPasses' = TwoPasses
  BY DEF Pass, TwoPasses
<1> QED
  BY <1>1, <1>2 DEF UpperInv, Short

LEMMA UpperInvStep ==
  ASSUME NoRollover, Inv3, UpperInv, [Next]_vars, Sound'
  PROVE  UpperInv'
<1>1. /\ Inv1 /\ Inv2 /\ TimedInv /\ MarkInv /\ Paced
      /\ Read \in Nat /\ Read =< Arrived /\ Arrived \in Nat
      /\ timer \in Nat /\ wait \in Nat /\ elapsed \in BOOLEAN
      /\ Read = origin + consumer /\ Sampled = origin + producer /\ Sampled =< Arrived
      /\ origin \in Nat /\ consumer \in Nat /\ producer \in Nat
      /\ InPass => wait =< MaxInside
      /\ ~InPass => wait =< MaxPass
  BY Numbers, TypeParts DEF Inv3, Paced, Inv2, Inv1, TimerTypes
<1>2. /\ T1_5 \in Nat /\ CharacterTime \in Nat /\ MaxInside \in Nat /\ MaxPass \in Nat
      /\ CharacterTime < T1_5 /\ 0 < MaxPass /\ Pass \in Nat /\ Pass = MaxPass + MaxInside
      /\ TwoPasses \in Int /\ TwoPasses = Pass + Pass - 2 /\ CharacterTime > 0
  BY ConstantFacts DEF TwoPasses
<1>3. Spacing(Read) \in Nat
  BY <1>1, SpacingTypes
<1>4. PICK b \in Nat : b = Read
  BY <1>1
<1>5. CASE ReadByte \/ Take
  <2>1. state' # "WAIT_T1_5"
    BY <1>1, <1>5, ReadByteEffect DEF Take, Reset
  <2> QED
    BY <2>1 DEF UpperInv
<1>6. CASE Tick
  <2>1. /\ UNCHANGED <<origin, consumer, producer, receiveError, state, phase>> /\ wait' = wait + 1
    BY <1>1, <1>6, PacedTick, TickFacts
  <2>2. /\ timer' = (IF timer > 0 THEN timer - 1 ELSE 0) /\ elapsed' = (elapsed \/ timer = 1)
    BY <1>6 DEF Tick
  <2>3. Read' = b /\ (InPass' <=> InPass)
    BY <1>4, <2>1 DEF Read, InPass
  <2>4. PICK s \in Nat : /\ Spacing(b)' = s /\ s =< Spacing(b) + 1
                         /\ b < Arrived => s = Spacing(b)
    BY <1>1, <1>4, <1>6, SpacingTick
  <2>5. PICK t \in Nat : /\ timer' = t
                         /\ timer > 0 => t = timer - 1
                         /\ timer = 0 => t = 0
    <3>1. CASE timer > 0
      BY <1>1, <2>2, <3>1
    <3>2. CASE timer = 0
      BY <1>1, <2>2, <3>2
    <3> QED
      BY <1>1, <3>1, <3>2
  <2>6. ASSUME state' = "WAIT_T1_5"
        PROVE  /\ ~elapsed' => s < T1_5 + Pass + MaxInside - t
               /\ elapsed' /\ ~InPass' => s < T1_5 + Pass + MaxInside + (wait + 1) - 1
               /\ elapsed' /\ InPass' => /\ consumer' < producer' => s =< T1_5 + TwoPasses
                                         /\ s =< T1_5 + TwoPasses + (wait + 1)
    <3>1. /\ ~elapsed => Spacing(b) < T1_5 + Pass + MaxInside - timer
          /\ elapsed /\ ~InPass => Spacing(b) < T1_5 + Pass + MaxInside + wait - 1
          /\ elapsed /\ InPass => /\ consumer < producer => Spacing(b) =< T1_5 + TwoPasses
                                  /\ Spacing(b) =< T1_5 + TwoPasses + wait
      BY <1>4, <2>1, <2>6 DEF UpperInv, Short
    <3>2. elapsed <=> timer = 0
      BY <1>1, <2>1, <2>6 DEF TimedInv, Waits
    <3>3. Spacing(b) \in Nat
      BY <1>3, <1>4
    <3>4. CASE timer > 1
      <4>1. ~elapsed /\ ~elapsed'
        <5>1. timer # 0 /\ timer # 1
          BY <1>1, <3>4
        <5> QED
          BY <2>2, <3>2, <5>1
      <4>2. s < T1_5 + Pass + MaxInside - t
        BY <1>1, <1>2, <2>4, <2>5, <3>1, <3>3, <3>4, <4>1
      <4> QED
        BY <4>1, <4>2
    <3>5. CASE timer = 1
      <4>1. ~elapsed /\ elapsed'
        <5>1. timer # 0
          BY <3>5
        <5>2. elapsed' = (elapsed \/ timer = 1)
          BY <2>2
        <5> QED
          BY <3>2, <3>5, <5>1, <5>2, Zenon
      <4>2. s < T1_5 + Pass + MaxInside
        BY <1>1, <1>2, <2>4, <3>1, <3>3, <3>5, <4>1
      <4>3. /\ s < T1_5 + Pass + MaxInside + (wait + 1) - 1
            /\ s =< T1_5 + TwoPasses /\ s =< T1_5 + TwoPasses + (wait + 1)
        BY <1>1, <1>2, <2>4, <4>2
      <4> QED
        BY <4>1, <4>3
    <3>6. CASE timer = 0
      <4>1. elapsed /\ elapsed'
        BY <2>2, <3>2, <3>6
      <4>2. ~InPass => s < T1_5 + Pass + MaxInside + (wait + 1) - 1
        BY <1>1, <1>2, <2>4, <3>1, <3>3, <4>1
      <4>3. InPass => s =< T1_5 + TwoPasses + (wait + 1)
        BY <1>1, <1>2, <2>4, <3>1, <3>3, <4>1
      <4>4. InPass /\ consumer < producer => s =< T1_5 + TwoPasses
        <5>1. consumer < producer => b < Arrived
          BY <1>1, <1>4
        <5> QED
          BY <2>4, <3>1, <4>1, <5>1
      <4> QED
        BY <2>1, <2>3, <4>1, <4>2, <4>3, <4>4
    <3> QED
      BY <1>1, <3>4, <3>5, <3>6
  <2>7. wait + 1 \in Nat
    BY <1>1
  <2> QED
    BY <2>1, <2>3, <2>4, <2>5, <2>6, <2>7, UpperFrom
<1>7. CASE ~Tick /\ ~ReadByte /\ ~Take
  <2>1. Read' = b
    BY <1>1, <1>4, <1>7, ReadStep
  <2>2. Spacing(b)' = Spacing(b) /\ Spacing(b) \in Nat
    BY <1>1, <1>3, <1>4, <1>7, SpacingStill
  <2>3. CASE HandleIdle
    <3>1. /\ UNCHANGED <<wait>> /\ phase = "FRAMER" /\ Pending(Read)
          /\ Spacing(Read) < CharacterTime + Pass + wait
          /\ \/ /\ state = "RECEIVING" /\ state' = "WAIT_T1_5"
                /\ timer' = T1_5 - CharacterTime /\ elapsed' = FALSE
             \/ state' = "DISCARD"
             \/ state' = state
      BY <1>1, <2>3, IdleTaken
    <3>2. CASE state' = "WAIT_T1_5" /\ timer' = T1_5 - CharacterTime /\ elapsed' = FALSE
      <4>1. Spacing(b) < T1_5 + Pass + MaxInside - (T1_5 - CharacterTime)
        BY <1>1, <1>2, <1>4, <2>2, <3>1 DEF InPass
      <4>2. T1_5 - CharacterTime \in Nat
        BY <1>2
      <4> QED
        BY <1>1, <2>1, <2>2, <3>1, <3>2, <4>1, <4>2, UpperFrom
    <3>3. CASE state' # "WAIT_T1_5"
      BY <3>3 DEF UpperInv
    <3>4. state # "WAIT_T1_5"
      BY <1>1, <3>1 DEF MarkInv, Waits
    <3> QED
      BY <3>1, <3>2, <3>3, <3>4
  <2>4. CASE HandleTimer
    <3>1. /\ elapsed' = FALSE /\ wait' = 0
          /\ \/ /\ ~elapsed \/ state \in {"WAITING", "RECEIVING", "FRAME_READY"}
                /\ UNCHANGED <<state, timer>>
             \/ state' # "WAIT_T1_5"
      BY <1>1, <2>4, HandleTimerEffect
    <3>2. CASE state' # "WAIT_T1_5"
      BY <3>2 DEF UpperInv
    <3>3. CASE ~elapsed /\ UNCHANGED <<state, timer>> /\ state = "WAIT_T1_5"
      <4>1. Spacing(b) < T1_5 + Pass + MaxInside - timer
        BY <1>4, <3>1, <3>3 DEF UpperInv
      <4>2. timer' = timer /\ 0 \in Nat
        BY <3>3
      <4> QED
        BY <1>1, <2>1, <2>2, <3>1, <4>1, <4>2, UpperFrom
    <3> QED
      BY <3>1, <3>2, <3>3
  <2>5. CASE UNCHANGED <<state, timer, elapsed, consumer>> /\ ~HandleIdle /\ ~HandleTimer
    <3>1. CASE Sample
      <4>1. phase = "TRANSPORT" /\ phase' = "FRAMER" /\ wait' = 0
        BY <3>1 DEF Sample, EndTransport
      <4>2. ASSUME state' = "WAIT_T1_5"
            PROVE  /\ ~elapsed' => Spacing(b) < T1_5 + Pass + MaxInside - timer
                   /\ elapsed' => Spacing(b) =< T1_5 + TwoPasses
        <5>1. ~InPass
          BY <4>1 DEF InPass
        <5>2. /\ ~elapsed => Spacing(b) < T1_5 + Pass + MaxInside - timer
              /\ elapsed => Spacing(b) < T1_5 + Pass + MaxInside + wait - 1
          BY <1>4, <2>5, <4>2, <5>1 DEF UpperInv
        <5>3. elapsed => Spacing(b) =< T1_5 + TwoPasses
          BY <1>1, <1>2, <2>2, <5>1, <5>2
        <5> QED
          BY <2>5, <5>2, <5>3
      <4>3. InPass'
        BY <4>1 DEF InPass
      <4>4. T1_5 + TwoPasses + 0 = T1_5 + TwoPasses /\ 0 \in Nat
        BY <1>2
      <4>5. timer' = timer
        BY <2>5
      <4> QED
        BY <1>1, <2>1, <2>2, <4>1, <4>2, <4>3, <4>4, <4>5, UpperFrom
    <3>2. CASE UNCHANGED <<producer, wait>> /\ (InPass' <=> InPass)
      <4>1. state' = "WAIT_T1_5" =>
              /\ ~elapsed' => Spacing(b) < T1_5 + Pass + MaxInside - timer
              /\ elapsed' /\ ~InPass' => Spacing(b) < T1_5 + Pass + MaxInside + wait - 1
              /\ elapsed' /\ InPass' => /\ consumer' < producer' => Spacing(b) =< T1_5 + TwoPasses
                                        /\ Spacing(b) =< T1_5 + TwoPasses + wait
        BY <1>4, <2>5, <3>2 DEF UpperInv, Short
      <4>2. timer' = timer /\ wait' = wait
        BY <2>5, <3>2
      <4> QED
        BY <1>1, <2>1, <2>2, <4>1, <4>2, UpperFrom
    <3>3. NoIdle \/ phase' = phase => (InPass' <=> InPass)
      BY DEF NoIdle, InFramer, InPass
    <3> QED
      BY <1>1, <1>7, <2>5, <3>1, <3>2, <3>3, PacedEffect
  <2> QED
    BY <1>1, <1>7, <2>3, <2>4, <2>5, PacedEffect
<1> QED
  BY <1>5, <1>6, <1>7

LEMMA ReceivingInvStep ==
  ASSUME NoRollover, Inv3, UpperInv, ReceivingInv, [Next]_vars, Sound'
  PROVE  ReceivingInv'
<1>1. /\ Inv1 /\ Inv2 /\ TimedInv /\ MarkInv /\ EventInv /\ Paced
      /\ Read \in Nat /\ Read =< Arrived /\ Arrived \in Nat
      /\ Read = origin + consumer /\ Sampled = origin + producer /\ Sampled =< Arrived
      /\ origin \in Nat /\ consumer \in Nat /\ producer \in Nat /\ consumer =< producer
      /\ Sampled \in Nat /\ Read =< Sampled
  BY Numbers DEF Inv3, Paced, Inv2
<1>2. \A byte : Short(byte)' <=> Spacing(byte)' =< T1_5 + TwoPasses
  BY DEF Short, TwoPasses
<1> SUFFICES ASSUME state' = "RECEIVING", Quieted(Read)'
             PROVE  Pending(Read)' \/ (Read < Sampled /\ Short(Read))'
  BY DEF ReceivingInv
<1>3. ~Take
  BY DEF Take, Reset
<1>4. CASE ReadByte
  <2>1. /\ Read' = Read + 1 /\ Read + 1 =< Sampled
        /\ state \in {"WAITING", "RECEIVING", "WAIT_T1_5"}
    BY <1>4, <1>1, ReadByteEffect
  <2>2. PICK b \in Nat : b = Read + 1
    BY <1>1
  <2>3. Read < b /\ b =< Arrived /\ Read' = b
    BY <1>1, <2>1, <2>2
  <2>4. ~Tick /\ ~HandleIdle
    <3>1. wait' = wait /\ wait \in Nat /\ phase' = "FRAMER"
      BY <1>1, <1>4, ReadByteEffect, Numbers
    <3>2. wait + 1 # wait
      BY <3>1
    <3> QED
      BY <3>1, <3>2 DEF Tick, HandleIdle
  <2>5. Quieted(b)'
    BY <2>3
  <2>6. Quieted(b)
    BY <1>1, <2>3, <2>4, <2>5, SpacingStill
  <2>7. Pending(b)
    BY <1>1, <2>1, <2>3, <2>6 DEF EventInv, Lost
  <2>8. Pending(b)'
    BY <1>1, <2>4, <2>7, PendingKept
  <2> QED
    BY <2>3, <2>8
<1>5. CASE HandleIdle
  BY <1>1, <1>5, IdleTaken
<1>6. CASE ~ReadByte /\ ~HandleIdle
  <2>1. PICK b \in Nat : b = Read
    BY <1>1
  <2>2. Read' = b /\ UNCHANGED <<origin, consumer>>
    BY <1>1, <1>6, <2>1, ReadStep
  <2>4. /\ state = "RECEIVING" \/ (state = "WAIT_T1_5" /\ HandleTimer /\ elapsed /\ mark # producer)
        /\ HandleTimer => UNCHANGED producer
    BY <1>1, <1>3, <1>6, PacedEffect, HandleTimerEffect, TickFacts
  <2>5. Sampled' >= Sampled /\ Sampled' \in Nat
    <3>1. CASE Sample
      <4>1. Sampled' = Arrived
        BY <1>1, <3>1, SampleEffect
      <4> QED
        BY <1>1, <4>1
    <3>2. CASE producer' = producer
      <4>1. Sampled' = Sampled
        BY <2>2, <3>2 DEF Sampled
      <4> QED
        BY <1>1, <4>1
    <3> QED
      BY <1>1, <1>3, <1>6, <3>1, <3>2, PacedEffect, HandleTimerEffect, TickFacts
  <2>6. PICK q \in Nat : Sampled' = q /\ Sampled =< q
    BY <2>5
  <2>7. ASSUME b < Sampled, Short(b)
        PROVE  (Read < Sampled /\ Short(Read))'
    <3>1. b < q /\ b < Arrived
      BY <1>1, <2>1, <2>6, <2>7
    <3>2. Spacing(b)' = Spacing(b)
      <4>1. CASE Tick
        BY <1>1, <2>1, <3>1, <4>1, SpacingTick
      <4>2. CASE ~Tick
        BY <1>1, <2>1, <3>1, <4>2, SpacingStill
      <4> QED
        BY <4>1, <4>2
    <3>3. Short(b)'
      BY <1>2, <2>7, <3>2 DEF Short
    <3> QED
      BY <2>2, <2>6, <3>1, <3>3
  <2>8. CASE state = "WAIT_T1_5" /\ HandleTimer /\ elapsed /\ mark # producer
    <3>1. mark = consumer
      BY <1>1, <2>8 DEF MarkInv, Waits
    <3>2. consumer < producer
      BY <1>1, <2>8, <3>1
    <3>3. InPass
      BY <2>8 DEF HandleTimer, InPass
    <3>4. Short(b)
      BY <2>1, <2>8, <3>2, <3>3 DEF UpperInv
    <3>5. b < Sampled
      BY <1>1, <2>1, <3>2
    <3> QED
      BY <2>7, <3>4, <3>5
  <2>9. CASE state = "RECEIVING"
    <3>0. Quieted(b)'
      BY <2>2
    <3>1. CASE Quieted(b)
      <4>1. Pending(b) \/ (b < Sampled /\ Short(b))
        BY <2>1, <2>9, <3>1 DEF ReceivingInv
      <4>2. Pending(b) => Pending(b)'
        <5>1. CASE Tick
          BY <1>1, <5>1, PendingTick
        <5>2. CASE ~Tick
          BY <1>1, <1>6, <5>2, PendingKept
        <5> QED
          BY <5>1, <5>2
      <4> QED
        BY <2>2, <2>7, <4>1, <4>2
    <3>2. CASE ~Quieted(b)
      <4>1. Tick /\ b = Arrived /\ Idle
        BY <1>1, <2>1, <3>0, <3>2, SpacingStill, SpacingTick
      <4>2. Pending(b)'
        BY <1>1, <4>1, PendingTick
      <4> QED
        BY <2>2, <4>2
    <3> QED
      BY <3>1, <3>2
  <2> QED
    BY <2>4, <2>8, <2>9
<1> QED
  BY <1>4, <1>5, <1>6


\* Bytes that have arrived stay where they are.
LEMMA BytesStay ==
  ASSUME Inv1, [Next]_vars, NEW k \in 1 .. Arrived
  PROVE  gaps'[k] = gaps[k] /\ Spacing(k - 1)' = Spacing(k - 1)
<1>1. /\ Arrived \in Nat /\ LineTypes /\ k - 1 \in Nat /\ k - 1 < Arrived /\ k - 1 =< Arrived
  BY Numbers
<1>2. CASE Tick
  <2>1. gaps' = gaps
    BY <1>2, TickFacts
  <2> QED
    BY <1>1, <1>2, <2>1, SpacingTick
<1>3. CASE ~Tick
  <2>1. gaps'[k] = gaps[k]
    BY <1>1, <1>3, LineNext
  <2> QED
    BY <1>1, <1>3, <2>1, SpacingStill
<1> QED
  BY <1>2, <1>3

LEMMA JoinedStays ==
  ASSUME Inv1, [Next]_vars, NEW f \in Seq(1 .. Arrived), f # <<>>, Joined(f)
  PROVE  Joined(f)'
<1>1. Arrived \in Nat /\ Len(f) \in Nat /\ Len(f) > 0 /\ \A n \in 1 .. Len(f) : f[n] \in 1 .. Arrived
  BY Numbers, SeqFacts
<1>2. \A n \in 1 .. Len(f) : gaps'[f[n]] = gaps[f[n]] /\ Spacing(f[n] - 1)' = Spacing(f[n] - 1)
  BY <1>1, BytesStay
<1>3. Head(f) = f[1] /\ 1 \in 1 .. Len(f) /\ \A n \in 2 .. Len(f) : n \in 1 .. Len(f)
  BY <1>1
<1>4. gaps'[Head(f)] = gaps[Head(f)]
  BY <1>2, <1>3
<1>5. \A n \in 2 .. Len(f) : Short(f[n] - 1)' <=> Short(f[n] - 1)
  BY <1>2, <1>3 DEF Short, TwoPasses
<1>6. \A n \in 2 .. Len(f) : gaps'[f[n]] < CharacterTime \/ Short(f[n] - 1)'
  BY <1>2, <1>3, <1>5 DEF Joined
<1>7. Consecutive(f)' /\ Unseen' = Unseen
  BY DEF Joined, Consecutive, Unseen
<1> QED
  BY <1>4, <1>6, <1>7 DEF Joined

LEMMA JoinedFirst ==
  ASSUME Inv1, NEW k \in 1 .. Arrived, gaps[k] + CharacterTime + Unseen >= T3_5
  PROVE  Joined(Append(<<>>, k)) /\ Last(Append(<<>>, k)) = k
<1>1. Append(<<>>, k) = <<k>>
  OBVIOUS
<1>2. Len(<<k>>) = 1 /\ Head(<<k>>) = k /\ <<k>>[1] = k
  OBVIOUS
<1> QED
  BY <1>1, <1>2 DEF Joined, Consecutive, Last

LEMMA JoinedAppend ==
  ASSUME Inv1, NEW f \in Seq(1 .. Arrived), f # <<>>, Joined(f), NEW k \in 1 .. Arrived,
         k = Last(f) + 1, gaps[k] < CharacterTime \/ Short(k - 1)
  PROVE  Joined(Append(f, k)) /\ Last(Append(f, k)) = k
<1>1. Len(f) \in Nat /\ Len(f) > 0
  BY SeqFacts
<1> DEFINE m == Len(f)
           g == Append(f, k)
<1>2. /\ g \in Seq(1 .. Arrived) /\ Len(g) = m + 1
      /\ \A n \in 1 .. m : g[n] = f[n]
      /\ g[m + 1] = k
  BY AppendProperties
<1>3. Head(g) = Head(f)
  <2>1. g # <<>>
    BY <1>1, <1>2
  <2> QED
    BY <1>1, <1>2, <2>1
<1>4. Last(f) = f[m] /\ Last(g) = k
  BY <1>2 DEF Last
<1>5. Consecutive(g)
  <2> SUFFICES ASSUME NEW n \in 1 .. m PROVE g[n + 1] = g[n] + 1
    BY <1>1, <1>2 DEF Consecutive
  <2>1. CASE n = m
    BY <1>1, <1>2, <1>4, <2>1
  <2>2. CASE n # m
    <3>1. n \in 1 .. m - 1 /\ n + 1 \in 1 .. m
      BY <1>1, <2>2
    <3>2. f[n + 1] = f[n] + 1
      BY <3>1 DEF Joined, Consecutive
    <3> QED
      BY <1>2, <3>1, <3>2
  <2> QED
    BY <2>1, <2>2
<1>6. ASSUME NEW n \in 2 .. m + 1
      PROVE  gaps[g[n]] < CharacterTime \/ Short(g[n] - 1)
  <2>1. CASE n = m + 1
    BY <1>2, <2>1
  <2>2. CASE n # m + 1
    <3>1. n \in 2 .. m /\ n \in 1 .. m
      BY <1>1, <2>2
    <3>2. gaps[f[n]] < CharacterTime \/ Short(f[n] - 1)
      BY <3>1 DEF Joined
    <3> QED
      BY <1>2, <3>1, <3>2
  <2> QED
    BY <2>1, <2>2
<1>7. gaps[Head(g)] + CharacterTime + Unseen >= T3_5
  BY <1>3 DEF Joined
<1> HIDE DEF g, m
<1>8. Joined(g)
  BY <1>2, <1>5, <1>6, <1>7 DEF Joined
<1> QED
  BY <1>4, <1>8 DEF g

-----------------------------------------------------------------------------
(* The receiver is brought to where all this holds by the handling of an   *)
(* error, or by a silence at rest.                                         *)

Timed ==
  /\ QueueInv /\ IdlesInv /\ MarkInv /\ EventInv /\ LowerInv /\ UpperInv /\ ReceivingInv
  /\ frame # <<>> => Last(frame) = Read

Inv4 == Inv2 /\ (Sound => Timed) /\ (~late => FrameInv)

LEMMA TimedError ==
  ASSUME NoRollover, Inv2, [Next]_vars, ReceiveError
  PROVE  Timed'
<1>1. /\ Inv1 /\ Arrived \in Nat /\ Sampled \in Nat /\ Sampled =< Arrived /\ wait \in Nat
  BY Numbers DEF Inv2
<1>2. /\ state' = "DISCARD" /\ timer' = T3_5 /\ elapsed' = FALSE /\ frame' = <<>>
      /\ consumer' = producer /\ idles' = <<>> /\ idleQueue' = <<>> /\ spoiled'
      /\ phase = "FRAMER" /\ UNCHANGED <<origin, producer, phase, wait>>
  BY FramerEffect DEF ReceiveError, InFramer, Tick, Sample, Restart, RestartFails, EndTransport,
     ReadByte, HandleIdle, HandleTimer, Take, StartByte, Disturb, NoIdle, vars
<1>3. Read' = Sampled /\ Sampled' = Sampled /\ InPass /\ InPass' /\ T3_5 \in Nat
  BY <1>2, ConstantFacts DEF Read, Sampled, InPass
<1>4. QueueInv' /\ IdlesInv'
  BY <1>2, NoEvents
<1>5. MarkInv'
  BY <1>2 DEF MarkInv, Waits
<1>6. EventInv'
  <2>1. timer' >= T3_5 - wait'
    BY <1>1, <1>2, <1>3
  <2>2. \A byte : Lost(byte)'
    BY <1>2, <2>1 DEF Lost
  <2> QED
    BY <2>2 DEF EventInv
<1>7. ~Tick
  <2>1. wait + 1 # wait
    BY <1>1
  <2> QED
    BY <1>2, <2>1 DEF Tick
<1>8. LowerInv'
  <2>1. PICK b \in Nat : b = Sampled
    BY <1>1
  <2>2. Spacing(b)' = Spacing(b) /\ Arrived' = Arrived /\ Spacing(b) \in Nat
    BY <1>1, <1>7, <2>1, SpacingStill, SpacingTypes
  <2>3. Ran' = 0
    BY <1>2, <1>3 DEF Ran
  <2>4. b < Arrived => Spacing(b) + wait - 1 >= 0
    <3> SUFFICES ASSUME b < Arrived PROVE Spacing(b) + wait - 1 >= 0
      OBVIOUS
    <3>1. wait >= 1
      BY <1>3, <2>1, Sampling
    <3> QED
      BY <1>1, <2>2, <3>1
  <2>5. /\ b = Arrived' => Spacing(b) >= 0
        /\ InPass' /\ b = Sampled' /\ b < Arrived' => Spacing(b) + wait - 1 >= 0
    BY <2>2, <2>4
  <2>6. wait' = wait /\ Read' = b /\ state' \notin {"WAITING", "FRAME_READY"}
    BY <1>2, <1>3, <2>1
  <2> QED
    BY <1>1, <2>2, <2>3, <2>5, <2>6, LowerFrom
<1>9. UpperInv' /\ ReceivingInv'
  BY <1>2 DEF UpperInv, ReceivingInv
<1> QED
  BY <1>2, <1>4, <1>5, <1>6, <1>8, <1>9 DEF Timed

LEMMA TimedAtRest ==
  ASSUME Inv2, AtRest, silence = Quiet, receiving = 0
  PROVE  Timed /\ ~stopped /\ ~receiveError
<1>1. /\ Inv1 /\ Read \in Nat /\ Read =< Sampled /\ Sampled =< Arrived /\ Arrived \in Nat
      /\ Sampled \in Nat /\ Read = origin + consumer /\ Sampled = origin + producer
      /\ origin \in Nat /\ consumer \in Nat /\ producer \in Nat
  BY Numbers DEF Inv2
<1>2. /\ state = "WAITING" /\ consumer = Position /\ ~stopped /\ ~receiveError
      /\ idles = <<>> /\ idleQueue = <<>> /\ frame = <<>>
  BY DEF AtRest, Inv2, TimedInv
<1>3. Read = Arrived /\ consumer = producer
  <2>1. Read = Arrived
    BY <1>1, <1>2 DEF Position
  <2> QED
    BY <1>1, <2>1
<1>4. QueueInv /\ IdlesInv
  BY <1>2, NoEvents
<1>5. MarkInv /\ UpperInv /\ ReceivingInv
  BY <1>2, <1>3 DEF MarkInv, Waits, UpperInv, ReceivingInv
<1>6. EventInv
  <2>1. \A byte \in Nat : ~(Read < byte /\ byte =< Arrived)
    BY <1>1, <1>3
  <2> QED
    BY <2>1 DEF EventInv
<1>7. LowerInv
  <2>1. Spacing(Read) = Quiet
    <3>1. Spacing(Read) = Since
      BY <1>1, <1>3, SpacingTypes
    <3>2. ~(receiving > 0)
      OBVIOUS
    <3> QED
      BY <3>1, <3>2 DEF Since
  <2>2. Quiet \in Nat /\ T3_5 \in Nat /\ T3_5 =< Quiet /\ Unseen \in Nat
    BY ConstantFacts DEF Unseen
  <2>3. Spacing(Read) + Unseen >= T3_5
    BY <2>1, <2>2
  <2> QED
    BY <1>2, <2>3 DEF LowerInv, Waits
<1> QED
  BY <1>2, <1>4, <1>5, <1>6, <1>7 DEF Timed

LEMMA FrameSteps ==
  ASSUME Inv2, [Next]_vars
  PROVE  ReadByte \/ frame' \in {frame, <<>>}
BY FramerEffect, TickFacts, HandleIdleEffect, HandleTimerEffect DEF Inv2, Sample, Restart,
   RestartFails, EndTransport, framerVars

LEMMA TimedStep ==
  ASSUME NoRollover, Inv4, [Next]_vars, Sound'
  PROVE  Timed'
<1>1. Inv2 /\ (Sound => Timed)
  BY DEF Inv4
<1>2. CASE ReceiveError
  BY <1>1, <1>2, TimedError
<1>3. CASE Timed /\ ~stopped /\ ~receiveError /\ ~ReceiveError
  <2>1. Paced /\ Inv3 /\ LowerInv /\ UpperInv /\ ReceivingInv
    BY <1>1, <1>3 DEF Timed, Paced, Inv3
  <2>2. QueueInv' /\ IdlesInv'
    BY <2>1, QueueInvStep, IdlesInvStep
  <2>3. MarkInv' /\ EventInv'
    BY <2>1, MarkInvStep, EventInvStep DEF Inv3
  <2>4. LowerInv' /\ UpperInv' /\ ReceivingInv'
    BY <2>1, LowerInvStep, UpperInvStep, ReceivingInvStep
  <2>5. ASSUME frame' # <<>> PROVE Last(frame)' = Read'
    <3>1. CASE ReadByte
      <4>1. state = "DISCARD" => frame = <<>>
        BY <1>1 DEF Inv2, TimedInv
      <4>2. frame' = Append(frame, Read + 1) /\ Read' = Read + 1
        BY <1>1, <2>5, <3>1, <4>1, ReadByteEffect DEF Inv2
      <4>3. frame \in Seq(1 .. Arrived) /\ Read + 1 \in 1 .. Arrived /\ Len(frame) \in Nat
        <5>1. Inv1 /\ Read + 1 =< Sampled /\ Sampled =< Arrived /\ Read \in Nat
              /\ Sampled \in Nat /\ Arrived \in Nat
          BY <1>1, <3>1, ReadByteEffect, Numbers DEF Inv2
        <5>2. frame \in Seq(1 .. Arrived)
          BY <5>1, TypeParts DEF Inv1, FramerTypes
        <5> QED
          BY <5>1, <5>2, SeqFacts
      <4>4. PICK f, k : f = frame /\ k = Read + 1
        OBVIOUS
      <4>5. Len(Append(f, k)) = Len(f) + 1 /\ Append(f, k)[Len(f) + 1] = k
        BY <4>3, <4>4, AppendProperties
      <4>6. frame' = Append(f, k) /\ Read' = k
        BY <4>2, <4>4
      <4>7. frame'[Len(frame')] = k
        BY <4>5, <4>6
      <4> QED
        BY <4>6, <4>7 DEF Last
    <3>2. CASE ~ReadByte
      <4>1. Read' = Read /\ frame' = frame
        BY <1>1, <2>1, <2>5, <3>2, ReadStep, FrameSteps
      <4>2. Last(frame)' = Last(frame) /\ Last(frame) = Read
        BY <1>3, <2>5, <4>1 DEF Timed, Last
      <4> QED
        BY <4>1, <4>2
    <3> QED
      BY <3>1, <3>2
  <2> QED
    BY <2>2, <2>3, <2>4, <2>5 DEF Timed
<1>4. ASSUME ~ReceiveError PROVE Timed /\ ~stopped /\ ~receiveError
  <2>1. ~stopped /\ ~receiveError /\ (late => StartByte /\ silence = Quiet /\ AtRest)
    <3>0. Inv1 /\ ~late' /\ ~stopped' /\ ~receiveError' /\ late \in BOOLEAN
      BY <1>1, TypeParts DEF Sound, Inv2, Inv1, HistoryTypes
    <3>1. CASE Tick
      <4>1. stopped' = stopped /\ receiveError' = receiveError
        BY <3>0, <3>1, TickFacts
      <4>2. late' = (late \/ Overtaken')
        BY <3>1 DEF Tick
      <4> QED
        BY <3>0, <4>1, <4>2
    <3>2. CASE Sample
      <4>1. stopped' = stopped /\ receiveError' = (receiveError \/ Crowded) /\ late' = late
        BY <3>0, <3>2, SampleEffect
      <4>2. receiveError \in BOOLEAN
        BY <3>0, TypeParts DEF Inv1, ErrorTypes
      <4> QED
        BY <3>0, <4>1, <4>2
    <3>3. CASE ReadByte
      BY <3>0, <3>3, ReadByteEffect
    <3>4. CASE HandleIdle
      BY <3>0, <3>4, HandleIdleEffect
    <3>5. CASE HandleTimer
      BY <1>1, <3>0, <3>5, HandleTimerEffect
    <3>6. ~Restart /\ ~RestartFails
      BY <3>0, RestartEffect, SampleEffect
    <3>7. CASE /\ stopped' = stopped /\ receiveError' = receiveError
               /\ late' = late \/ (late /\ ~late' => StartByte /\ silence = Quiet /\ AtRest)
      BY <3>0, <3>7
    <3> QED
      BY <1>1, <1>4, <3>1, <3>2, <3>3, <3>4, <3>5, <3>6, <3>7, FramerEffect
  <2>2. CASE late
    <3>1. receiving = 0
      BY <2>1, <2>2 DEF StartByte
    <3> QED
      BY <1>1, <2>1, <2>2, <3>1, TimedAtRest
  <2>3. CASE ~late
    BY <1>1, <2>1, <2>3 DEF Sound
  <2> QED
    BY <2>1, <2>2, <2>3
<1> QED
  BY <1>2, <1>3, <1>4

LEMMA FrameInvStep ==
  ASSUME NoRollover, Inv4, [Next]_vars, ~late', Sound' => Timed'
  PROVE  FrameInv'
<1>1. /\ Inv1 /\ Inv2 /\ ErrorInv /\ TimedInv /\ LateInv
      /\ Read \in Nat /\ Read =< Arrived /\ Arrived \in Nat
      /\ Read = origin + consumer /\ Sampled = origin + producer /\ Sampled =< Arrived
      /\ origin \in Nat /\ consumer \in Nat /\ producer \in Nat /\ consumer =< producer
      /\ Sampled \in Nat /\ Read =< Sampled /\ timer \in Nat /\ wait \in Nat
  BY Numbers DEF Inv4, Inv2
<1>2. frame \in Seq(1 .. Arrived) /\ Len(frame) \in Nat
  BY <1>1, TypeParts, SeqFacts DEF Inv1, FramerTypes
<1>3. CASE frame' = <<>>
  BY <1>3 DEF FrameInv
<1>4. CASE frame' = frame /\ frame # <<>> /\ ~ReadByte
  <2>1. ~late /\ FrameInv
    <3>1. ~AtRest
      BY <1>1, <1>4 DEF AtRest, TimedInv
    <3>2. late' = (late \/ Overtaken') \/ late' = late
      <4>1. Tick => late' = (late \/ Overtaken')
        BY DEF Tick
      <4>2. StartByte => late' = late
        BY <3>1 DEF StartByte
      <4>3. ~Tick /\ ~StartByte => late' = late
        BY DEF Next, Disturb, Sample, Restart, RestartFails, EndTransport, ReceiveError, ReadByte,
           HandleIdle, NoIdle, HandleTimer, Take, InFramer, historyVars, vars
      <4> QED
        BY <4>1, <4>2, <4>3
    <3>3. late \in BOOLEAN
      BY <1>1, TypeParts DEF Inv1, HistoryTypes
    <3>4. ~late
      BY <3>2, <3>3
    <3> QED
      BY <3>4 DEF Inv4
  <2>2. PICK f : f = frame
    OBVIOUS
  <2>3. Joined(f)'
    BY <1>1, <1>2, <1>4, <2>1, <2>2, JoinedStays DEF FrameInv
  <2>4. Unseen' = Unseen
    BY DEF Unseen
  <2>5. PICK b : b = Last(f)
    OBVIOUS
  <2>6. b \in Nat /\ b =< Arrived
    <3>1. Len(frame) \in 1 .. Len(frame)
      BY <1>2, <1>4, SeqFacts
    <3>2. frame[Len(frame)] \in 1 .. Arrived
      BY <1>2, <3>1, SeqFacts
    <3> QED
      BY <1>1, <2>2, <2>5, <3>2 DEF Last
  <2>7. ASSUME state' = "FRAME_READY"
        PROVE  Spacing(b)' + Unseen >= T3_5
    <3>1. CASE state = "FRAME_READY"
      <4>1. Spacing(b) + Unseen >= T3_5 /\ Spacing(b) \in Nat
        BY <1>1, <1>4, <2>1, <2>2, <2>5, <2>6, <3>1, SpacingTypes DEF FrameInv
      <4>2. T3_5 \in Nat /\ Unseen \in Nat
        BY ConstantFacts DEF Unseen
      <4>3. CASE Tick
        <5>1. PICK s \in Nat : /\ Spacing(b)' = s
                               /\ b < Arrived => s = Spacing(b)
                               /\ b = Arrived => s = Spacing(b) + 1 \/ s >= T3_5
          BY <1>1, <2>6, <4>3, SpacingTick
        <5>2. s + Unseen >= T3_5
          BY <1>1, <2>6, <4>1, <4>2, <5>1
        <5> QED
          BY <5>1, <5>2
      <4>4. CASE ~Tick
        <5>1. Spacing(b)' = Spacing(b)
          BY <1>1, <2>6, <4>4, SpacingStill
        <5> QED
          BY <4>1, <5>1
      <4> QED
        BY <4>3, <4>4
    <3>2. CASE state # "FRAME_READY"
      <4>1. HandleTimer
        <5>1. ~Sample /\ ~Restart /\ ~RestartFails
          BY <2>7, <3>2 DEF Sample, Restart, RestartFails, EndTransport, framerVars
        <5>2. ~Tick
          BY <1>1, <2>7, <3>2, TickFacts
        <5>3. ~HandleIdle
          <6> SUFFICES ASSUME HandleIdle PROVE FALSE
            OBVIOUS
          <6>1. Late(idles[1]) /\ idles # <<>>
            BY <1>1, <2>7, <3>2, HandleIdleEffect
          <6>2. 1 \in DOMAIN idles
            BY <1>1, <6>1, EventFacts
          <6> QED
            BY <1>1, <2>1, <6>1, <6>2 DEF LateInv, InTime
        <5> QED
          BY <1>1, <1>4, <2>7, <3>2, <5>1, <5>2, <5>3, FramerEffect
      <4>2. ~receiveError /\ UNCHANGED <<receiveError, stopped, late>>
        BY <1>1, <4>1, HandleTimerEffect
      <4>3. ~stopped
        BY <1>1, <1>4, <4>2 DEF ErrorInv
      <4>4. Sound'
        BY <2>1, <4>2, <4>3 DEF Sound
      <4>5. LowerInv' /\ Last(frame)' = Read'
        BY <1>4, <4>4 DEF Timed
      <4>6. Spacing(Read)' + Unseen >= T3_5
        BY <2>4, <2>7, <4>5 DEF LowerInv
      <4>7. Read' = b
        BY <1>4, <2>2, <2>5, <4>5 DEF Last
      <4> QED
        BY <4>6, <4>7
    <3> QED
      BY <3>1, <3>2
  <2>8. Joined(frame)' /\ Last(frame)' = b
    BY <1>4, <2>2, <2>3, <2>5 DEF Last
  <2>9. state' = "FRAME_READY" => Spacing(Last(frame))' + Unseen' >= T3_5
    BY <2>4, <2>7, <2>8
  <2> QED
    BY <2>8, <2>9 DEF FrameInv
<1>5. CASE ReadByte /\ frame' # <<>>
  <2>0. Paced /\ Timed /\ FrameInv /\ Inv3 /\ LowerInv /\ UpperInv /\ ReceivingInv
    <3>1. UNCHANGED <<late, receiveError, stopped>> /\ ~receiveError
      BY <1>1, <1>5, ReadByteEffect
    <3>2. ~stopped
      BY <1>1, <1>5, <3>1 DEF ErrorInv, ReadByte
    <3>3. Sound
      BY <3>1, <3>2 DEF Sound
    <3> QED
      BY <1>1, <3>3 DEF Inv4, Timed, Inv3, Paced, Sound
  <2>1. /\ state \in {"WAITING", "RECEIVING", "WAIT_T1_5"} /\ state' = "RECEIVING"
        /\ frame' = Append(frame, Read + 1) /\ Read' = Read + 1 /\ Read + 1 =< Sampled
        /\ ~Pending(Read) /\ phase = "FRAMER" /\ consumer # producer
    <3>1. state = "DISCARD" => frame = <<>>
      BY <1>1 DEF TimedInv
    <3>2. consumer # producer
      BY <1>5 DEF ReadByte
    <3>3. ~Pending(Read)
      BY <1>5, <2>0, ByteTaken
    <3> QED
      BY <1>1, <1>5, <3>1, <3>2, <3>3, ReadByteEffect
  <2>2. PICK k \in 1 .. Arrived : k = Read + 1
    BY <1>1, <2>1
  <2>3. k \in Nat /\ k - 1 = Read /\ Read < Arrived /\ Read < Sampled
    BY <1>1, <2>1, <2>2
  <2>4. PICK f : f = frame
    OBVIOUS
  <2>5. /\ Spacing(Read) = gaps[k] + CharacterTime /\ gaps[k] \in Nat
        /\ Quieted(Read) <=> gaps[k] >= CharacterTime
    BY <1>1, <2>2, <2>3, SpacingTypes
  <2>6. Joined(Append(f, k)) /\ Last(Append(f, k)) = k
    <3>1. CASE state = "WAITING"
      <4>1. f = <<>>
        BY <1>1, <2>4, <3>1 DEF TimedInv
      <4>2. gaps[k] + CharacterTime + Unseen >= T3_5
        BY <2>0, <2>5, <3>1 DEF LowerInv
      <4> QED
        BY <1>1, <4>1, <4>2, JoinedFirst
    <3>2. CASE state \in {"RECEIVING", "WAIT_T1_5"}
      <4>1. f # <<>>
        BY <1>1, <2>4, <3>2 DEF TimedInv
      <4>2. Joined(f) /\ k = Last(f) + 1
        BY <2>0, <2>2, <2>4, <4>1 DEF FrameInv, Timed
      <4>3. gaps[k] < CharacterTime \/ Short(Read)
        <5>1. CASE state = "RECEIVING"
          <6>1. Quieted(Read) => Short(Read)
            BY <2>0, <2>1, <5>1 DEF ReceivingInv
          <6>2. CharacterTime \in Nat
            BY ConstantFacts
          <6> QED
            BY <2>5, <6>1, <6>2
        <5>2. CASE state = "WAIT_T1_5"
          <6>1. InPass /\ consumer < producer
            BY <1>1, <2>1 DEF InPass
          <6>2. CASE elapsed
            BY <2>0, <5>2, <6>1, <6>2 DEF UpperInv
          <6>3. CASE ~elapsed
            <7>1. Spacing(Read) < T1_5 + Pass + MaxInside - timer
              BY <2>0, <5>2, <6>3 DEF UpperInv
            <7>2. /\ T1_5 \in Nat /\ Pass \in Nat /\ MaxInside \in Nat /\ MaxPass \in Nat
                  /\ Pass = MaxPass + MaxInside /\ 0 < MaxPass /\ TwoPasses = Pass + Pass - 2
              BY ConstantFacts DEF TwoPasses
            <7>3. Spacing(Read) \in Nat
              BY <1>1, SpacingTypes
            <7>4. Spacing(Read) =< T1_5 + TwoPasses
              BY <1>1, <7>1, <7>2, <7>3
            <7> QED
              BY <7>4 DEF Short
          <6> QED
            BY <6>2, <6>3
        <5> QED
          BY <3>2, <5>1, <5>2
      <4> QED
        BY <1>1, <1>2, <2>3, <2>4, <4>1, <4>2, <4>3, JoinedAppend
    <3> QED
      BY <2>1, <3>1, <3>2
  <2>7. PICK h : h = Append(f, k)
    OBVIOUS
  <2>8. h \in Seq(1 .. Arrived) /\ h # <<>> /\ frame' = h
    BY <1>2, <1>5, <2>1, <2>2, <2>4, <2>7, AppendProperties
  <2>9. Joined(h)'
    BY <1>1, <2>6, <2>7, <2>8, JoinedStays
  <2>10. Last(h) = Read'
    BY <2>1, <2>2, <2>6, <2>7
  <2>11. Joined(frame)' /\ Last(frame') = Read' /\ state' # "FRAME_READY"
    BY <2>1, <2>8, <2>9, <2>10
  <2> QED
    BY <2>11 DEF FrameInv, Last
<1>6. ReadByte \/ frame' \in {frame, <<>>}
  BY <1>1, FrameSteps
<1> QED
  BY <1>3, <1>4, <1>5, <1>6

LEMMA Inv4Init == Init => Inv4
<1> SUFFICES ASSUME Init PROVE Inv4
  OBVIOUS
<1>1. Inv2
  BY Inv2Init
<1>2. AtRest /\ silence = Quiet /\ receiving = 0 /\ frame = <<>>
  <2>1. Position = 0
    BY EmptySeq DEF Init, Position, Arrived
  <2> QED
    BY <2>1 DEF Init, AtRest
<1>3. Timed /\ FrameInv
  BY <1>1, <1>2, TimedAtRest DEF FrameInv
<1> QED
  BY <1>1, <1>3 DEF Inv4

LEMMA Inv4Step == NoRollover /\ Inv4 /\ [Next]_vars => Inv4'
<1> SUFFICES ASSUME NoRollover, Inv4, [Next]_vars PROVE Inv4'
  OBVIOUS
<1>1. Inv2'
  BY Inv2Step DEF Inv4
<1>2. Sound' => Timed'
  BY TimedStep
<1>3. ~late' => FrameInv'
  BY <1>2, FrameInvStep
<1> QED
  BY <1>1, <1>2, <1>3 DEF Inv4

LEMMA Inv4Holds == ASSUME NoRollover PROVE Spec => []Inv4
<1>1. Init => Inv4
  BY Inv4Init
<1>2. Inv4 /\ [Next]_vars => Inv4'
  BY Inv4Step
<1> QED
  BY <1>1, <1>2, PTL DEF Spec

\* While the positions do not roll over, a frame that is handed on is one
\* segment of the stream, however bytes, errors and the expiry of the timer fall
\* between the passes, unless the main loop was overtaken since the receiver was
\* at rest: there is no bound on its passes but that history.
THEOREM FrameCorrect ==
  ASSUME NoRollover
  PROVE  Spec => []FrameIsWhole
<1>1. Inv4 => FrameIsWhole
  <2> SUFFICES ASSUME Inv4, state = "FRAME_READY", ~late PROVE WholeSegment
    BY DEF FrameIsWhole
  <2>1. frame # <<>> /\ FrameInv
    BY DEF Inv4, Inv2, TimedInv
  <2> QED
    BY <2>1 DEF FrameInv, Joined, Short, WholeSegment
<1> QED
  BY <1>1, Inv4Holds, PTL
=============================================================================
