----------------------------- MODULE RtuReceiver -----------------------------
(***************************************************************************)
(* How a Modbus RTU frame is cut out of the byte stream: the USART, its    *)
(* receive DMA and idle interrupt (bsp_uart_dma.c), the transport that     *)
(* samples them (uart2_dma_transport.c), the one shot timer                *)
(* (bsp_rtu_timer.c) and the framer (modbus_rtu_framer.c).                 *)
(*                                                                         *)
(* Time is counted in ticks.  Bytes arrive and the timer expires by        *)
(* interrupt; a pass of the main loop samples the transport, at most       *)
(* MaxPass ticks after the pass before it, and then hands what it found to *)
(* the framer, byte by byte, in at most MaxInside ticks.  A byte is its    *)
(* number in the stream, so that a frame shows which bytes it is made of.  *)
(***************************************************************************)
EXTENDS Integers, Sequences

CONSTANTS
  CharacterTime,   \* timing.character_time_us, in ticks
  T1_5, T3_5,      \* timing.t1_5_us and timing.t3_5_us
  MinLength,       \* the shortest frame: 4
  MaxLength,       \* MODBUS_RTU_ADU_MAX_SIZE
  PositionRange,   \* absolute positions are 32 bits wide: 2^32
  FirstPosition,   \* the absolute position a behaviour begins at
  IdleDepth,       \* BSP_UART2_IDLE_EVENT_QUEUE_DEPTH: 8
  MaxPass,         \* bound: ticks from a pass of the main loop to the next
  MaxInside,       \* bound: ticks from the first half of a pass to its end
  MaxBytes,        \* bound: bytes of a behaviour
  MaxErrors        \* bound: receive errors of a behaviour

ASSUME TimingAssumption ==
  /\ {CharacterTime, T1_5, T3_5, MinLength, MaxLength, IdleDepth, MaxPass} \subseteq Nat \ {0}
  /\ {MaxInside, MaxBytes, MaxErrors} \subseteq Nat
  /\ CharacterTime < T1_5 /\ T1_5 < T3_5 /\ IdleDepth > 1
  /\ PositionRange \in Nat /\ MaxBytes < PositionRange
  /\ FirstPosition \in 0 .. PositionRange - 1

VARIABLES
  receiving,   \* ticks until the byte on the line is complete; 0: the line is idle
  silence,     \* ticks since the last byte, up to Quiet
  gaps,        \* history: the silence before each byte, T3.5 for more, or Quiet
  origin,      \* bytes that had arrived when the DMA was last restarted
  base,        \* the absolute position of the first byte after that
  idleQueue,   \* s_idle_events of the interrupt handler: position and age
  lineError,   \* a receive error was counted since the last pass
  errors,      \* receive errors so far
  stopped,     \* the receive DMA could not be started again
  consumer,    \* s_consumer_absolute, counted from base and not wrapped
  producer,    \* s_producer_absolute, likewise
  written,     \* dma_write_position, likewise
  idles,       \* s_idle_events of the transport
  receiveError,\* s_receive_error
  state,       \* s_state of the framer
  frame,       \* s_frame, the first s_length bytes
  mark,        \* s_silence_dma_position, counted like consumer
  timer,       \* ticks the timer still runs; 0 when it is stopped
  elapsed,     \* s_elapsed
  phase, wait, \* what the pass does next, and ticks since it was last sampled or ended
  taken,       \* history: the last frame the server took
  spoiled,     \* history: an error or an untaken frame since the receiver was at rest
  late         \* history: the main loop was Overtaken since the receiver was at rest

lineVars == <<receiving, silence, gaps>>
errorVars == <<lineError, errors, stopped>>
queueVars == <<idleQueue, idles>>
positionVars == <<origin, base, producer, written>>
framerVars == <<state, frame, mark>>
timerVars == <<timer, elapsed>>
historyVars == <<taken, spoiled, late>>
vars == <<lineVars, errorVars, queueVars, positionVars, consumer, receiveError,
          framerVars, timerVars, phase, wait, historyVars>>

\* The longest pass, and the silence after which everything has come to rest:
\* a pass handles one idle event, and both queues may be full.
Pass == MaxPass + MaxInside
Quiet == T3_5 + (2 * IdleDepth + 3) * Pass

Arrived == IF receiving > 0 THEN Len(gaps) - 1 ELSE Len(gaps)
Position == Arrived - origin

\* A position as the code holds it.
Absolute(position) == (base + position) % PositionRange

FramerStates == {"WAITING", "RECEIVING", "WAIT_T1_5", "WAIT_T3_5", "FRAME_READY", "DISCARD"}
IdleEvents == [position : 0 .. Arrived, age : 0 .. T3_5]

WaitBound == IF phase = "TRANSPORT" THEN MaxPass ELSE MaxInside

TypeOK ==
  /\ receiving \in 0 .. CharacterTime /\ silence \in 0 .. Quiet
  /\ gaps \in Seq(0 .. Quiet) /\ Len(gaps) =< MaxBytes
  /\ origin \in 0 .. Arrived
  /\ idleQueue \in Seq(IdleEvents) /\ Len(idleQueue) =< IdleDepth
  /\ idles \in Seq(IdleEvents) /\ Len(idles) =< IdleDepth
  /\ lineError \in BOOLEAN /\ errors \in 0 .. MaxErrors /\ stopped \in BOOLEAN
  /\ receiveError \in BOOLEAN
  /\ consumer \in 0 .. producer
  /\ producer \in 0 .. Arrived /\ written \in 0 .. Arrived
  /\ base \in {0, FirstPosition}
  /\ state \in FramerStates /\ mark \in 0 .. Arrived
  /\ frame \in Seq(1 .. Arrived) /\ Len(frame) =< MaxLength
  /\ timer \in 0 .. T3_5 /\ elapsed \in BOOLEAN
  /\ phase \in {"TRANSPORT", "FRAMER", "TIMER"} /\ wait \in 0 .. WaitBound
  /\ taken \in Seq(1 .. Arrived) /\ spoiled \in BOOLEAN /\ late \in BOOLEAN

\* Nothing is under way and nothing is left to handle.
AtRest ==
  /\ state = "WAITING" /\ consumer = Position
  /\ ~lineError /\ ~stopped /\ ~receiveError /\ idleQueue = <<>> /\ idles = <<>>

\* The line has been silent and the framer waits for a first byte.
Init ==
  /\ receiving = 0 /\ silence = Quiet /\ gaps = <<>>
  /\ origin = 0 /\ base = FirstPosition /\ consumer = 0 /\ producer = 0 /\ written = 0
  /\ idleQueue = <<>> /\ idles = <<>>
  /\ lineError = FALSE /\ errors = 0 /\ stopped = FALSE /\ receiveError = FALSE
  /\ state = "WAITING" /\ frame = <<>> /\ mark = 0
  /\ timer = 0 /\ elapsed = FALSE
  /\ phase = "TRANSPORT" /\ wait = 0
  /\ taken = <<>> /\ spoiled = FALSE /\ late = FALSE

-----------------------------------------------------------------------------
(* The line, and what the hardware does with it.                           *)

Capped(n, bound) == IF n < bound THEN n ELSE bound
Gap == IF silence = Quiet THEN Quiet ELSE Capped(silence, T3_5)

StartByte ==
  /\ receiving = 0 /\ Len(gaps) < MaxBytes
  /\ receiving' = CharacterTime
  /\ gaps' = Append(gaps, Gap)
  /\ IF silence = Quiet /\ AtRest THEN spoiled' = FALSE /\ late' = FALSE
                                 ELSE UNCHANGED <<spoiled, late>>
  /\ UNCHANGED <<silence, errorVars, queueVars, positionVars, consumer, receiveError,
                 framerVars, timerVars, phase, wait, taken>>

\* Noise, a wrong parity, a broken stop bit or an overrun.
Disturb ==
  /\ errors < MaxErrors /\ ~lineError
  /\ errors' = errors + 1 /\ lineError' = TRUE /\ spoiled' = TRUE
  /\ UNCHANGED <<lineVars, stopped, queueVars, positionVars, consumer, receiveError,
                 framerVars, timerVars, phase, wait, taken, late>>

Older(events) ==
  [n \in DOMAIN events |-> [position |-> events[n].position,
                            age |-> Capped(events[n].age + 1, T3_5)]]

\* The idle interrupt comes when the line was idle for one character.
Idle == receiving = 0 /\ silence + 1 = CharacterTime
Full == Len(idleQueue) = IdleDepth

\* IdleIntervalElapsed: the rest of T3.5 is over as well.
Late(event) == event.age >= T3_5 - CharacterTime

\* The main loop does not keep up: an idle event waits for its pass still when
\* the next one is raised or when T3.5 is over, or one pass takes T3.5.
Overtaken ==
  \/ Len(idleQueue) > 1
  \/ \E n \in DOMAIN idleQueue : Late(idleQueue[n])
  \/ \E n \in DOMAIN idles : Late(idles[n])
  \/ phase # "TRANSPORT" /\ wait >= T3_5

\* A byte that comes while the DMA is stopped is lost; of two, the USART counts
\* an overrun, which the handler of the idle interrupt sees.
Tick ==
  /\ wait < WaitBound /\ wait' = wait + 1
  /\ IF receiving > 0
     THEN /\ receiving' = receiving - 1
          /\ silence' = IF receiving = 1 THEN 0 ELSE silence
     ELSE silence' = Capped(silence + 1, Quiet) /\ UNCHANGED receiving
  /\ origin' = IF stopped /\ receiving = 1 THEN origin + 1 ELSE origin
  /\ idleQueue' = Older(idleQueue) \o (IF Idle /\ ~Full
                                       THEN <<[position |-> Position, age |-> 0]>> ELSE <<>>)
  /\ idles' = Older(idles)
  /\ \/ Idle /\ (Full \/ stopped) /\ lineError' = TRUE
     \/ ~(Idle /\ Full) /\ UNCHANGED lineError
  /\ spoiled' = (spoiled \/ (Idle /\ Full))
  /\ timer' = IF timer > 0 THEN timer - 1 ELSE 0
  /\ elapsed' = (elapsed \/ timer = 1)
  /\ UNCHANGED <<gaps, errors, stopped, base, producer, written, consumer, receiveError,
                 framerVars, phase, taken>>
  /\ late' = (late \/ Overtaken')

-----------------------------------------------------------------------------
(* Uart2DmaTransport_Process.                                              *)

EndTransport ==
  /\ phase = "TRANSPORT" /\ phase' = "FRAMER" /\ wait' = 0
  /\ idleQueue' = <<>>
  /\ UNCHANGED <<lineVars, errors, framerVars, timerVars, taken, late>>

\* CollectIdleEvents: what does not fit is dropped, and counts as an error.
Crowded == Len(idles) + Len(idleQueue) > IdleDepth
Collected == SubSeq(idles \o idleQueue, 1, Capped(Len(idles) + Len(idleQueue), IdleDepth))

\* It moves the producer up to an event, by a comparison that takes a position
\* before the rollover for a later one.
Furthest(positions) ==
  {p \in positions : \A q \in positions : Absolute(q) =< Absolute(p)}

Collect ==
  /\ written' = Position
  /\ idles' = Collected
  /\ producer' \in Furthest({Position} \cup
                            {Collected[n].position : n \in Len(idles) + 1 .. Len(Collected)})
  /\ UNCHANGED <<origin, base, consumer>>

Sample ==
  /\ EndTransport
  /\ ~lineError
  /\ Collect
  /\ receiveError' = (receiveError \/ Crowded) /\ spoiled' = (spoiled \/ Crowded)
  /\ UNCHANGED <<lineError, stopped>>

\* An error restarts the DMA: what was not read yet is lost.
Restart ==
  /\ EndTransport
  /\ lineError /\ lineError' = FALSE /\ receiveError' = TRUE
  /\ stopped' = FALSE
  /\ origin' = Arrived /\ base' = 0
  /\ consumer' = 0 /\ producer' = 0 /\ written' = 0 /\ idles' = <<>>
  /\ UNCHANGED spoiled

RestartFails ==
  /\ EndTransport
  /\ lineError /\ lineError' = FALSE /\ receiveError' = TRUE
  /\ stopped' = TRUE
  /\ Collect
  /\ UNCHANGED spoiled

-----------------------------------------------------------------------------
(* The framer and its timer.                                               *)

\* BSP_RtuTimerStartUs forgets an expiry that nobody took, BSP_RtuTimerStop
\* does not: what becomes of it is said where the timer is stopped.
StartTimer(delay) == timer' = delay /\ elapsed' = FALSE
StopTimer == timer' = 0

\* ModbusRtuFramer_Reset.
Reset == StopTimer /\ state' = "WAITING" /\ frame' = <<>> /\ mark' = written

DiscardUntilSilence == StartTimer(T3_5) /\ state' = "DISCARD" /\ frame' = <<>>

\* Mutant: off by one.
MutCompleted(position) ==
  \/ Len(frame) =< MinLength /\ Reset
  \/ Len(frame) > MinLength /\ state' = "FRAME_READY" /\ mark' = position
     /\ UNCHANGED <<frame, timer>>

\* CompleteReceivedFrame, the silence after the frame at the given position.
Completed(position) ==
  \/ Len(frame) < MinLength /\ Reset
  \/ Len(frame) >= MinLength /\ state' = "FRAME_READY" /\ mark' = position
     /\ UNCHANGED <<frame, timer>>

\* Mutant: the frame is not bounded.
MutAppendByte(byte) ==
  /\ frame' = Append(frame, byte) /\ state' = "RECEIVING"
  /\ IF state = "WAIT_T1_5" THEN StopTimer ELSE UNCHANGED timer
  /\ UNCHANGED elapsed

\* The rest of ModbusRtuFramer_OnByte, where a byte belongs to the frame.
AppendByte(byte) ==
  IF Len(frame) >= MaxLength THEN DiscardUntilSilence
  ELSE /\ frame' = Append(frame, byte) /\ state' = "RECEIVING"
       /\ IF state = "WAIT_T1_5" THEN StopTimer ELSE UNCHANGED timer
       /\ UNCHANGED elapsed

\* Mutant: a byte after T1.5 is taken into the frame.
MutOnByte(byte) ==
  /\ UNCHANGED mark
  /\ \/ state = "FRAME_READY" /\ DiscardUntilSilence
     \/ state = "DISCARD" /\ StartTimer(T3_5) /\ UNCHANGED <<state, frame>>
     \/ state \in {"WAITING", "RECEIVING", "WAIT_T1_5", "WAIT_T3_5"} /\ AppendByte(byte)

\* ModbusRtuFramer_OnByte.
OnByte(byte) ==
  /\ UNCHANGED mark
  /\ \/ state \in {"FRAME_READY", "WAIT_T3_5"} /\ DiscardUntilSilence
     \/ state = "DISCARD" /\ StartTimer(T3_5) /\ UNCHANGED <<state, frame>>
     \/ state \in {"WAITING", "RECEIVING", "WAIT_T1_5"} /\ AppendByte(byte)

\* Mutant: the position of the event is not kept.
MutOnIdle(event) ==
  \/ /\ Late(event) /\ UNCHANGED elapsed
     /\ \/ state = "RECEIVING" /\ Completed(mark)
        \/ state = "DISCARD" /\ Reset
  \/ /\ ~Late(event) /\ UNCHANGED <<mark, frame>>
     /\ \/ state = "RECEIVING" /\ state' = "WAIT_T1_5" /\ StartTimer(T1_5 - CharacterTime)
        \/ state = "DISCARD" /\ UNCHANGED state /\ StartTimer(T3_5 - CharacterTime)
  \/ /\ state \notin {"RECEIVING", "DISCARD"}
     /\ UNCHANGED <<framerVars, timerVars>>

\* ModbusRtuFramer_OnIdleEvent: an event may be handled long after it was raised.
OnIdle(event) ==
  \/ /\ Late(event) /\ UNCHANGED elapsed
     /\ \/ state = "RECEIVING" /\ Completed(event.position)
        \/ state = "DISCARD" /\ Reset
  \/ /\ ~Late(event) /\ mark' = event.position /\ UNCHANGED frame
     /\ \/ state = "RECEIVING" /\ state' = "WAIT_T1_5" /\ StartTimer(T1_5 - CharacterTime)
        \/ state = "DISCARD" /\ UNCHANGED state /\ StartTimer(T3_5 - CharacterTime)
  \/ /\ state \notin {"RECEIVING", "DISCARD"}
     /\ mark' = event.position /\ UNCHANGED <<state, frame, timerVars>>

\* ModbusRtuFramer_OnTimerEvent: an expiry that was taken, and bytes had come
\* since the idle event when the transport was last sampled, or none had.
OnTimerRaced ==
  /\ mark # written /\ UNCHANGED mark
  /\ \/ state = "WAIT_T1_5" /\ state' = "RECEIVING" /\ UNCHANGED <<frame, timer>>
     \/ state = "WAIT_T3_5" /\ DiscardUntilSilence
     \/ state = "DISCARD" /\ UNCHANGED <<state, frame>> /\ StartTimer(T3_5)

OnTimerSilent ==
  /\ mark = written
  /\ \/ /\ state = "WAIT_T1_5" /\ state' = "WAIT_T3_5" /\ UNCHANGED <<frame, mark>>
        /\ StartTimer(T3_5 - T1_5)
     \/ state = "WAIT_T3_5" /\ Completed(mark)
     \/ state = "DISCARD" /\ Reset

OnTimer ==
  \/ OnTimerRaced
  \/ OnTimerSilent
  \/ state \in {"WAITING", "RECEIVING", "FRAME_READY"} /\ UNCHANGED <<framerVars, timer>>

-----------------------------------------------------------------------------
(* ModbusRtuFramer_Process: all bytes up to the next idle event, that event *)
(* if there is one, and the expiry of the timer.                            *)

InFramer ==
  /\ phase = "FRAMER"
  /\ UNCHANGED <<lineVars, errorVars, positionVars, taken, late>>

ReceiveError ==
  /\ InFramer /\ UNCHANGED <<mark, phase, wait, spoiled>>
  /\ receiveError /\ receiveError' = FALSE
  /\ DiscardUntilSilence
  /\ consumer' = producer /\ idles' = <<>> /\ idleQueue' = <<>>

\* The next idle event is not ahead of the consumer, as the code compares them.
Reached == idles # <<>> /\ Absolute(consumer) >= Absolute(Head(idles).position)

\* Uart2DmaTransport_TryReadByte and ModbusRtuFramer_OnByte.
ReadByte ==
  /\ InFramer /\ ~receiveError /\ UNCHANGED <<queueVars, receiveError, phase, wait>>
  /\ consumer # producer /\ ~Reached
  /\ consumer' = consumer + 1
  /\ OnByte(origin + consumer + 1)
  /\ spoiled' = (spoiled \/ state = "FRAME_READY")

\* Uart2DmaTransport_TakeIdleEvent and ModbusRtuFramer_OnIdleEvent.
HandleIdle ==
  /\ InFramer /\ ~receiveError /\ UNCHANGED <<idleQueue, consumer, receiveError, wait, spoiled>>
  /\ Reached
  /\ idles' = Tail(idles) /\ OnIdle(Head(idles))
  /\ phase' = "TIMER"

NoIdle ==
  /\ InFramer /\ ~receiveError
  /\ UNCHANGED <<queueVars, consumer, receiveError, framerVars, timerVars, wait, spoiled>>
  /\ consumer = producer /\ ~Reached
  /\ phase' = "TIMER"

\* BSP_RtuTimerTakeElapsed and ModbusRtuFramer_OnTimerEvent.
HandleTimer ==
  /\ phase = "TIMER" /\ phase' = "TRANSPORT" /\ wait' = 0
  /\ IF elapsed THEN OnTimer ELSE UNCHANGED <<framerVars, timer>>
  /\ elapsed' = FALSE
  /\ UNCHANGED <<lineVars, errorVars, queueVars, positionVars, consumer, receiveError,
                 historyVars>>

\* ModbusRtuFramer_TryGetFrame, when the server is idle.
Take ==
  /\ phase = "TRANSPORT" /\ state = "FRAME_READY"
  /\ taken' = frame
  /\ Reset
  /\ UNCHANGED <<lineVars, errorVars, queueVars, positionVars, consumer, receiveError,
                 elapsed, phase, wait, spoiled, late>>

Next ==
  \/ StartByte \/ Disturb \/ Tick
  \/ Sample \/ Restart \/ RestartFails
  \/ ReceiveError \/ ReadByte \/ HandleIdle \/ NoIdle \/ HandleTimer
  \/ Take

Spec == Init /\ [][Next]_vars

-----------------------------------------------------------------------------
(* Properties.                                                             *)

Last(s) == s[Len(s)]
Consecutive(s) == \A n \in 1 .. Len(s) - 1 : s[n + 1] = s[n] + 1

\* The time since the last byte ended.
Since == IF receiving > 0 THEN silence + CharacterTime - receiving ELSE silence

\* The time from the end of a byte to the end of the next one, or so far if
\* there is none.
Spacing(byte) == IF byte < Arrived THEN gaps[byte + 1] + CharacterTime ELSE Since

\* How late the expiry of T1.5 is noticed at most: its timer is started by one
\* pass and looked at by another, each of which came by before.
TwoPasses == 2 * (Pass - 1)

\* What the line did since a pass was sampled, but for a tick, is not seen by it.
Unseen == IF MaxInside > 0 THEN MaxInside - 1 ELSE 0

\* A frame that is handed on is one segment of the stream: nothing arrived in
\* the T3.5 before it nor in the T3.5 after it, and it is not two segments joined,
\* where bytes less than a character apart raise no idle event.
WholeSegment ==
  /\ Consecutive(frame)
  /\ gaps[Head(frame)] + CharacterTime + Unseen >= T3_5
  /\ \A n \in 2 .. Len(frame) :
       \/ gaps[frame[n]] < CharacterTime
       \/ Spacing(frame[n] - 1) =< T1_5 + TwoPasses
  /\ Spacing(Last(frame)) + Unseen >= T3_5

\* A frame is whole however bytes, errors and the expiry of the timer fall
\* between the passes, as long as the main loop keeps up: since the receiver was
\* at rest no idle event was overtaken by the next one, nor anything by T3.5.
FrameIsWhole == state = "FRAME_READY" /\ ~late => WholeSegment

\* STAGE5B_MODBUS_RTU_DMA_TRANSPORT.md: TIM4 waits "to t3.5 and verifies again",
\* "data between t1.5 and t3.5 invalidates the frame".  So a frame that is handed
\* on has ended with a silence, however often the main loop comes round.
FrameEndsInSilence ==
  state = "FRAME_READY" => Spacing(Last(frame)) + Unseen >= T3_5

\* A silence brings the receiver to rest with nothing unread, whatever was
\* on the line before and however many idle events wait: the discarding of bytes
\* ends with the silence, unless an error came in between.
SilenceSettles ==
  silence = Quiet /\ receiving = 0 /\ ~spoiled =>
    /\ state \in {"WAITING", "FRAME_READY"}
    /\ consumer = Position

\* The bytes from one on.
Burst(first) == [n \in 1 .. Len(gaps) - first + 1 |-> first + n - 1]

\* The line rests after a frame as a master sends it, its bytes not a character
\* apart, which no error or untaken frame got in the way of.
GoodFrameSent(first) ==
  /\ silence = Quiet /\ receiving = 0 /\ ~spoiled
  /\ gaps[first] = Quiet /\ \A n \in first + 1 .. Len(gaps) : gaps[n] < CharacterTime
  /\ Len(gaps) - first + 1 \in MinLength .. MaxLength

Received(burst) == taken = burst \/ (state = "FRAME_READY" /\ frame = burst)

\* Such a frame is received, and entire.
GoodFrameReceived ==
  \A first \in DOMAIN gaps : GoodFrameSent(first) => Received(Burst(first))

\* STAGE5B_HARDWARE_VALIDATION.md, of uart2_dma_position.c: "treats the absolute
\* byte count modulo 32 bits so long-running operation continues across its
\* natural rollover".  So does the reception of the frame that meets it.
RolloverIsHarmless ==
  \A first \in DOMAIN gaps :
    GoodFrameSent(first) /\ Absolute(Len(gaps) - origin) < Absolute(first - 1 - origin)
      => Received(Burst(first))
=============================================================================
