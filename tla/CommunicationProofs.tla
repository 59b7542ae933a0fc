------------------------- MODULE CommunicationProofs -------------------------
(***************************************************************************)
(* The type invariant, LineIsActive and ChangeIsQuiet of Communication for *)
(* every set of settings.                                                  *)
(***************************************************************************)
EXTENDS Communication, TLAPS

\* The steps of an application, from the first to the last.
Applying == {"APPLY_PENDING", "WAIT_OLD_RESPONSE_COMPLETE", "STOP_OLD_DMA",
             "APPLY_NEW_UART", "RESTART_RX", "ROLLBACK"}

\* An application is under way only while it is requested; a request survives
\* the error that both settings failed with.
RequestStands ==
  /\ state \in Applying => applyRequested
  /\ started /\ state = "ERROR" => applyRequested

\* The manager knows of a save exactly while it is suspended.
SuspendedForStorage == wasBusy <=> state = "SUSPENDED_STORAGE"

\* The server rests while the manager does not call it, unless a save froze it,
\* and then the transmitter rests.
ServerRests ==
  /\ state \notin Serving \cup {"SUSPENDED_STORAGE"} => server = "IDLE"
  /\ state = "SUSPENDED_STORAGE" => tx = "IDLE"

\* Without a request the line has the settings in force, in every state.
LineAgrees ==
  /\ started /\ ~applyRequested => line = active /\ address = active /\ listening
  /\ started /\ ~applyRequested /\ state # "SUSPENDED_STORAGE" => ~suspended
  /\ state = "RESTART_RX" => line = active /\ address = active /\ listening /\ ~suspended

\* The type invariant in three parts: the provers differ over the flags.
DataTypes ==
  /\ half \in {"SERVER", "MANAGER"} /\ state \in States
  /\ active \in Settings /\ candidate \in Settings /\ rollback \in Settings
  /\ pending \in [settings : Settings, apply : BOOLEAN]
  /\ line \in Settings \cup {Off} /\ address \in Settings
  /\ server \in ServerStates /\ request \in Requests /\ tx \in TxStates
  /\ operations \in 0 .. MaxOperations
  /\ tx # "IDLE" => server \in {"TX_ACTIVE", "WAIT_TX_COMPLETE"}
Flags ==
  /\ applyRequested \in BOOLEAN /\ saveDeferred \in BOOLEAN
  /\ wasBusy \in BOOLEAN /\ storageBusy \in BOOLEAN /\ started \in BOOLEAN
  /\ listening \in BOOLEAN /\ suspended \in BOOLEAN
  /\ sending \in BOOLEAN /\ driving \in BOOLEAN
DriverFollows ==
  /\ driving <=> tx \notin {"IDLE", "ASSERT_DE"}
  /\ sending => tx = "DMA_ACTIVE"

IInv == TypeOK /\ RequestStands /\ SuspendedForStorage /\ ServerRests /\ LineAgrees

-----------------------------------------------------------------------------
(* The invariant holds at start and is kept by every step.                 *)

LEMMA TypeParts == TypeOK <=> DataTypes /\ Flags /\ DriverFollows
BY DEF TypeOK, DataTypes, Flags, DriverFollows

LEMMA TypePartsNext == TypeOK' <=> DataTypes' /\ Flags' /\ DriverFollows'
BY DEF TypeOK, DataTypes, Flags, DriverFollows

LEMMA InitInvariant == Init => IInv
<1> SUFFICES ASSUME Init PROVE IInv
  OBVIOUS
<1>1. TypeOK
  <2>1. DataTypes
    <3>1. pending \in [settings : Settings, apply : BOOLEAN]
      BY DEF Init
    <3>2. line \in Settings \cup {Off}
      BY Zenon DEF Init
    <3>3. state \in States
      BY DEF Init, States, Serving
    <3>4. operations \in 0 .. MaxOperations
      BY CommunicationAssumption DEF Init
    <3> QED
      BY <3>1, <3>2, <3>3, <3>4 DEF Init, DataTypes, ServerStates, TxStates, Requests
  <2>2. Flags
    BY Zenon DEF Init, Flags
  <2>3. DriverFollows
    BY DEF Init, DriverFollows
  <2> QED
    BY <2>1, <2>2, <2>3, TypeParts
<1>2. RequestStands /\ SuspendedForStorage /\ ServerRests
  BY DEF Init, RequestStands, SuspendedForStorage, ServerRests, Serving, Applying
<1>3. LineAgrees
  BY DEF Init, LineAgrees
<1> QED
  BY <1>1, <1>2, <1>3 DEF IInv

\* The first half of a pass leaves the manager and the line alone.
LEMMA ServerKeeps ==
  ASSUME IInv, ServerHalf
  PROVE  IInv'
<1> USE CommunicationAssumption, TypeParts, TypePartsNext
    DEF IInv, RequestStands, SuspendedForStorage, ServerRests, LineAgrees,
        Serving, Applying, requestVars, uartVars, serverVars, txVars,
        ServerMoves, ServerOnly, EndServer
<1>1. CASE NotServing
  <2>1. DataTypes'
    BY <1>1 DEF NotServing, DataTypes, States, ServerStates, TxStates, Requests
  <2>2. Flags'
    BY <1>1, Zenon DEF NotServing, Flags
  <2>3. DriverFollows'
    BY <1>1 DEF NotServing, DriverFollows, DataTypes
  <2>4. RequestStands' /\ SuspendedForStorage' /\ ServerRests'
    BY <1>1 DEF NotServing, DataTypes
  <2>5. LineAgrees'
    BY <1>1 DEF NotServing
  <2> QED
    BY <2>1, <2>2, <2>3, <2>4, <2>5
<1>2. CASE NoFrame
  <2>1. DataTypes'
    BY <1>2 DEF NoFrame, DataTypes, States, ServerStates, TxStates, Requests
  <2>2. Flags'
    BY <1>2, Zenon DEF NoFrame, Flags
  <2>3. DriverFollows'
    BY <1>2 DEF NoFrame, DriverFollows, DataTypes
  <2>4. RequestStands' /\ SuspendedForStorage' /\ ServerRests'
    BY <1>2 DEF NoFrame, DataTypes
  <2>5. LineAgrees'
    BY <1>2 DEF NoFrame
  <2> QED
    BY <2>1, <2>2, <2>3, <2>4, <2>5
<1>3. CASE TakeFrame
  <2>1. DataTypes'
    BY <1>3 DEF TakeFrame, DataTypes, States, ServerStates, TxStates, Requests
  <2>2. Flags'
    BY <1>3, Zenon DEF TakeFrame, Flags
  <2>3. DriverFollows'
    BY <1>3 DEF TakeFrame, DriverFollows, DataTypes
  <2>4. RequestStands' /\ SuspendedForStorage' /\ ServerRests'
    BY <1>3 DEF TakeFrame, DataTypes
  <2>5. LineAgrees'
    BY <1>3 DEF TakeFrame
  <2> QED
    BY <2>1, <2>2, <2>3, <2>4, <2>5
<1>4. CASE FramePending
  <2>1. DataTypes'
    BY <1>4 DEF FramePending, DataTypes, States, ServerStates, TxStates, Requests
  <2>2. Flags'
    BY <1>4, Zenon DEF FramePending, Flags
  <2>3. DriverFollows'
    BY <1>4 DEF FramePending, DriverFollows, DataTypes
  <2>4. RequestStands' /\ SuspendedForStorage' /\ ServerRests'
    BY <1>4 DEF FramePending, DataTypes
  <2>5. LineAgrees'
    BY <1>4 DEF FramePending
  <2> QED
    BY <2>1, <2>2, <2>3, <2>4, <2>5
<1>5. CASE HandleAdu
  <2>1. DataTypes'
    <3>1. pending' \in [settings : Settings, apply : BOOLEAN] /\ candidate' \in Settings
      <4>1. CASE Stage
        BY <4>1 DEF Stage, DataTypes
      <4>2. CASE RequestApply
        <5>1. pending.settings \in Settings
          BY DEF DataTypes
        <5> QED
          BY <4>2, <5>1 DEF RequestApply, DataTypes
      <4>3. CASE RequestDeferredSave
        BY <4>3, Zenon DEF RequestDeferredSave, DataTypes
      <4>4. CASE UNCHANGED requestVars
        BY <4>4 DEF DataTypes
      <4> QED
        BY <1>5, <4>1, <4>2, <4>3, <4>4 DEF HandleAdu
    <3>2. server' \in {"IDLE", "RESPONSE_DELAY", "ERROR"} /\ tx = "IDLE" /\ UNCHANGED <<tx, request, operations>>
      BY <1>5 DEF HandleAdu, DataTypes
    <3> QED
      BY <1>5, <3>1, <3>2 DEF HandleAdu, DataTypes, ServerStates
  <2>2. Flags'
    <3>1. pending.apply \in BOOLEAN
      BY DEF DataTypes
    <3> QED
      BY <1>5, <3>1, Zenon DEF HandleAdu, Stage, RequestApply, RequestDeferredSave,
                               CommunicationBusy, Flags
  <2>3. DriverFollows'
    BY <1>5 DEF HandleAdu, Stage, RequestApply, RequestDeferredSave, CommunicationBusy, DriverFollows, DataTypes
  <2>4. RequestStands' /\ SuspendedForStorage' /\ ServerRests'
    BY <1>5 DEF HandleAdu, Stage, RequestApply, RequestDeferredSave, CommunicationBusy, DataTypes
  <2>5. LineAgrees'
    BY <1>5 DEF HandleAdu, Stage, RequestApply, RequestDeferredSave, CommunicationBusy
  <2> QED
    BY <2>1, <2>2, <2>3, <2>4, <2>5
<1>6. CASE Delay
  <2>1. DataTypes'
    BY <1>6 DEF Delay, DataTypes, States, ServerStates, TxStates, Requests
  <2>2. Flags'
    BY <1>6, Zenon DEF Delay, Flags
  <2>3. DriverFollows'
    BY <1>6 DEF Delay, DriverFollows, DataTypes
  <2>4. RequestStands' /\ SuspendedForStorage' /\ ServerRests'
    BY <1>6 DEF Delay, DataTypes
  <2>5. LineAgrees'
    BY <1>6 DEF Delay
  <2> QED
    BY <2>1, <2>2, <2>3, <2>4, <2>5
<1>7. CASE DelayOver
  <2>1. DataTypes'
    BY <1>7 DEF DelayOver, DataTypes, States, ServerStates, TxStates, Requests
  <2>2. Flags'
    BY <1>7, Zenon DEF DelayOver, Flags
  <2>3. DriverFollows'
    BY <1>7 DEF DelayOver, DriverFollows, DataTypes
  <2>4. RequestStands' /\ SuspendedForStorage' /\ ServerRests'
    BY <1>7 DEF DelayOver, DataTypes
  <2>5. LineAgrees'
    BY <1>7 DEF DelayOver
  <2> QED
    BY <2>1, <2>2, <2>3, <2>4, <2>5
<1>8. CASE StartTx
  <2>1. DataTypes'
    BY <1>8 DEF StartTx, DataTypes, States, ServerStates, TxStates, Requests
  <2>2. Flags'
    BY <1>8, Zenon DEF StartTx, Flags
  <2>3. DriverFollows'
    BY <1>8 DEF StartTx, DriverFollows, DataTypes
  <2>4. RequestStands' /\ SuspendedForStorage' /\ ServerRests'
    BY <1>8 DEF StartTx, DataTypes
  <2>5. LineAgrees'
    BY <1>8 DEF StartTx
  <2> QED
    BY <2>1, <2>2, <2>3, <2>4, <2>5
<1>9. CASE AssertDe
  <2>1. DataTypes'
    BY <1>9 DEF AssertDe, DataTypes, States, ServerStates, TxStates, Requests
  <2>2. Flags'
    BY <1>9, Zenon DEF AssertDe, Flags
  <2>3. DriverFollows'
    BY <1>9 DEF AssertDe, DriverFollows, DataTypes
  <2>4. RequestStands' /\ SuspendedForStorage' /\ ServerRests'
    BY <1>9 DEF AssertDe, DataTypes
  <2>5. LineAgrees'
    BY <1>9 DEF AssertDe
  <2> QED
    BY <2>1, <2>2, <2>3, <2>4, <2>5
<1>10. CASE TxWaits
  <2>1. DataTypes'
    BY <1>10 DEF TxWaits, DataTypes, States, ServerStates, TxStates, Requests
  <2>2. Flags'
    BY <1>10, Zenon DEF TxWaits, Flags
  <2>3. DriverFollows'
    BY <1>10 DEF TxWaits, DriverFollows, DataTypes
  <2>4. RequestStands' /\ SuspendedForStorage' /\ ServerRests'
    BY <1>10 DEF TxWaits, DataTypes
  <2>5. LineAgrees'
    BY <1>10 DEF TxWaits
  <2> QED
    BY <2>1, <2>2, <2>3, <2>4, <2>5
<1>11. CASE TxStep
  <2>1. DataTypes'
    BY <1>11 DEF TxStep, TxGoes, DataTypes, States, ServerStates, TxStates, Requests
  <2>2. Flags'
    BY <1>11, Zenon DEF TxStep, TxGoes, Flags
  <2>3. DriverFollows'
    BY <1>11 DEF TxStep, TxGoes, DriverFollows, DataTypes
  <2>4. RequestStands' /\ SuspendedForStorage' /\ ServerRests'
    BY <1>11 DEF TxStep, TxGoes, DataTypes
  <2>5. LineAgrees'
    BY <1>11 DEF TxStep, TxGoes
  <2> QED
    BY <2>1, <2>2, <2>3, <2>4, <2>5
<1>12. CASE TxDone
  <2>1. DataTypes'
    BY <1>12 DEF TxDone, Abort, DataTypes, States, ServerStates, TxStates, Requests
  <2>2. Flags'
    BY <1>12, Zenon DEF TxDone, Abort, Flags
  <2>3. DriverFollows'
    BY <1>12 DEF TxDone, Abort, DriverFollows, DataTypes
  <2>4. RequestStands' /\ SuspendedForStorage' /\ ServerRests'
    BY <1>12 DEF TxDone, Abort, DataTypes
  <2>5. LineAgrees'
    BY <1>12 DEF TxDone, Abort
  <2> QED
    BY <2>1, <2>2, <2>3, <2>4, <2>5
<1>13. CASE TxFails
  <2>1. DataTypes'
    BY <1>13 DEF TxFails, Abort, DataTypes, States, ServerStates, TxStates, Requests
  <2>2. Flags'
    BY <1>13, Zenon DEF TxFails, Abort, Flags
  <2>3. DriverFollows'
    BY <1>13 DEF TxFails, Abort, DriverFollows, DataTypes
  <2>4. RequestStands' /\ SuspendedForStorage' /\ ServerRests'
    BY <1>13 DEF TxFails, Abort, DataTypes
  <2>5. LineAgrees'
    BY <1>13 DEF TxFails, Abort
  <2> QED
    BY <2>1, <2>2, <2>3, <2>4, <2>5
<1>14. CASE ServerError
  <2>1. DataTypes'
    BY <1>14 DEF ServerError, Abort, DataTypes, States, ServerStates, TxStates, Requests
  <2>2. Flags'
    BY <1>14, Zenon DEF ServerError, Abort, Flags
  <2>3. DriverFollows'
    BY <1>14 DEF ServerError, Abort, DriverFollows, DataTypes
  <2>4. RequestStands' /\ SuspendedForStorage' /\ ServerRests'
    BY <1>14 DEF ServerError, Abort, DataTypes
  <2>5. LineAgrees'
    BY <1>14 DEF ServerError, Abort
  <2> QED
    BY <2>1, <2>2, <2>3, <2>4, <2>5
<1> QED
  BY <1>1, <1>2, <1>3, <1>4, <1>5, <1>6, <1>7, <1>8, <1>9, <1>10, <1>11, <1>12, <1>13, <1>14 DEF ServerHalf

\* The second half changes the line only in steps of an application.
LEMMA ManagerKeeps ==
  ASSUME IInv, ManagerHalf
  PROVE  IInv'
<1> USE CommunicationAssumption, TypeParts, TypePartsNext
    DEF IInv, RequestStands, SuspendedForStorage, ServerRests, LineAgrees,
        Serving, Applying, requestVars, uartVars, serverVars, txVars,
        ManagerMoves, ManagerOnly, EndManager, StorageEdge, ServerBusy
<1>1. CASE Suspend
  <2>1. DataTypes'
    BY <1>1 DEF Suspend, Abort, DataTypes, States, ServerStates, TxStates, Requests
  <2>2. Flags'
    BY <1>1, Zenon DEF Suspend, Abort, Flags
  <2>3. DriverFollows'
    BY <1>1 DEF Suspend, Abort, DriverFollows, DataTypes
  <2>4. RequestStands' /\ SuspendedForStorage' /\ ServerRests'
    BY <1>1 DEF Suspend, Abort, DataTypes
  <2>5. LineAgrees'
    BY <1>1 DEF Suspend, Abort
  <2> QED
    BY <2>1, <2>2, <2>3, <2>4, <2>5
<1>2. CASE Resume
  <2>1. DataTypes'
    BY <1>2 DEF Resume, DataTypes, States, ServerStates, TxStates, Requests
  <2>2. Flags'
    BY <1>2, Zenon DEF Resume, Flags
  <2>3. DriverFollows'
    BY <1>2 DEF Resume, DriverFollows, DataTypes
  <2>4. RequestStands' /\ SuspendedForStorage' /\ ServerRests'
    BY <1>2 DEF Resume, DataTypes
  <2>5. LineAgrees'
    BY <1>2 DEF Resume
  <2> QED
    BY <2>1, <2>2, <2>3, <2>4, <2>5
<1>3. CASE Running
  <2>1. DataTypes'
    BY <1>3 DEF Running, DataTypes, States, ServerStates, TxStates, Requests
  <2>2. Flags'
    BY <1>3, Zenon DEF Running, Flags
  <2>3. DriverFollows'
    BY <1>3 DEF Running, DriverFollows, DataTypes
  <2>4. RequestStands' /\ SuspendedForStorage' /\ ServerRests'
    BY <1>3 DEF Running, DataTypes
  <2>5. LineAgrees'
    BY <1>3 DEF Running
  <2> QED
    BY <2>1, <2>2, <2>3, <2>4, <2>5
<1>4. CASE DeferredSave
  <2>1. DataTypes'
    BY <1>4 DEF DeferredSave, DataTypes, States, ServerStates, TxStates, Requests
  <2>2. Flags'
    BY <1>4, Zenon DEF DeferredSave, Flags
  <2>3. DriverFollows'
    BY <1>4 DEF DeferredSave, DriverFollows, DataTypes
  <2>4. RequestStands' /\ SuspendedForStorage' /\ ServerRests'
    BY <1>4 DEF DeferredSave, DataTypes
  <2>5. LineAgrees'
    BY <1>4 DEF DeferredSave
  <2> QED
    BY <2>1, <2>2, <2>3, <2>4, <2>5
<1>5. CASE ResponseActive
  <2>1. DataTypes'
    BY <1>5 DEF ResponseActive, DataTypes, States, ServerStates, TxStates, Requests
  <2>2. Flags'
    BY <1>5, Zenon DEF ResponseActive, Flags
  <2>3. DriverFollows'
    BY <1>5 DEF ResponseActive, DriverFollows, DataTypes
  <2>4. RequestStands' /\ SuspendedForStorage' /\ ServerRests'
    BY <1>5 DEF ResponseActive, DataTypes
  <2>5. LineAgrees'
    BY <1>5 DEF ResponseActive
  <2> QED
    BY <2>1, <2>2, <2>3, <2>4, <2>5
<1>6. CASE ApplyPending
  <2>1. DataTypes'
    BY <1>6 DEF ApplyPending, DataTypes, States, ServerStates, TxStates, Requests
  <2>2. Flags'
    BY <1>6, Zenon DEF ApplyPending, Flags
  <2>3. DriverFollows'
    BY <1>6 DEF ApplyPending, DriverFollows, DataTypes
  <2>4. RequestStands' /\ SuspendedForStorage' /\ ServerRests'
    BY <1>6 DEF ApplyPending, DataTypes
  <2>5. LineAgrees'
    BY <1>6 DEF ApplyPending
  <2> QED
    BY <2>1, <2>2, <2>3, <2>4, <2>5
<1>7. CASE WaitOldResponse
  <2>1. DataTypes'
    BY <1>7 DEF WaitOldResponse, DataTypes, States, ServerStates, TxStates, Requests
  <2>2. Flags'
    BY <1>7, Zenon DEF WaitOldResponse, Flags
  <2>3. DriverFollows'
    BY <1>7 DEF WaitOldResponse, DriverFollows, DataTypes
  <2>4. RequestStands' /\ SuspendedForStorage' /\ ServerRests'
    BY <1>7 DEF WaitOldResponse, DataTypes
  <2>5. LineAgrees'
    BY <1>7 DEF WaitOldResponse
  <2> QED
    BY <2>1, <2>2, <2>3, <2>4, <2>5
<1>8. CASE StopOld
  <2>1. DataTypes'
    BY <1>8 DEF StopOld, Abort, DataTypes, States, ServerStates, TxStates, Requests
  <2>2. Flags'
    BY <1>8, Zenon DEF StopOld, Abort, Flags
  <2>3. DriverFollows'
    BY <1>8 DEF StopOld, Abort, DriverFollows, DataTypes
  <2>4. RequestStands' /\ SuspendedForStorage' /\ ServerRests'
    BY <1>8 DEF StopOld, Abort, DataTypes
  <2>5. LineAgrees'
    BY <1>8 DEF StopOld, Abort
  <2> QED
    BY <2>1, <2>2, <2>3, <2>4, <2>5
<1>9. CASE ApplyNew
  <2>1. DataTypes'
    <3>1. CASE StackStarts(candidate)
      <4>1. pending' \in [settings : Settings, apply : BOOLEAN] /\ active' \in Settings
            /\ state' \in {"RESTART_RX", "ROLLBACK"}
        <5>1. CASE UNCHANGED <<active, pending>> /\ state' = "ROLLBACK"
          BY <5>1 DEF DataTypes
        <5>3. CASE active' = candidate /\ UNCHANGED pending /\ state' = "ROLLBACK"
          BY <5>3 DEF DataTypes
        <5>2. CASE /\ active' = candidate /\ pending' = [settings |-> candidate, apply |-> FALSE]
                   /\ state' = "RESTART_RX"
          <6>1. candidate \in Settings
            BY DEF DataTypes
          <6> QED
            BY <5>2, <6>1
        <5> QED
          BY <1>9, <5>1, <5>2, <5>3, Zenon DEF ApplyNew
      <4> QED
        BY <1>9, <3>1, <4>1 DEF ApplyNew, StackStarts, Abort, DataTypes, States, ServerStates, TxStates
    <3>2. CASE ~StackStarts(candidate)
      <4>1. StackFails /\ state' = "ROLLBACK" /\ UNCHANGED <<active, pending>>
        BY <1>9, <3>2 DEF ApplyNew
      <4> QED
        BY <1>9, <4>1 DEF ApplyNew, StackFails, DataTypes, States
    <3> QED
      BY <3>1, <3>2
  <2>2. Flags'
    BY <1>9, Zenon DEF ApplyNew, StackStarts, StackFails, Abort, Flags
  <2>3. DriverFollows'
    BY <1>9 DEF ApplyNew, StackStarts, StackFails, Abort, DriverFollows, DataTypes
  <2>4. RequestStands' /\ SuspendedForStorage' /\ ServerRests'
    BY <1>9 DEF ApplyNew, StackStarts, StackFails, Abort, DataTypes
  <2>5. LineAgrees'
    BY <1>9 DEF ApplyNew, StackStarts, StackFails, Abort
  <2> QED
    BY <2>1, <2>2, <2>3, <2>4, <2>5
<1>10. CASE RestartRx
  <2>1. DataTypes'
    BY <1>10 DEF RestartRx, DataTypes, States, ServerStates, TxStates, Requests
  <2>2. Flags'
    BY <1>10, Zenon DEF RestartRx, Flags
  <2>3. DriverFollows'
    BY <1>10 DEF RestartRx, DriverFollows, DataTypes
  <2>4. RequestStands' /\ SuspendedForStorage' /\ ServerRests'
    BY <1>10 DEF RestartRx, DataTypes
  <2>5. LineAgrees'
    BY <1>10 DEF RestartRx
  <2> QED
    BY <2>1, <2>2, <2>3, <2>4, <2>5
<1>11. CASE Rollback
  <2>1. CASE StackStarts(rollback) /\ active' = rollback /\ applyRequested' = FALSE /\ state' = "RUNNING"
    <3>1. DataTypes'
      BY <1>11, <2>1 DEF Rollback, StackStarts, Abort, DataTypes, States, ServerStates, TxStates
    <3>2. Flags'
      BY <1>11, <2>1, Zenon DEF Rollback, StackStarts, Abort, Flags
    <3>3. DriverFollows'
      BY <2>1 DEF StackStarts, Abort, DriverFollows
    <3>4. RequestStands' /\ SuspendedForStorage' /\ ServerRests'
      BY <1>11, <2>1 DEF Rollback, StackStarts, Abort
    <3>5. LineAgrees'
      BY <2>1 DEF StackStarts
    <3> QED
      BY <3>1, <3>2, <3>3, <3>4, <3>5
  <2>2. CASE StackFails /\ state' = "ERROR" /\ UNCHANGED <<active, applyRequested>>
    <3>1. DataTypes'
      BY <1>11, <2>2 DEF Rollback, StackFails, DataTypes, States
    <3>2. Flags'
      BY <1>11, <2>2, Zenon DEF Rollback, StackFails, Flags
    <3>3. DriverFollows'
      BY <2>2 DEF StackFails, DriverFollows
    <3>4. RequestStands' /\ SuspendedForStorage' /\ ServerRests'
      BY <1>11, <2>2 DEF Rollback, StackFails
    <3>5. LineAgrees'
      BY <1>11, <2>2 DEF Rollback, StackFails
    <3> QED
      BY <3>1, <3>2, <3>3, <3>4, <3>5
  <2> QED
    BY <1>11, <2>1, <2>2 DEF Rollback
<1>12. CASE Rests
  <2>1. DataTypes'
    BY <1>12 DEF Rests, DataTypes, States, ServerStates, TxStates, Requests
  <2>2. Flags'
    BY <1>12, Zenon DEF Rests, Flags
  <2>3. DriverFollows'
    BY <1>12 DEF Rests, DriverFollows, DataTypes
  <2>4. RequestStands' /\ SuspendedForStorage' /\ ServerRests'
    BY <1>12 DEF Rests, DataTypes
  <2>5. LineAgrees'
    BY <1>12 DEF Rests
  <2> QED
    BY <2>1, <2>2, <2>3, <2>4, <2>5
<1> QED
  BY <1>1, <1>2, <1>3, <1>4, <1>5, <1>6, <1>7, <1>8, <1>9, <1>10, <1>11, <1>12 DEF ManagerHalf

LEMMA StepInvariant == IInv /\ [Next]_vars => IInv'
<1> SUFFICES ASSUME IInv, [Next]_vars PROVE IInv'
  OBVIOUS
<1> USE CommunicationAssumption
    DEF IInv, RequestStands, SuspendedForStorage, ServerRests, LineAgrees,
        Serving, Applying,
        requestVars, uartVars, serverVars, txVars
<1>1. CASE ServerHalf
  BY <1>1, ServerKeeps
<1>2. CASE ManagerHalf
  BY <1>2, ManagerKeeps
<1>3. CASE BytesOut
  <2>1. TypeOK'
    <3>1. DataTypes'
      BY <1>3, TypeParts DEF BytesOut, DataTypes
    <3>2. Flags'
      BY <1>3, TypeParts, Zenon DEF BytesOut, Flags
    <3>3. DriverFollows'
      BY <1>3, TypeParts DEF BytesOut, DriverFollows
    <3> QED
      BY <3>1, <3>2, <3>3, TypePartsNext
  <2>2. RequestStands'
    BY <1>3 DEF BytesOut
  <2>3. SuspendedForStorage'
    BY <1>3 DEF BytesOut
  <2>4. ServerRests'
    BY <1>3 DEF BytesOut
  <2>5. LineAgrees'
    BY <1>3 DEF BytesOut
  <2> QED
    BY <2>1, <2>2, <2>3, <2>4, <2>5
<1>4. CASE StorageStarts \/ StorageEnds
  <2>1. TypeOK'
    <3>1. operations' \in 0 .. MaxOperations
      BY <1>4, TypeParts DEF StorageStarts, StorageEnds, DataTypes
    <3>2. DataTypes'
      BY <1>4, <3>1, TypeParts DEF StorageStarts, StorageEnds, StorageOnly, DataTypes
    <3>3. Flags'
      BY <1>4, TypeParts, Zenon DEF StorageStarts, StorageEnds, StorageOnly, Flags
    <3>4. DriverFollows'
      BY <1>4, TypeParts DEF StorageStarts, StorageEnds, StorageOnly, DriverFollows
    <3> QED
      BY <3>2, <3>3, <3>4, TypePartsNext
  <2>2. RequestStands'
    BY <1>4 DEF StorageStarts, StorageEnds, StorageOnly
  <2>3. SuspendedForStorage'
    BY <1>4 DEF StorageStarts, StorageEnds, StorageOnly
  <2>4. ServerRests'
    BY <1>4 DEF StorageStarts, StorageEnds, StorageOnly
  <2>5. LineAgrees'
    BY <1>4 DEF StorageStarts, StorageEnds, StorageOnly
  <2> QED
    BY <2>1, <2>2, <2>3, <2>4, <2>5
<1>5. CASE UNCHANGED vars
  BY <1>5 DEF vars, TypeOK
<1> QED
  BY <1>1, <1>2, <1>3, <1>4, <1>5 DEF Next

-----------------------------------------------------------------------------
(* The theorems.                                                           *)

\* The inductive invariant holds in every reachable state.
THEOREM Invariance == Spec => []IInv
<1>1. Init => IInv
  BY InitInvariant
<1>2. IInv /\ [Next]_vars => IInv'
  BY StepInvariant
<1> QED
  BY <1>1, <1>2, PTL DEF Spec

\* Types, and DE is low whenever the transmitter does not work for the server,
\* on every way an abort may take.
THEOREM TypeCorrect == Spec => []TypeOK
<1>1. IInv => TypeOK
  BY DEF IInv
<1> QED
  BY <1>1, Invariance, PTL

\* Whatever step of an application a save interrupts and however often the
\* settings fail, the device comes to listen with the settings it believes in.
THEOREM LineSafe == Spec => []LineIsActive
<1>1. IInv => LineIsActive
  BY DEF IInv, LineAgrees, LineIsActive
<1> QED
  BY <1>1, Invariance, PTL

\* The line is changed only while no request is served and nothing is driven.
THEOREM ChangeSafe == Spec => ChangeIsQuiet
<1>1. IInv /\ [Next]_vars =>
        [line' # line \/ (listening /\ ~listening') =>
           server = "IDLE" /\ ~sending /\ ~driving]_vars
  <2> SUFFICES ASSUME IInv, [Next]_vars, line' # line \/ (listening /\ ~listening')
               PROVE  server = "IDLE" /\ ~sending /\ ~driving
    OBVIOUS
  <2>1. StopOld \/ ApplyNew \/ Rollback
    <3>1. ~ServerHalf
      BY DEF ServerHalf, NotServing, NoFrame, TakeFrame, FramePending, HandleAdu, Delay,
             DelayOver, StartTx, AssertDe, TxWaits, TxStep, TxDone, TxFails, ServerError,
             ServerMoves, ServerOnly, uartVars
    <3>2. ManagerHalf
      BY <3>1 DEF Next, BytesOut, StorageStarts, StorageEnds, StorageOnly, uartVars, vars
    <3> QED
      BY <3>2 DEF ManagerHalf, Suspend, Resume, Running, DeferredSave, ResponseActive,
             ApplyPending, WaitOldResponse, RestartRx, Rests, ManagerMoves, uartVars
  <2>2. server = "IDLE"
    BY <2>1 DEF StopOld, ApplyNew, Rollback, IInv, ServerRests, Serving
  <2> QED
    BY <2>2 DEF IInv, TypeOK
<1> QED
  BY <1>1, Invariance, PTL DEF Spec, ChangeIsQuiet
=============================================================================
