---------------------------- MODULE Communication ----------------------------
(***************************************************************************)
(* The Modbus side of the device: the communication manager, which applies *)
(* new line settings and makes way for the storage                         *)
(* (communication_manager.c), the server that answers one request at a     *)
(* time (modbus_rtu_server.c) and the RS-485 transmitter                   *)
(* (rs485_tx_controller.c).                                                *)
(*                                                                         *)
(* CommunicationManager_Process is a pass in two halves: the server works, *)
(* then the manager looks at what it left.  Between two passes the rest of *)
(* the main loop runs and may start or end a save.  Delays are over when   *)
(* they please; a request is what the server makes of it.                  *)
(***************************************************************************)
EXTENDS Naturals

CONSTANTS
  Settings,       \* communication configurations
  ModbusSettings, \* those whose protocol is Modbus RTU
  Off,            \* a UART that is not set up
  MaxOperations   \* bound: saves and factory resets

ASSUME CommunicationAssumption ==
  /\ Settings # {} /\ ModbusSettings \subseteq Settings
  /\ Off \notin Settings /\ MaxOperations \in Nat

VARIABLES
  half,            \* which half of a pass is next
  state,           \* s_state of the manager
  active, candidate, rollback,   \* s_active, s_candidate, s_rollback
  applyRequested,  \* s_apply_requested
  saveDeferred,    \* s_save_deferred
  wasBusy,         \* s_storage_was_busy
  pending,         \* s_pending_communication: settings, and whether to apply
  storageBusy,     \* PersistenceManager_IsBusy
  line,            \* the settings of USART2
  listening,       \* the transport is neither suspended nor down
  server, request, \* s_state of the server and what the request asks for
  address,         \* s_config of the server
  suspended,       \* s_suspended of the server
  tx,              \* s_state of the transmitter
  sending,         \* bytes are going out: the TC flag is clear
  driving,         \* the DE pin
  started,         \* history: the stack came up at start
  operations

requestVars == <<candidate, applyRequested, saveDeferred, pending>>
uartVars == <<line, listening>>
serverVars == <<server, request, address, suspended>>
txVars == <<tx, sending, driving>>
vars == <<half, state, active, rollback, wasBusy, requestVars, storageBusy, uartVars,
          serverVars, txVars, started, operations>>

Serving == {"RUNNING", "RESPONSE_ACTIVE", "WAIT_OLD_RESPONSE_COMPLETE"}
States == Serving \cup
  {"DISABLED", "APPLY_PENDING", "STOP_OLD_DMA", "APPLY_NEW_UART", "RESTART_RX",
   "ROLLBACK", "SUSPENDED_STORAGE", "ERROR"}
ServerStates ==
  {"IDLE", "FRAME_PENDING", "PROCESSING", "RESPONSE_DELAY", "TX_PENDING",
   "TX_ACTIVE", "WAIT_TX_COMPLETE", "ERROR"}
TxStates ==
  {"IDLE", "ASSERT_DE", "WAIT_DE_SETUP", "DMA_ACTIVE", "WAIT_UART_TC",
   "WAIT_DE_HOLD", "RELEASE_DE"}

\* What a frame may be: nothing to answer, a read or a refused write, a write of
\* the staged settings, the command to apply them, the command to save.
Requests == {"SILENT", "READ", "STAGE", "APPLY", "SAVE"}

TypeOK ==
  /\ half \in {"SERVER", "MANAGER"}
  /\ state \in States
  /\ active \in Settings /\ candidate \in Settings /\ rollback \in Settings
  /\ applyRequested \in BOOLEAN /\ saveDeferred \in BOOLEAN
  /\ wasBusy \in BOOLEAN /\ storageBusy \in BOOLEAN /\ started \in BOOLEAN
  /\ pending \in [settings : Settings, apply : BOOLEAN]
  /\ line \in Settings \cup {Off} /\ listening \in BOOLEAN
  /\ server \in ServerStates /\ request \in Requests
  /\ address \in Settings /\ suspended \in BOOLEAN
  /\ tx \in TxStates /\ sending \in BOOLEAN /\ driving \in BOOLEAN
  /\ operations \in 0 .. MaxOperations
  \* DE is high while the transmitter works, and it works for the server alone.
  /\ tx # "IDLE" => server \in {"TX_ACTIVE", "WAIT_TX_COMPLETE"}
  /\ driving <=> tx \notin {"IDLE", "ASSERT_DE"}
  /\ sending => tx = "DMA_ACTIVE"

\* CommunicationManager_Init: another protocol is configured, the stack comes
\* up, or it does not.
Init ==
  /\ half = "SERVER"
  /\ active \in Settings /\ candidate = active /\ rollback = active
  /\ pending = [settings |-> active, apply |-> FALSE]
  /\ \/ state = "DISABLED" /\ active \notin ModbusSettings /\ started = FALSE
     \/ state = "ERROR" /\ started = FALSE
     \/ state = "RUNNING" /\ active \in ModbusSettings /\ started = TRUE
  /\ line = IF started THEN active ELSE Off
  /\ listening = started
  /\ applyRequested = FALSE /\ saveDeferred = FALSE /\ wasBusy = FALSE
  /\ storageBusy = FALSE /\ operations = 0
  /\ server = "IDLE" /\ request = "SILENT" /\ address = active /\ suspended = FALSE
  /\ tx = "IDLE" /\ sending = FALSE /\ driving = FALSE

-----------------------------------------------------------------------------
(* The first half of a pass: the transport and the server.                 *)

EndServer == half = "SERVER" /\ half' = "MANAGER"

ServerOnly ==
  /\ EndServer /\ state \in Serving
  /\ UNCHANGED <<state, active, rollback, wasBusy, storageBusy, uartVars, address,
                 suspended, started, operations>>
ServerMoves(from, to) ==
  /\ ServerOnly /\ UNCHANGED requestVars
  /\ server = from /\ server' = to

NotServing ==
  /\ EndServer /\ state \notin Serving
  /\ UNCHANGED <<state, active, rollback, wasBusy, requestVars, storageBusy, uartVars,
                 serverVars, txVars, started, operations>>

\* ModbusRtuFramer_TryGetFrame has a frame for an idle server, or has none.
NoFrame == ServerMoves("IDLE", "IDLE") /\ UNCHANGED <<request, txVars>>
TakeFrame ==
  /\ ServerMoves("IDLE", "FRAME_PENDING")
  /\ ~suspended /\ listening
  /\ request' \in Requests
  /\ UNCHANGED txVars

FramePending == ServerMoves("FRAME_PENDING", "PROCESSING") /\ UNCHANGED <<request, txVars>>
Delay == ServerMoves("RESPONSE_DELAY", "RESPONSE_DELAY") /\ UNCHANGED <<request, txVars>>
DelayOver == ServerMoves("RESPONSE_DELAY", "TX_PENDING") /\ UNCHANGED <<request, txVars>>

\* CommunicationManager_RequestApply, for the mailbox command: the candidate is
\* overwritten also when nothing is staged.
RequestApply ==
  /\ request = "APPLY" /\ UNCHANGED <<saveDeferred, pending>>
  /\ IF applyRequested \/ storageBusy THEN UNCHANGED <<applyRequested, candidate>>
     ELSE candidate' = pending.settings /\ applyRequested' = pending.apply

\* CommandService_CommunicationBusy keeps saves out of an application.
CommunicationBusy == state \notin {"DISABLED", "RUNNING", "RESPONSE_ACTIVE"}

\* CommunicationManager_RequestDeferredSave; the supply may be unfit.
RequestDeferredSave ==
  /\ request = "SAVE" /\ UNCHANGED <<applyRequested, candidate, pending>>
  /\ saveDeferred' \in {saveDeferred, saveDeferred \/ ~(CommunicationBusy \/ storageBusy)}

\* WriteOne: a register of the staged settings.
Stage ==
  /\ request = "STAGE" /\ UNCHANGED <<applyRequested, candidate, saveDeferred>>
  /\ \E s \in Settings : pending' = [settings |-> s, apply |-> TRUE]

\* ModbusRtuServer_HandleAdu, which may fail to build the response.
HandleAdu ==
  /\ ServerOnly
  /\ server = "PROCESSING"
  /\ server' \in IF request = "SILENT" THEN {"IDLE"} ELSE {"RESPONSE_DELAY", "ERROR"}
  /\ \/ Stage \/ RequestApply \/ RequestDeferredSave
     \/ request \in {"SILENT", "READ"} /\ UNCHANGED requestVars
  /\ UNCHANGED <<request, txVars>>

\* Rs485TxController_Start.
StartTx ==
  /\ ServerMoves("TX_PENDING", IF tx = "IDLE" THEN "TX_ACTIVE" ELSE "ERROR")
  /\ tx' = IF tx = "IDLE" THEN "ASSERT_DE" ELSE tx
  /\ UNCHANGED <<request, sending, driving>>

AssertDe ==
  /\ ServerMoves("TX_ACTIVE", "WAIT_TX_COMPLETE")
  /\ tx = "ASSERT_DE" /\ tx' = "WAIT_DE_SETUP" /\ driving' = TRUE
  /\ UNCHANGED <<request, sending>>

\* The setup or hold time is not over, or bytes are still going out.
TxWaits ==
  /\ ServerMoves("WAIT_TX_COMPLETE", "WAIT_TX_COMPLETE")
  /\ tx \in {"IDLE", "WAIT_DE_SETUP", "WAIT_DE_HOLD"} \/ sending
  /\ UNCHANGED <<request, txVars>>

\* Rs485TxController_Process.
TxGoes(from, to) == tx = from /\ tx' = to
TxStep ==
  /\ ServerMoves("WAIT_TX_COMPLETE", "WAIT_TX_COMPLETE")
  /\ \/ TxGoes("WAIT_DE_SETUP", "DMA_ACTIVE") /\ sending' = TRUE
     \/ /\ ~sending /\ UNCHANGED sending
        /\ \/ TxGoes("DMA_ACTIVE", "WAIT_UART_TC")
           \/ TxGoes("WAIT_UART_TC", "WAIT_DE_HOLD")
           \/ TxGoes("WAIT_DE_HOLD", "RELEASE_DE")
  /\ UNCHANGED <<request, driving>>

\* Mutant: DE is left as it is.
MutAbort == tx' = "IDLE" /\ sending' = FALSE /\ UNCHANGED driving

\* Rs485TxController_Abort.
Abort == tx' = "IDLE" /\ sending' = FALSE /\ driving' = FALSE

\* The response is out.
TxDone ==
  /\ ServerMoves("WAIT_TX_COMPLETE", "IDLE")
  /\ tx = "RELEASE_DE" /\ Abort
  /\ UNCHANGED request

\* The DMA does not start, or the response takes longer than RS485_TX_TIMEOUT_US.
TxFails ==
  /\ ServerMoves("WAIT_TX_COMPLETE", "ERROR")
  /\ tx \in {"WAIT_DE_SETUP", "DMA_ACTIVE", "WAIT_UART_TC", "WAIT_DE_HOLD"} /\ Abort
  /\ UNCHANGED request

ServerError == ServerMoves("ERROR", "IDLE") /\ Abort /\ UNCHANGED request

ServerHalf ==
  \/ NotServing \/ NoFrame \/ TakeFrame \/ FramePending \/ HandleAdu \/ Delay \/ DelayOver
  \/ StartTx \/ AssertDe \/ TxWaits \/ TxStep \/ TxDone \/ TxFails \/ ServerError

-----------------------------------------------------------------------------
(* The second half: the manager.                                           *)

EndManager ==
  half = "MANAGER" /\ half' = "SERVER" /\ UNCHANGED <<started, request>>

ServerBusy == server # "IDLE"
StorageEdge == storageBusy # wasBusy

\* A save has started: the server is stopped, whatever the manager was doing.
Suspend ==
  /\ EndManager
  /\ storageBusy /\ ~wasBusy
  /\ suspended' = TRUE /\ Abort
  /\ wasBusy' = TRUE /\ state' = "SUSPENDED_STORAGE"
  /\ UNCHANGED <<active, rollback, requestVars, storageBusy, uartVars, server, address,
                 operations>>

\* The save has ended.
Resume ==
  /\ EndManager
  /\ ~storageBusy /\ wasBusy
  /\ server' = "IDLE" /\ address' = active /\ suspended' = FALSE
  /\ wasBusy' = FALSE /\ state' = "RUNNING"
  /\ UNCHANGED <<active, rollback, requestVars, storageBusy, uartVars, txVars, operations>>

ManagerOnly ==
  /\ EndManager /\ ~StorageEdge
  /\ UNCHANGED wasBusy
ManagerMoves(from, to) ==
  /\ ManagerOnly
  /\ state = from /\ state' = to
  /\ UNCHANGED <<active, requestVars, storageBusy, uartVars, server, address, suspended,
                 txVars, operations>>

Running ==
  /\ UNCHANGED rollback
  /\ \/ ServerBusy /\ ManagerMoves("RUNNING", "RESPONSE_ACTIVE")
     \/ ~ServerBusy /\ applyRequested /\ ManagerMoves("RUNNING", "APPLY_PENDING")
     \/ ~ServerBusy /\ ~applyRequested /\ ~saveDeferred /\ ManagerMoves("RUNNING", "RUNNING")

\* The deferred save is handed on; the persistence manager may refuse it.
DeferredSave ==
  /\ ManagerOnly
  /\ state = "RUNNING" /\ ~ServerBusy /\ ~applyRequested /\ saveDeferred
  /\ saveDeferred' = FALSE
  /\ \/ UNCHANGED <<storageBusy, operations>>
     \/ /\ operations < MaxOperations
        /\ storageBusy' = TRUE /\ operations' = operations + 1
  /\ UNCHANGED <<state, active, candidate, rollback, applyRequested, pending, uartVars,
                 server, address, suspended, txVars>>

ResponseActive ==
  /\ UNCHANGED rollback
  /\ \/ ServerBusy /\ ManagerMoves("RESPONSE_ACTIVE", "RESPONSE_ACTIVE")
     \/ ~ServerBusy /\ ManagerMoves("RESPONSE_ACTIVE",
                         IF applyRequested THEN "WAIT_OLD_RESPONSE_COMPLETE" ELSE "RUNNING")

ApplyPending ==
  ManagerMoves("APPLY_PENDING", "WAIT_OLD_RESPONSE_COMPLETE") /\ UNCHANGED rollback

\* Mutant: whether the server is busy is not looked at again.
MutWaitOldResponse ==
  ManagerMoves("WAIT_OLD_RESPONSE_COMPLETE", "STOP_OLD_DMA") /\ rollback' = active

WaitOldResponse ==
  \/ /\ ServerBusy /\ UNCHANGED rollback
     /\ ManagerMoves("WAIT_OLD_RESPONSE_COMPLETE", "WAIT_OLD_RESPONSE_COMPLETE")
  \/ /\ ~ServerBusy /\ rollback' = active
     /\ ManagerMoves("WAIT_OLD_RESPONSE_COMPLETE", "STOP_OLD_DMA")

StopOld ==
  /\ ManagerOnly
  /\ state = "STOP_OLD_DMA" /\ state' = "APPLY_NEW_UART"
  /\ suspended' = TRUE /\ listening' = FALSE /\ Abort
  /\ UNCHANGED <<active, rollback, requestVars, storageBusy, line, server, address,
                 operations>>

\* StartStack, which may fail at the UART.
StackStarts(s) ==
  /\ line' = s /\ listening' = TRUE
  /\ server' = "IDLE" /\ address' = s /\ suspended' = FALSE /\ Abort
StackFails ==
  line' = Off /\ listening' = FALSE /\ UNCHANGED <<server, address, suspended, txVars>>

\* CommitCandidate may be refused after the stack came up, before the settings
\* are in force or after that.
ApplyNew ==
  /\ ManagerOnly
  /\ state = "APPLY_NEW_UART"
  /\ \/ /\ StackStarts(candidate)
        /\ active' = candidate /\ pending' = [settings |-> candidate, apply |-> FALSE]
        /\ state' = "RESTART_RX"
     \/ /\ StackStarts(candidate) \/ StackFails
        /\ state' = "ROLLBACK" /\ UNCHANGED <<active, pending>>
     \/ /\ StackStarts(candidate)
        /\ active' = candidate /\ UNCHANGED pending
        /\ state' = "ROLLBACK"
  /\ UNCHANGED <<candidate, rollback, applyRequested, saveDeferred, storageBusy, operations>>

\* Mutant: the request is not cleared.
MutRestartRx == ManagerMoves("RESTART_RX", "RUNNING") /\ UNCHANGED rollback

\* Settings of another protocol end the service, with the receiver still up.
RestartRx ==
  /\ ManagerOnly
  /\ state = "RESTART_RX"
  /\ state' = IF active \in ModbusSettings THEN "RUNNING" ELSE "DISABLED"
  /\ applyRequested' = FALSE
  /\ UNCHANGED <<active, candidate, rollback, saveDeferred, pending, storageBusy,
                 uartVars, server, address, suspended, txVars, operations>>

\* Mutant: the request ends although neither settings could be started.
MutRollback ==
  /\ ManagerOnly
  /\ state = "ROLLBACK" /\ applyRequested' = FALSE
  /\ \/ StackStarts(rollback) /\ active' = rollback /\ state' = "RUNNING"
     \/ StackFails /\ state' = "ERROR" /\ UNCHANGED active
  /\ UNCHANGED <<candidate, rollback, saveDeferred, pending, storageBusy, operations>>

Rollback ==
  /\ ManagerOnly
  /\ state = "ROLLBACK"
  /\ \/ /\ StackStarts(rollback) /\ active' = rollback
        /\ applyRequested' = FALSE /\ state' = "RUNNING"
     \/ StackFails /\ state' = "ERROR" /\ UNCHANGED <<active, applyRequested>>
  /\ UNCHANGED <<candidate, rollback, saveDeferred, pending, storageBusy, operations>>

Rests ==
  \E s \in {"DISABLED", "SUSPENDED_STORAGE", "ERROR"} :
    ManagerMoves(s, s) /\ UNCHANGED rollback

ManagerHalf ==
  \/ Suspend \/ Resume \/ Running \/ DeferredSave \/ ResponseActive \/ ApplyPending
  \/ WaitOldResponse \/ StopOld \/ ApplyNew \/ RestartRx \/ Rollback \/ Rests

-----------------------------------------------------------------------------
(* Around the passes.                                                      *)

\* The USART has sent the last byte, or a receive error stopped its DMA: what
\* restarts the receiver stops the transmission too.
BytesOut ==
  /\ sending /\ sending' = FALSE
  /\ UNCHANGED <<half, state, active, rollback, wasBusy, requestVars, storageBusy,
                 uartVars, serverVars, tx, driving, started, operations>>

StorageOnly ==
  /\ half = "SERVER"
  /\ UNCHANGED <<half, state, active, rollback, wasBusy, requestVars, uartVars,
                 serverVars, txVars, started>>

\* A save that another source asks for keeps out of an application; a factory
\* reset that is confirmed does not.
StorageStarts ==
  /\ StorageOnly
  /\ ~storageBusy /\ storageBusy' = TRUE
  /\ operations < MaxOperations /\ operations' = operations + 1
StorageEnds ==
  StorageOnly /\ storageBusy /\ storageBusy' = FALSE /\ UNCHANGED operations

Next == ServerHalf \/ ManagerHalf \/ BytesOut \/ StorageStarts \/ StorageEnds

Spec == Init /\ [][Next]_vars

\* The main loop comes round, and delays, transmissions and saves are over some
\* time.  Masters need not send anything.
FairSpec ==
  /\ Spec
  /\ WF_vars(ServerHalf) /\ WF_vars(ManagerHalf)
  /\ SF_vars(DelayOver) /\ SF_vars(TxStep)
  /\ WF_vars(BytesOut) /\ SF_vars(StorageEnds)

-----------------------------------------------------------------------------
(* Properties.                                                             *)

\* Once no application is under way the line, the server and the manager agree
\* on the settings and the device listens, whatever step of an application a
\* save interrupted and however often it failed.
LineIsActive ==
  started /\ state \in {"RUNNING", "RESPONSE_ACTIVE"} /\ ~applyRequested =>
    line = active /\ address = active /\ listening /\ ~suspended

\* The settings of the line change, and the receiver stops, only while no
\* request is being served and nothing is driven onto the line.
ChangeIsQuiet ==
  [][line' # line \/ (listening /\ ~listening') =>
       server = "IDLE" /\ ~sending /\ ~driving]_vars

\* Every request comes to an end, and every application is answered with new
\* settings, with the old ones or with an error, although saves abort responses
\* and interrupt applications.
WorkEnds ==
  /\ server # "IDLE" ~> server = "IDLE"
  /\ applyRequested ~> ~applyRequested \/ state = "ERROR"
=============================================================================
