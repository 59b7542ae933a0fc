--------------------------- MODULE CommandSession ---------------------------
(***************************************************************************)
(* The sessions of Protocol/command_service/command_service.c: one config  *)
(* edit (Services/config_edit/config_edit.c), one calibration, and the     *)
(* commands that must not run beside them.  The local keys and BLE call    *)
(* the service; Modbus reaches it through the staging registers and the    *)
(* command mailbox of Protocol/modbus.                                     *)
(*                                                                         *)
(* A configuration is what the sessions fight over: hw, the unit, the      *)
(* display format, the capacity, the rate and the gain a calibration is    *)
(* valid under, and cal, the calibration itself.  A command that is refused*)
(* changes nothing and is the stuttering step.  Whether the system accepts *)
(* a configuration (validation, display, metrology) is left open.          *)
(***************************************************************************)
EXTENDS Integers

CONSTANTS
  Hardware,         \* metrology settings
  FactoryHardware,  \* those of the factory defaults
  Raws,             \* averages a stable window may have
  Masses,           \* masses CommandService_CalibrationMassValid accepts
  None,             \* no reading, no mass, no calibration, no staged config
  SessionMod,       \* 2^16
  Timeout,          \* CALIBRATION_SESSION_TIMEOUT_MS, in calls of Process
  Window,           \* CAL_RAW_WINDOW_SIZE
  Tokens            \* request tokens of the mailbox, zero excluded

Calibrations == [zero : Raws, span : Raws, mass : Masses]

ASSUME ValueAssumption ==
  /\ FactoryHardware \in Hardware
  /\ None \notin Hardware \cup Raws \cup Masses \cup Calibrations
ASSUME BoundAssumption ==
  /\ SessionMod \in Nat /\ SessionMod >= 3
  /\ Timeout \in Nat /\ Timeout >= 1
  /\ Window \in Nat /\ Window >= 1
  /\ 0 \notin Tokens

Sources == {"LOCAL", "MODBUS", "BLE"}
Nobody  == "NONE"

Configs  == [hw : Hardware, cal : Calibrations \cup {None}]
Defaults == [hw |-> FactoryHardware, cal |-> None]

VARIABLES
  config,     \* the configuration in force
  session,    \* s_state and s_working of config_edit.c; s_staged_config,
              \* s_config_owner and their validity flags
  cal,        \* s_calibration
  idle,       \* time since last_activity_ms
  staging,    \* s_staging of modbus_register_model.c
  lastToken,  \* response_token of the mailbox, 0 before the first
  persist,    \* the operation of PersistenceManager
  switching,  \* the target of WeighingProfileManager, None when idle
  resetRequested,
  editors,    \* history: who has written into the edit in progress
  sinceZero,  \* history: samples fed to the window since zero was captured
  measured    \* history: settings in force at the captures of the session

vars == <<config, session, cal, idle, staging, lastToken, persist, switching,
          resetRequested, editors, sinceZero, measured>>
calVars  == <<cal, idle, sinceZero, measured>>
editVars == <<session, editors, staging, lastToken>>

NoSession == [state |-> "IDLE", working |-> Defaults, staged |-> None,
              owner |-> Nobody]

NoCal(id, state) ==
  [active |-> FALSE, owner |-> Nobody, id |-> id, state |-> state, hw |-> None,
   zero |-> None, mass |-> None, window |-> 0, candidate |-> None]

CalStates == {"IDLE", "WAIT_ZERO_STABLE", "ZERO_READY", "ZERO_CAPTURED",
              "WAIT_LOAD_STABLE", "LOAD_READY", "RESULT_READY", "APPLIED"}

TypeOK ==
  /\ config \in Configs
  /\ session \in [state : {"IDLE", "ACTIVE", "VALIDATED", "ERROR"},
                  working : Configs, staged : Configs \cup {None},
                  owner : Sources \cup {Nobody}]
  /\ cal \in [active : BOOLEAN, owner : Sources \cup {Nobody},
              id : 0 .. SessionMod - 1, state : CalStates,
              hw : Hardware \cup {None}, zero : Raws \cup {None},
              mass : Masses \cup {None}, window : 0 .. Window,
              candidate : Calibrations \cup {None}]
  /\ cal.active => cal.id # 0
  /\ idle \in 0 .. Timeout
  /\ staging \in Hardware
  /\ lastToken \in Tokens \cup {0}
  /\ persist \in {"NONE", "SAVE", "FACTORY_RESET"}
  /\ switching \in Hardware \cup {None}
  /\ resetRequested \in BOOLEAN
  /\ editors \subseteq Sources
  /\ sinceZero \in 0 .. Window
  /\ measured \subseteq Hardware

-----------------------------------------------------------------------------
(* The configuration edit.                                                 *)

Busy == persist # "NONE" \/ switching # None

\* Mutant: the owner is released although its edit is still open.
MutCleared(s) ==
  IF s.owner \in {Nobody, "MODBUS"}
    THEN [s EXCEPT !.staged = None, !.owner = Nobody] ELSE s

\* CommandService_ClearStagedConfig
Cleared(s) ==
  IF s.owner \in {Nobody, "MODBUS"}
    THEN [s EXCEPT !.staged = None,
                   !.owner = IF s.state = "IDLE" THEN Nobody ELSE @]
    ELSE s

\* CommandService_SetStagedConfig
MayStage(s) == s.owner \in {Nobody, "MODBUS"}
Staged(s, c) == [s EXCEPT !.staged = c, !.owner = "MODBUS"]

Outcome(s, c) == [session |-> s, config |-> c]

\* CommandService_CommitConfig: the outcomes of a commit by the owner.
CommitOutcomes(s) ==
  LET applied(c) == Outcome(NoSession, c)
      after(e)   == Outcome([s EXCEPT !.state = e], config)
  IN  CASE s.staged # None        -> {applied(s.staged), Outcome(s, config)}
        [] s.staged = None /\ s.state = "ACTIVE" ->
             {applied(s.working), after("VALIDATED"), after("ERROR")}
        [] s.staged = None /\ s.state = "VALIDATED" ->
             {applied(s.working), Outcome(s, config)}
        [] OTHER -> {Outcome(s, config)}

\* CommandService_Execute of an edit command from src over the session s.
Outcomes(command, src, s) ==
  LET refused == {Outcome(s, config)}
      owns    == s.owner = src
  IN  CASE command = "BEGIN" ->
             IF Busy \/ cal.active \/ s.owner # Nobody \/ s.staged # None
                     \/ s.state # "IDLE"
               THEN refused
               ELSE {Outcome([s EXCEPT !.state = "ACTIVE", !.working = config,
                                       !.owner = src], config)}
        [] command = "VALIDATE" ->
             IF cal.active \/ ~owns \/ s.staged # None \/ s.state # "ACTIVE"
               THEN refused
               ELSE {Outcome([s EXCEPT !.state = e], config) :
                       e \in {"VALIDATED", "ERROR"}}
        [] command = "COMMIT" ->
             IF cal.active \/ ~owns THEN refused ELSE CommitOutcomes(s)
        [] command = "CANCEL" ->
             IF ~owns THEN refused ELSE {Outcome(NoSession, config)}

EditCommands == {"BEGIN", "VALIDATE", "COMMIT", "CANCEL"}

Take(outcome) ==
  /\ session' = outcome.session
  /\ config' = outcome.config
  /\ editors' = IF outcome.session.owner = session.owner THEN editors ELSE {}

\* A command of the local keys or of BLE.
EditCommand(command, src) ==
  /\ \E o \in Outcomes(command, src, session) : Take(o)
  /\ UNCHANGED <<calVars, staging, lastToken, persist, switching, resetRequested>>

\* Mutant: anyone may write into an open edit.
MutMaySet(src) == session.state \in {"ACTIVE", "ERROR"}

\* COMMAND_SET_CONFIG_FIELD and its siblings.
MaySet(src) == session.owner = src /\ session.state \in {"ACTIVE", "ERROR"}

SetField(src, hw) ==
  /\ ~cal.active /\ MaySet(src)
  /\ session' = [session EXCEPT !.state = "ACTIVE", !.working.hw = hw]
  /\ editors' = editors \cup {src}
  /\ UNCHANGED <<config, calVars, staging, lastToken, persist, switching,
                 resetRequested>>

\* A write into a staging register reserves the session for Modbus.
WriteStaging(hw) ==
  /\ ~cal.active
  /\ \/ session.owner = "MODBUS"
     \/ session.owner = Nobody /\ session.state = "IDLE"
  /\ session' = [session EXCEPT !.owner = "MODBUS"]
  /\ staging' = hw
  /\ editors' = {"MODBUS"}
  /\ UNCHANGED <<config, calVars, lastToken, persist, switching, resetRequested>>

\* The execute word of the mailbox for the commands 9 to 12: the register
\* model prepares the staging, then the mailbox runs the command unless the
\* token is that of the last response.
Prepared(command) ==
  IF command \in {"BEGIN", "CANCEL"}
    THEN Cleared(session)
    ELSE Staged(session, [hw |-> staging, cal |-> config.cal])

ModbusTrigger(command, token) ==
  /\ command \in {"VALIDATE", "COMMIT"} => MayStage(session)
  /\ staging' = IF command = "BEGIN" THEN config.hw ELSE staging
  /\ IF token = lastToken
       THEN Take(Outcome(Prepared(command), config))
       ELSE \E o \in Outcomes(command, "MODBUS", Prepared(command)) : Take(o)
  /\ lastToken' = token
  /\ UNCHANGED <<calVars, persist, switching, resetRequested>>

-----------------------------------------------------------------------------
(* The calibration.                                                        *)

\* Mutant: the session id wraps to zero.
MutCalibrationBegin(src) ==
  /\ ~Busy /\ ~cal.active
  /\ session.owner = Nobody /\ session.staged = None /\ session.state = "IDLE"
  /\ cal' = [NoCal((cal.id + 1) % SessionMod, "WAIT_ZERO_STABLE") EXCEPT
              !.active = TRUE, !.owner = src, !.hw = config.hw]
  /\ idle' = 0 /\ sinceZero' = 0 /\ measured' = {}
  /\ UNCHANGED <<config, editVars, persist, switching, resetRequested>>

CalibrationBegin(src) ==
  /\ ~Busy /\ ~cal.active
  /\ session.owner = Nobody /\ session.staged = None /\ session.state = "IDLE"
  /\ LET next == (cal.id + 1) % SessionMod
         id   == IF next = 0 THEN 1 ELSE next
     IN  cal' = [NoCal(id, "WAIT_ZERO_STABLE") EXCEPT
                   !.active = TRUE, !.owner = src, !.hw = config.hw]
  /\ idle' = 0 /\ sinceZero' = 0 /\ measured' = {}
  /\ UNCHANGED <<config, editVars, persist, switching, resetRequested>>

\* CommandService_RequireCalibrationOwner; id 0 means the id is not given.
CalibrationOwner(src, id) ==
  /\ cal.active /\ cal.owner = src
  /\ id = cal.id \/ (id = 0 /\ src # "BLE")

\* A command of the owner: it counts as activity whether it succeeds or not.
OwnerCommand(src, id) ==
  /\ CalibrationOwner(src, id)
  /\ idle' = 0
  /\ UNCHANGED <<editVars, persist, switching, resetRequested>>

\* Mutant: the settings are not compared again.
MutMatches == cal.active

Matches == config.hw = cal.hw     \* CommandService_CalibrationConfigMatches

\* Mutant: the window of the zero is kept for the load.
MutCaptureZero(src, id) ==
  /\ OwnerCommand(src, id)
  /\ Matches /\ cal.state = "ZERO_READY"
  /\ \E r \in Raws :
       cal' = [cal EXCEPT !.zero = r,
                          !.state = IF cal.mass = None THEN "ZERO_CAPTURED"
                                                       ELSE "WAIT_LOAD_STABLE"]
  /\ measured' = {config.hw}
  /\ sinceZero' = 0
  /\ UNCHANGED config

CaptureZero(src, id) ==
  /\ OwnerCommand(src, id)
  /\ IF Matches /\ cal.state = "ZERO_READY"
       THEN /\ \E r \in Raws :
                 cal' = [cal EXCEPT
                   !.zero = r,
                   !.state = IF cal.mass = None THEN "ZERO_CAPTURED"
                                                ELSE "WAIT_LOAD_STABLE",
                   !.window = IF cal.mass = None THEN @ ELSE 0]
            /\ measured' = {config.hw}
            /\ sinceZero' = 0
       ELSE UNCHANGED <<cal, measured, sinceZero>>
  /\ UNCHANGED config

\* Mutant: the mass may still be changed when the result is ready.
MutSetSpanMass(src, id, mass) ==
  /\ OwnerCommand(src, id)
  /\ cal' = [cal EXCEPT
       !.mass = mass,
       !.state = IF @ = "ZERO_CAPTURED" THEN "WAIT_LOAD_STABLE" ELSE @,
       !.window = IF cal.state = "ZERO_CAPTURED" THEN 0 ELSE @]
  /\ UNCHANGED <<config, measured, sinceZero>>

SetSpanMass(src, id, mass) ==
  /\ OwnerCommand(src, id)
  /\ IF Matches /\ cal.state # "RESULT_READY"
       THEN cal' = [cal EXCEPT
              !.mass = mass,
              !.state = IF @ = "ZERO_CAPTURED" THEN "WAIT_LOAD_STABLE" ELSE @,
              !.window = IF cal.state = "ZERO_CAPTURED" THEN 0 ELSE @]
       ELSE UNCHANGED cal
  /\ UNCHANGED <<config, measured, sinceZero>>

CaptureSpan(src, id) ==
  /\ OwnerCommand(src, id)
  /\ IF Matches /\ cal.state = "LOAD_READY"
       THEN \/ /\ \E r \in Raws \ {cal.zero} :
                    cal' = [cal EXCEPT
                      !.candidate = [zero |-> cal.zero, span |-> r,
                                     mass |-> cal.mass],
                      !.state = "RESULT_READY"]
               /\ measured' = measured \cup {config.hw}
            \/ UNCHANGED <<cal, measured>>   \* CalibrationModel_BuildMass refuses
       ELSE UNCHANGED <<cal, measured>>
  /\ UNCHANGED <<config, sinceZero>>

CalibrationCommit(src, id) ==
  /\ OwnerCommand(src, id)
  /\ \/ /\ cal.state = "RESULT_READY" /\ Matches
        /\ config' = [config EXCEPT !.cal = cal.candidate]
        /\ cal' = [cal EXCEPT !.active = FALSE, !.owner = Nobody,
                              !.state = "APPLIED"]
        /\ measured' = {} /\ sinceZero' = 0
     \/ UNCHANGED <<config, cal, measured, sinceZero>>   \* refused, not applied

\* CommandService_ResetCalibrationSession
EndCalibration ==
  /\ cal' = NoCal(cal.id, "IDLE")
  /\ measured' = {} /\ sinceZero' = 0

CalibrationCancel(src, id) ==
  /\ OwnerCommand(src, id)
  /\ EndCalibration
  /\ UNCHANGED config

\* The filtered reading enters the window; whether it is now stable is up to
\* the load, but never before the window is full.
Waiting == {"WAIT_ZERO_STABLE", "ZERO_READY", "WAIT_LOAD_STABLE", "LOAD_READY"}

NextWindow == IF cal.window < Window THEN cal.window + 1 ELSE Window

Sample ==
  IF cal.state \notin Waiting THEN UNCHANGED <<cal, sinceZero>>
  ELSE /\ \E stable \in IF NextWindow = Window THEN BOOLEAN ELSE {FALSE} :
            cal' = [cal EXCEPT
              !.window = NextWindow,
              !.state = IF @ \in {"WAIT_ZERO_STABLE", "ZERO_READY"}
                          THEN IF stable THEN "ZERO_READY"
                                         ELSE "WAIT_ZERO_STABLE"
                          ELSE IF stable THEN "LOAD_READY"
                                         ELSE "WAIT_LOAD_STABLE"]
       /\ sinceZero' = IF sinceZero < Window THEN sinceZero + 1 ELSE Window

\* Mutant: the session never expires.
MutProcess ==
  /\ cal.active
  /\ idle' = IF idle = Timeout THEN Timeout ELSE idle + 1
  /\ Sample \/ UNCHANGED <<cal, sinceZero>>
  /\ UNCHANGED <<config, editVars, persist, switching, resetRequested, measured>>

\* CommandService_Process
Process ==
  /\ cal.active
  /\ IF idle = Timeout
       THEN EndCalibration /\ idle' = 0
       ELSE /\ idle' = idle + 1
            /\ Sample \/ UNCHANGED <<cal, sinceZero>>   \* no new sample
            /\ UNCHANGED measured
  /\ UNCHANGED <<config, editVars, persist, switching, resetRequested>>

-----------------------------------------------------------------------------
(* The commands beside the sessions, and what they start.                  *)

SetDisplayUnit(hw) ==
  /\ ~Busy /\ ~cal.active /\ session.state = "IDLE"
  /\ config' = [config EXCEPT !.hw = hw]
  /\ UNCHANGED <<editVars, calVars, persist, switching, resetRequested>>

\* Mutant: a calibration in progress is not looked at.
MutSwitchProfile(hw) ==
  /\ session.state = "IDLE"
  /\ switching = None /\ hw # config.hw
  /\ switching' = hw
  /\ UNCHANGED <<config, editVars, calVars, persist, resetRequested>>

SwitchProfile(hw) ==
  /\ ~cal.active /\ session.state = "IDLE"
  /\ switching = None /\ hw # config.hw
  /\ switching' = hw
  /\ UNCHANGED <<config, editVars, calVars, persist, resetRequested>>

\* The profile switch ends: applied, or rolled back.
ProfileSwitched ==
  /\ switching # None
  /\ config' = [config EXCEPT !.hw = switching] \/ UNCHANGED config
  /\ switching' = None
  /\ UNCHANGED <<editVars, calVars, persist, resetRequested>>

RequestSave ==
  /\ ~Busy /\ session.state = "IDLE"
  /\ persist' = "SAVE"
  /\ UNCHANGED <<config, editVars, calVars, switching, resetRequested>>

FactoryResetRequest ==
  /\ persist = "NONE"
  /\ resetRequested' = TRUE
  /\ UNCHANGED <<config, editVars, calVars, persist, switching>>

FactoryResetConfirm ==
  /\ resetRequested
  /\ resetRequested' = FALSE
  /\ persist' = (IF persist = "NONE" THEN "FACTORY_RESET" ELSE persist)
       \/ UNCHANGED persist
  /\ UNCHANGED <<config, editVars, calVars, switching>>

FactoryResetCancel ==
  /\ resetRequested
  /\ resetRequested' = FALSE
  /\ UNCHANGED <<config, editVars, calVars, persist, switching>>

\* PersistenceManager_Process ends the operation; a reset that was committed
\* puts the defaults in force if they can be applied.
PersistenceDone ==
  /\ persist # "NONE"
  /\ \/ persist = "FACTORY_RESET" /\ config' = Defaults
     \/ UNCHANGED config
  /\ persist' = "NONE"
  /\ UNCHANGED <<editVars, calVars, switching, resetRequested>>

-----------------------------------------------------------------------------
Init ==
  /\ config \in [hw : Hardware, cal : {None}]
  /\ session = NoSession
  /\ cal = NoCal(0, "IDLE")
  /\ idle = 0
  /\ staging = config.hw /\ lastToken = 0
  /\ persist = "NONE" /\ switching = None
  /\ resetRequested = FALSE
  /\ editors = {} /\ sinceZero = 0 /\ measured = {}

Calibrate(src) ==
  \/ CalibrationBegin(src)
  \/ \E id \in 0 .. SessionMod - 1 :
       \/ CaptureZero(src, id)
       \/ \E mass \in Masses : SetSpanMass(src, id, mass)
       \/ CaptureSpan(src, id)
       \/ CalibrationCommit(src, id)
       \/ CalibrationCancel(src, id)

Next ==
  \/ \E src \in {"LOCAL", "BLE"} :
       \/ \E command \in EditCommands : EditCommand(command, src)
       \/ \E hw \in Hardware : SetField(src, hw)
  \/ \E hw \in Hardware : WriteStaging(hw)
  \/ \E command \in EditCommands, token \in Tokens : ModbusTrigger(command, token)
  \/ \E src \in Sources : Calibrate(src)
  \/ Process
  \/ \E hw \in Hardware : SetDisplayUnit(hw) \/ SwitchProfile(hw)
  \/ ProfileSwitched
  \/ RequestSave
  \/ FactoryResetRequest \/ FactoryResetConfirm \/ FactoryResetCancel
  \/ PersistenceDone

Spec == Init /\ [][Next]_vars

\* The 10 ms task of app_main.c calls CommandService_Process.
FairSpec == Spec /\ WF_vars(Process)

-----------------------------------------------------------------------------
(* Properties.                                                             *)

\* No edit is orphaned and no owner is left without something to end: an open
\* edit has an owner who can commit or cancel it, a staged configuration
\* belongs to Modbus, and the keys or BLE own the session only while their
\* edit is open.
SessionConsistent ==
  /\ session.state # "IDLE" => session.owner # Nobody
  /\ session.staged # None => session.owner = "MODBUS"
  /\ session.owner \in {"LOCAL", "BLE"} => session.state # "IDLE"

\* An edit in progress is never modified by a competing transport.
EditBelongsToOwner ==
  session.state # "IDLE" => editors \subseteq {session.owner}

\* While a calibration runs no edit is open and no profile switch is under
\* way: nothing but a factory reset can move the settings it is valid under.
CalibrationExcludesEdit ==
  cal.active => session.state = "IDLE" /\ switching = None

\* The result shown for confirmation is the one of the captured readings and
\* the mass on display, in whatever order they were entered.
ResultMatchesInputs ==
  cal.state = "RESULT_READY" =>
    /\ cal.candidate # None
    /\ cal.candidate.zero = cal.zero /\ cal.candidate.mass = cal.mass

\* The load is averaged over readings taken after the zero was captured.
LoadWindowIsFresh == cal.state = "LOAD_READY" => sinceZero >= Window

\* A calibration goes into force only with the settings both its readings
\* were taken under, and leaves the rest of the configuration alone.
CalibrationFitsConfig ==
  [][(cal.state = "RESULT_READY" /\ cal'.state = "APPLIED")
       => measured = {config'.hw} /\ config'.hw = config.hw]_vars

\* A calibration nobody attends to ends.
AbandonedCalibrationEnds == []<>(~cal.active \/ idle = 0)

\* STAGE5A_MASS_UNITS_PROFILES_REGISTER_MODEL.md: a repeated token returns the
\* cached response without repeating an action.  Only the execute word of the
\* mailbox stages a configuration, and a new token is recorded when it does.
RepeatedTokenStagesNothing ==
  [][(lastToken' = lastToken /\ session.staged = None)
       => session'.staged = None]_vars
=============================================================================
