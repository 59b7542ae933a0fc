------------------------ MODULE CommandSessionProofs ------------------------
(***************************************************************************)
(* The safety properties of CommandSession for any settings, readings,     *)
(* masses and tokens, any timeout and any length of the window.            *)
(***************************************************************************)
EXTENDS CommandSession, TLAPS

Sessions == [state : {"IDLE", "ACTIVE", "VALIDATED", "ERROR"},
             working : Configs, staged : Configs \cup {None},
             owner : Sources \cup {Nobody}]
CalSessions == [active : BOOLEAN, owner : Sources \cup {Nobody},
                id : 0 .. SessionMod - 1, state : CalStates,
                hw : Hardware \cup {None}, zero : Raws \cup {None},
                mass : Masses \cup {None}, window : 0 .. Window,
                candidate : Calibrations \cup {None}]

\* SessionConsistent of any session: the commands of Modbus prepare one first.
Consistent(s) ==
  /\ s.state # "IDLE" => s.owner # Nobody
  /\ s.staged # None => s.owner = "MODBUS"
  /\ s.owner \in {"LOCAL", "BLE"} => s.state # "IDLE"

\* Only the owner has written, also before the edit is open.
EditInv ==
  /\ config \in Configs /\ session \in Sessions
  /\ staging \in Hardware /\ lastToken \in Tokens \cup {0}
  /\ Consistent(session)
  /\ editors \subseteq Sources /\ editors \subseteq {session.owner}

CalTypes ==
  /\ cal \in CalSessions
  /\ cal.active => cal.id # 0
  /\ idle \in 0 .. Timeout /\ sinceZero \in 0 .. Window
  /\ measured \subseteq Hardware

\* From the capture of the zero on there is a zero, taken under the settings of
\* the session; the load is only waited for when there is a mass as well.
InputsCaptured ==
  /\ cal.state \in {"ZERO_CAPTURED", "WAIT_LOAD_STABLE", "LOAD_READY", "RESULT_READY"}
       => cal.zero # None /\ measured = {cal.hw}
  /\ cal.state \in {"WAIT_LOAD_STABLE", "LOAD_READY"} => cal.mass # None

\* The window of the load holds no sample from before the zero.
WindowAfterZero ==
  cal.state \in {"WAIT_LOAD_STABLE", "LOAD_READY"} => cal.window =< sinceZero

CalInv ==
  CalTypes /\ InputsCaptured /\ WindowAfterZero /\ ResultMatchesInputs /\ LoadWindowIsFresh

RestTypes ==
  /\ persist \in {"NONE", "SAVE", "FACTORY_RESET"}
  /\ switching \in Hardware \cup {None} /\ resetRequested \in BOOLEAN

IInv == EditInv /\ CalInv /\ RestTypes /\ CalibrationExcludesEdit

-----------------------------------------------------------------------------
(* The configuration edit.                                                 *)

LEMMA DefaultsConfig == Defaults \in Configs /\ NoSession \in Sessions /\ Consistent(NoSession)
BY ValueAssumption DEF Defaults, Configs, NoSession, Sessions, Consistent, Nobody, Sources

\* Whatever a command makes of a consistent session is consistent, and none
\* opens an edit during a calibration.
LEMMA OutcomesConsistent ==
  ASSUME config \in Configs, NEW s \in Sessions, Consistent(s),
         NEW command \in EditCommands, NEW src \in Sources,
         NEW o \in Outcomes(command, src, s)
  PROVE  /\ o.session \in Sessions /\ Consistent(o.session) /\ o.config \in Configs
         /\ cal.active /\ s.state = "IDLE" => o.session.state = "IDLE"
<1> DEFINE Good(x) == /\ x.session \in Sessions /\ Consistent(x.session)
                      /\ x.config \in Configs
                      /\ cal.active /\ s.state = "IDLE" => x.session.state = "IDLE"
<1>1. Good(Outcome(s, config))
  BY DEF Outcome
<1>2. ASSUME NEW c \in Configs PROVE Good(Outcome(NoSession, c))
  BY <1>2, DefaultsConfig DEF Outcome, NoSession
<1>3. src # Nobody
  BY DEF Sources, Nobody
<1>4. ASSUME ~cal.active, s.owner = src,
             NEW e \in {"ACTIVE", "VALIDATED", "ERROR"}
      PROVE  Good(Outcome([s EXCEPT !.state = e], config))
  BY <1>3, <1>4 DEF Outcome, Sessions, Consistent
<1>5. CASE command = "BEGIN"
  <2>1. CASE o = Outcome(s, config)
    BY <1>1, <2>1
  <2>2. CASE /\ ~cal.active /\ s.staged = None
             /\ o = Outcome([s EXCEPT !.state = "ACTIVE", !.working = config,
                                      !.owner = src], config)
    BY <1>3, <2>2 DEF Outcome, Sessions, Consistent
  <2> QED
    BY <1>5, <2>1, <2>2 DEF Outcomes
<1>6. CASE command = "VALIDATE"
  <2>1. CASE o = Outcome(s, config)
    BY <1>1, <2>1
  <2>2. CASE /\ ~cal.active /\ s.owner = src
             /\ \E e \in {"VALIDATED", "ERROR"} : o = Outcome([s EXCEPT !.state = e], config)
    BY <1>4, <2>2
  <2> QED
    BY <1>6, <2>1, <2>2 DEF Outcomes
<1>7. CASE command = "COMMIT"
  <2>1. CASE o = Outcome(s, config)
    BY <1>1, <2>1
  <2>2. CASE s.staged # None /\ o = Outcome(NoSession, s.staged)
    BY <1>2, <2>2 DEF Sessions
  <2>3. CASE o = Outcome(NoSession, s.working)
    BY <1>2, <2>3 DEF Sessions
  <2>4. CASE /\ ~cal.active /\ s.owner = src
             /\ \E e \in {"VALIDATED", "ERROR"} : o = Outcome([s EXCEPT !.state = e], config)
    BY <1>4, <2>4
  <2> QED
    BY <1>7, <2>1, <2>2, <2>3, <2>4 DEF Outcomes, CommitOutcomes
<1>8. CASE command = "CANCEL"
  BY <1>1, <1>2, <1>8 DEF Outcomes
<1> QED
  BY <1>5, <1>6, <1>7, <1>8 DEF EditCommands

\* A session taken from such an outcome keeps the invariant of the edit.
LEMMA TakeKeeps ==
  ASSUME EditInv, CalibrationExcludesEdit, UNCHANGED <<calVars, switching>>,
         staging' \in Hardware, lastToken' \in Tokens \cup {0},
         NEW o, Take(o), o.session \in Sessions, Consistent(o.session),
         o.config \in Configs, cal.active => o.session.state = "IDLE"
  PROVE  EditInv' /\ CalibrationExcludesEdit'
<1>1. session' = o.session /\ config' = o.config
      /\ editors' = IF o.session.owner = session.owner THEN editors ELSE {}
  BY DEF Take
<1>2. EditInv'
  BY <1>1 DEF EditInv, Consistent
<1>3. CalibrationExcludesEdit'
  BY <1>1 DEF CalibrationExcludesEdit, calVars
<1> QED
  BY <1>2, <1>3

LEMMA PreparedConsistent ==
  ASSUME EditInv, NEW command \in EditCommands,
         command \in {"VALIDATE", "COMMIT"} => MayStage(session)
  PROVE  /\ Prepared(command) \in Sessions /\ Consistent(Prepared(command))
         /\ Prepared(command).state = session.state
<1>1. CASE command \in {"BEGIN", "CANCEL"}
  <2>1. Prepared(command) = Cleared(session)
    BY <1>1 DEF Prepared
  <2> QED
    BY <2>1 DEF EditInv, Cleared, Sessions, Consistent, Nobody
<1>2. CASE command \notin {"BEGIN", "CANCEL"}
  <2>1. /\ Prepared(command) = Staged(session, [hw |-> staging, cal |-> config.cal])
        /\ MayStage(session)
    BY <1>2 DEF Prepared, EditCommands
  <2>2. [hw |-> staging, cal |-> config.cal] \in Configs
    BY DEF EditInv, Configs
  <2> QED
    BY <2>1, <2>2 DEF EditInv, Staged, MayStage, Sessions, Consistent, Nobody, Sources
<1> QED
  BY <1>1, <1>2

LEMMA EditKeeps ==
  ASSUME IInv, NEW src \in {"LOCAL", "BLE"}, NEW command \in EditCommands,
         EditCommand(command, src)
  PROVE  EditInv' /\ CalibrationExcludesEdit'
<1>1. PICK o \in Outcomes(command, src, session) : Take(o)
  BY DEF EditCommand
<1>2. src \in Sources
  BY DEF Sources
<1>3. /\ o.session \in Sessions /\ Consistent(o.session) /\ o.config \in Configs
      /\ cal.active /\ session.state = "IDLE" => o.session.state = "IDLE"
  BY <1>1, <1>2, OutcomesConsistent DEF IInv, EditInv
<1> QED
  BY <1>1, <1>3, TakeKeeps DEF IInv, EditCommand, EditInv, CalibrationExcludesEdit

LEMMA TriggerKeeps ==
  ASSUME IInv, NEW command \in EditCommands, NEW token \in Tokens,
         ModbusTrigger(command, token)
  PROVE  EditInv' /\ CalibrationExcludesEdit'
<1>1. /\ Prepared(command) \in Sessions /\ Consistent(Prepared(command))
      /\ Prepared(command).state = session.state
  BY PreparedConsistent DEF IInv, ModbusTrigger
<1>2. /\ UNCHANGED <<calVars, switching>>
      /\ staging' \in Hardware /\ lastToken' \in Tokens \cup {0}
  BY DEF ModbusTrigger, IInv, EditInv, Configs
<1>3. cal.active => session.state = "IDLE"
  BY DEF IInv, CalibrationExcludesEdit
<1>4. CASE token = lastToken
  <2> DEFINE o == Outcome(Prepared(command), config)
  <2>1. Take(o) /\ o.session = Prepared(command) /\ o.config = config
    BY <1>4 DEF ModbusTrigger, Outcome
  <2> HIDE DEF o
  <2> QED
    BY <1>1, <1>2, <1>3, <2>1, TakeKeeps DEF IInv, EditInv
<1>5. CASE token # lastToken
  <2>1. PICK o \in Outcomes(command, "MODBUS", Prepared(command)) : Take(o)
    BY <1>5 DEF ModbusTrigger
  <2>2. /\ o.session \in Sessions /\ Consistent(o.session) /\ o.config \in Configs
        /\ cal.active /\ Prepared(command).state = "IDLE" => o.session.state = "IDLE"
    BY <1>1, <2>1, OutcomesConsistent DEF IInv, EditInv, Sources
  <2> QED
    BY <1>1, <1>2, <1>3, <2>1, <2>2, TakeKeeps DEF IInv
<1> QED
  BY <1>4, <1>5

LEMMA SetFieldKeeps ==
  ASSUME IInv, NEW src \in {"LOCAL", "BLE"}, NEW hw \in Hardware, SetField(src, hw)
  PROVE  EditInv' /\ CalibrationExcludesEdit'
<1>1. /\ ~cal.active /\ session.owner = src /\ session.state \in {"ACTIVE", "ERROR"}
      /\ session' = [session EXCEPT !.state = "ACTIVE", !.working.hw = hw]
      /\ editors' = editors \cup {src}
      /\ UNCHANGED <<config, cal, staging, lastToken>>
  BY DEF SetField, MaySet, calVars
<1>2. session' = [session EXCEPT !.state = "ACTIVE",
                                 !.working = [session.working EXCEPT !.hw = hw]]
  BY <1>1 DEF IInv, EditInv, Sessions
<1>3. [session.working EXCEPT !.hw = hw] \in Configs
  BY DEF IInv, EditInv, Sessions, Configs
<1>4. session' \in Sessions /\ session'.owner = src
      /\ session'.state = "ACTIVE" /\ session'.staged = session.staged
  BY <1>1, <1>2, <1>3 DEF IInv, EditInv, Sessions
<1>5. EditInv'
  BY <1>1, <1>4 DEF IInv, EditInv, Consistent, Sources, Nobody
<1>6. CalibrationExcludesEdit'
  BY <1>1 DEF CalibrationExcludesEdit
<1> QED
  BY <1>5, <1>6

LEMMA WriteStagingKeeps ==
  ASSUME IInv, NEW hw \in Hardware, WriteStaging(hw)
  PROVE  EditInv' /\ CalibrationExcludesEdit'
<1>1. /\ ~cal.active
      /\ session' = [session EXCEPT !.owner = "MODBUS"]
      /\ staging' = hw /\ editors' = {"MODBUS"}
      /\ UNCHANGED <<config, cal, lastToken>>
  BY DEF WriteStaging, calVars
<1>2. session' \in Sessions /\ Consistent(session') /\ session'.owner = "MODBUS"
  BY <1>1 DEF IInv, EditInv, Sessions, Consistent, Sources, Nobody
<1>3. EditInv'
  BY <1>1, <1>2 DEF IInv, EditInv, Sources, Consistent
<1>4. CalibrationExcludesEdit'
  BY <1>1 DEF CalibrationExcludesEdit
<1> QED
  BY <1>3, <1>4

-----------------------------------------------------------------------------
(* The calibration.                                                        *)

LEMMA Bounds ==
  /\ SessionMod \in Nat /\ SessionMod >= 3
  /\ Timeout \in Nat /\ Timeout >= 1 /\ Window \in Nat /\ Window >= 1
BY BoundAssumption

\* A session that has begun, ended or expired.
LEMMA FreshCal ==
  ASSUME NEW id \in 0 .. SessionMod - 1, NEW state \in {"IDLE", "WAIT_ZERO_STABLE"}
  PROVE  /\ NoCal(id, state) \in CalSessions
         /\ NoCal(id, state).state = state /\ ~NoCal(id, state).active
BY Bounds DEF NoCal, CalSessions, CalStates, Nobody

LEMMA BeginKeeps ==
  ASSUME IInv, NEW src \in Sources, CalibrationBegin(src)
  PROVE  CalInv' /\ CalibrationExcludesEdit'
<1>1. PICK id \in 0 .. SessionMod - 1 :
        id # 0 /\ cal' = [NoCal(id, "WAIT_ZERO_STABLE") EXCEPT
                            !.active = TRUE, !.owner = src, !.hw = config.hw]
  <2>1. cal.id \in 0 .. SessionMod - 1
    BY DEF IInv, CalInv, CalTypes, CalSessions
  <2>2. (cal.id + 1) % SessionMod \in 0 .. SessionMod - 1 /\ 1 \in 0 .. SessionMod - 1
    BY <2>1, Bounds
  <2> DEFINE next == (cal.id + 1) % SessionMod
             id == IF next = 0 THEN 1 ELSE next
  <2>3. id \in 0 .. SessionMod - 1 /\ id # 0
    BY <2>2
  <2>4. cal' = [NoCal(id, "WAIT_ZERO_STABLE") EXCEPT
                  !.active = TRUE, !.owner = src, !.hw = config.hw]
    BY Zenon DEF CalibrationBegin
  <2> HIDE DEF id
  <2> QED
    BY <2>3, <2>4
<1>2. config.hw \in Hardware
  BY DEF IInv, EditInv, Configs
<1>3. cal' \in CalSessions /\ cal'.id # 0 /\ cal'.state = "WAIT_ZERO_STABLE"
  <2>1. cal' = [active |-> TRUE, owner |-> src, id |-> id, state |-> "WAIT_ZERO_STABLE",
                hw |-> config.hw, zero |-> None, mass |-> None, window |-> 0,
                candidate |-> None]
    BY <1>1 DEF NoCal
  <2>2. "WAIT_ZERO_STABLE" \in CalStates /\ 0 \in 0 .. Window
    BY Bounds DEF CalStates
  <2>3. cal' \in CalSessions
    BY <1>2, <2>1, <2>2 DEF CalSessions
  <2>4. id # 0
    BY <1>1, Zenon
  <2> QED
    BY <2>1, <2>3, <2>4
<1>4. idle' = 0 /\ sinceZero' = 0 /\ measured' = {}
  BY DEF CalibrationBegin
<1>5. CalInv'
  BY <1>3, <1>4, Bounds DEF CalInv, CalTypes, InputsCaptured, WindowAfterZero,
     ResultMatchesInputs, LoadWindowIsFresh
<1>6. CalibrationExcludesEdit'
  BY DEF CalibrationBegin, Busy, editVars, CalibrationExcludesEdit
<1> QED
  BY <1>5, <1>6

LEMMA EndKeeps ==
  ASSUME CalInv, EndCalibration, idle' = 0
  PROVE  CalInv' /\ ~cal'.active
<1>1. cal.id \in 0 .. SessionMod - 1
  BY DEF CalInv, CalTypes, CalSessions
<1>2. cal' \in CalSessions /\ cal'.state = "IDLE" /\ ~cal'.active
  BY <1>1, FreshCal DEF EndCalibration
<1>3. measured' = {} /\ sinceZero' = 0
  BY DEF EndCalibration
<1> QED
  BY <1>2, <1>3, Bounds DEF CalInv, CalTypes, InputsCaptured, WindowAfterZero,
     ResultMatchesInputs, LoadWindowIsFresh

\* A command that is refused counts as activity.
LEMMA RefusedKeeps ==
  ASSUME CalInv, UNCHANGED <<cal, sinceZero, measured>>, idle' = 0
  PROVE  CalInv'
BY Bounds DEF CalInv, CalTypes, InputsCaptured, WindowAfterZero, ResultMatchesInputs,
   LoadWindowIsFresh

LEMMA CaptureZeroKeeps ==
  ASSUME IInv, NEW src \in Sources, NEW id \in 0 .. SessionMod - 1, CaptureZero(src, id)
  PROVE  CalInv' /\ cal'.active = cal.active
<1>1. CASE ~(Matches /\ cal.state = "ZERO_READY")
  BY <1>1, RefusedKeeps DEF CaptureZero, OwnerCommand, IInv
<1>2. CASE Matches /\ cal.state = "ZERO_READY"
  <2>1. PICK r \in Raws :
          cal' = [cal EXCEPT !.zero = r,
                    !.state = IF cal.mass = None THEN "ZERO_CAPTURED" ELSE "WAIT_LOAD_STABLE",
                    !.window = IF cal.mass = None THEN @ ELSE 0]
    BY <1>2 DEF CaptureZero
  <2>2. measured' = {config.hw} /\ sinceZero' = 0 /\ idle' = 0 /\ config.hw = cal.hw
    BY <1>2 DEF CaptureZero, OwnerCommand, Matches
  <2>3. config.hw \in Hardware
    BY DEF IInv, EditInv, Configs
  <2>4. CalTypes'
    <3> DEFINE state == IF cal.mass = None THEN "ZERO_CAPTURED" ELSE "WAIT_LOAD_STABLE"
               window == IF cal.mass = None THEN cal.window ELSE 0
    <3>1. cal \in CalSessions /\ (cal.active => cal.id # 0)
      BY DEF IInv, CalInv, CalTypes
    <3>2. state \in CalStates /\ window \in 0 .. Window
      BY <3>1, Bounds DEF CalSessions, CalStates
    <3>3. cal' = [cal EXCEPT !.zero = r, !.state = state, !.window = window]
      BY <2>1, <3>1 DEF CalSessions
    <3> HIDE DEF state, window
    <3>4. cal' \in CalSessions /\ cal'.id = cal.id /\ cal'.active = cal.active
      BY <3>1, <3>2, <3>3 DEF CalSessions
    <3> QED
      BY <2>2, <2>3, <3>1, <3>4, Bounds DEF CalTypes
  <2>5. InputsCaptured' /\ WindowAfterZero' /\ ResultMatchesInputs' /\ LoadWindowIsFresh'
    BY <2>1, <2>2, ValueAssumption DEF IInv, CalInv, CalTypes, CalSessions, InputsCaptured,
       WindowAfterZero, ResultMatchesInputs, LoadWindowIsFresh
  <2>6. cal'.active = cal.active
    BY <2>1 DEF IInv, CalInv, CalTypes, CalSessions
  <2> QED
    BY <2>4, <2>5, <2>6 DEF CalInv
<1> QED
  BY <1>1, <1>2 DEF CaptureZero

LEMMA SetSpanMassKeeps ==
  ASSUME IInv, NEW src \in Sources, NEW id \in 0 .. SessionMod - 1, NEW mass \in Masses,
         SetSpanMass(src, id, mass)
  PROVE  CalInv' /\ cal'.active = cal.active
<1>1. CASE ~(Matches /\ cal.state # "RESULT_READY")
  BY <1>1, RefusedKeeps DEF SetSpanMass, OwnerCommand, IInv
<1>2. CASE Matches /\ cal.state # "RESULT_READY"
  <2>1. /\ cal' = [cal EXCEPT
              !.mass = mass,
              !.state = IF @ = "ZERO_CAPTURED" THEN "WAIT_LOAD_STABLE" ELSE @,
              !.window = IF cal.state = "ZERO_CAPTURED" THEN 0 ELSE @]
        /\ idle' = 0 /\ UNCHANGED <<measured, sinceZero>>
    BY <1>2 DEF SetSpanMass, OwnerCommand
  <2>2. CalTypes'
    <3> DEFINE state == IF cal.state = "ZERO_CAPTURED" THEN "WAIT_LOAD_STABLE" ELSE cal.state
               window == IF cal.state = "ZERO_CAPTURED" THEN 0 ELSE cal.window
    <3>1. cal \in CalSessions /\ (cal.active => cal.id # 0)
      BY DEF IInv, CalInv, CalTypes
    <3>2. state \in CalStates /\ window \in 0 .. Window
      BY <3>1, Bounds DEF CalSessions, CalStates
    <3>3. cal' = [cal EXCEPT !.mass = mass, !.state = state, !.window = window]
      BY <2>1, <3>1 DEF CalSessions
    <3> HIDE DEF state, window
    <3>4. cal' \in CalSessions /\ cal'.id = cal.id /\ cal'.active = cal.active
      BY <3>1, <3>2, <3>3 DEF CalSessions
    <3> QED
      BY <2>1, <3>1, <3>4, Bounds DEF IInv, CalInv, CalTypes
  <2>3. InputsCaptured' /\ WindowAfterZero' /\ ResultMatchesInputs' /\ LoadWindowIsFresh'
    BY <1>2, <2>1, ValueAssumption, Bounds DEF IInv, CalInv, CalTypes, CalSessions,
       InputsCaptured, WindowAfterZero, ResultMatchesInputs, LoadWindowIsFresh
  <2>4. cal'.active = cal.active
    BY <2>1 DEF IInv, CalInv, CalTypes, CalSessions
  <2> QED
    BY <2>2, <2>3, <2>4 DEF CalInv
<1> QED
  BY <1>1, <1>2

LEMMA CaptureSpanKeeps ==
  ASSUME IInv, NEW src \in Sources, NEW id \in 0 .. SessionMod - 1, CaptureSpan(src, id)
  PROVE  CalInv' /\ cal'.active = cal.active
<1>1. idle' = 0 /\ sinceZero' = sinceZero
  BY DEF CaptureSpan, OwnerCommand
<1>2. CASE UNCHANGED <<cal, measured>>
  BY <1>1, <1>2, RefusedKeeps DEF IInv
<1>3. CASE ~UNCHANGED <<cal, measured>>
  <2>1. Matches /\ cal.state = "LOAD_READY"
    BY <1>3 DEF CaptureSpan
  <2>2. PICK r \in Raws :
          /\ cal' = [cal EXCEPT
                !.candidate = [zero |-> cal.zero, span |-> r, mass |-> cal.mass],
                !.state = "RESULT_READY"]
          /\ measured' = measured \cup {config.hw}
    BY <1>3, <2>1 DEF CaptureSpan
  <2>3. cal.zero \in Raws /\ cal.mass \in Masses /\ measured = {config.hw}
    BY <2>1 DEF IInv, CalInv, CalTypes, CalSessions, InputsCaptured, Matches
  <2>4. [zero |-> cal.zero, span |-> r, mass |-> cal.mass] \in Calibrations
    BY <2>3 DEF Calibrations
  <2> DEFINE candidate == [zero |-> cal.zero, span |-> r, mass |-> cal.mass]
  <2>5. CalTypes'
    <3>1. cal \in CalSessions /\ (cal.active => cal.id # 0)
      BY DEF IInv, CalInv, CalTypes
    <3>2. "RESULT_READY" \in CalStates /\ candidate \in Calibrations
      BY <2>4 DEF CalStates
    <3>3. cal' = [cal EXCEPT !.candidate = candidate, !.state = "RESULT_READY"]
      BY <2>2
    <3> HIDE DEF candidate
    <3>4. cal' \in CalSessions /\ cal'.id = cal.id /\ cal'.active = cal.active
      BY <3>1, <3>2, <3>3 DEF CalSessions
    <3>5. config.hw \in Hardware
      BY DEF IInv, EditInv, Configs
    <3> QED
      BY <1>1, <2>2, <3>1, <3>4, <3>5, Bounds DEF IInv, CalInv, CalTypes
  <2>6. cal'.candidate # None
    <3>1. cal'.candidate = candidate
      BY <2>2 DEF IInv, CalInv, CalTypes, CalSessions
    <3>2. candidate # None
      BY <2>4, ValueAssumption DEF Calibrations
    <3> QED
      BY <3>1, <3>2
  <2>7. InputsCaptured' /\ WindowAfterZero' /\ LoadWindowIsFresh' /\ ResultMatchesInputs'
    BY <1>1, <2>1, <2>2, <2>3, <2>6 DEF IInv, CalInv, CalTypes, CalSessions,
       InputsCaptured, WindowAfterZero, LoadWindowIsFresh, ResultMatchesInputs
  <2>8. cal'.active = cal.active
    BY <2>2 DEF IInv, CalInv, CalTypes, CalSessions
  <2> QED
    BY <2>5, <2>7, <2>8 DEF CalInv
<1> QED
  BY <1>2, <1>3

LEMMA CommitKeeps ==
  ASSUME IInv, NEW src \in Sources, NEW id \in 0 .. SessionMod - 1,
         CalibrationCommit(src, id)
  PROVE  CalInv' /\ config' \in Configs /\ (cal'.active => cal.active)
<1>1. CASE UNCHANGED <<config, cal, measured, sinceZero>>
  BY <1>1, RefusedKeeps DEF CalibrationCommit, OwnerCommand, IInv, EditInv
<1>2. CASE ~UNCHANGED <<config, cal, measured, sinceZero>>
  <2>1. /\ cal.state = "RESULT_READY" /\ idle' = 0
        /\ config' = [config EXCEPT !.cal = cal.candidate]
        /\ cal' = [cal EXCEPT !.active = FALSE, !.owner = Nobody, !.state = "APPLIED"]
        /\ measured' = {} /\ sinceZero' = 0
    BY <1>2 DEF CalibrationCommit, OwnerCommand
  <2>2. config' \in Configs
    BY <2>1 DEF IInv, EditInv, Configs, CalInv, CalTypes, CalSessions
  <2>3. CalTypes' /\ cal'.state = "APPLIED" /\ ~cal'.active
    <3>1. cal \in CalSessions
      BY DEF IInv, CalInv, CalTypes
    <3>2. "APPLIED" \in CalStates /\ Nobody \in Sources \cup {Nobody}
      BY DEF CalStates
    <3>3. cal' \in CalSessions /\ cal'.state = "APPLIED" /\ ~cal'.active
      BY <2>1, <3>1, <3>2 DEF CalSessions
    <3> QED
      BY <2>1, <3>3, Bounds DEF CalTypes
  <2>4. CalInv'
    BY <2>3 DEF CalInv, InputsCaptured, WindowAfterZero, ResultMatchesInputs,
       LoadWindowIsFresh
  <2> QED
    BY <2>2, <2>3, <2>4
<1> QED
  BY <1>1, <1>2

LEMMA SampleKeeps ==
  ASSUME CalInv, Sample, idle' \in 0 .. Timeout, UNCHANGED measured
  PROVE  CalInv' /\ cal'.active = cal.active
<1>1. CASE UNCHANGED <<cal, sinceZero>>
  BY <1>1 DEF CalInv, CalTypes, InputsCaptured, WindowAfterZero, ResultMatchesInputs,
     LoadWindowIsFresh
<1>2. CASE ~UNCHANGED <<cal, sinceZero>>
  <2>1. cal.state \in Waiting
    BY <1>2 DEF Sample
  <2>2. PICK stable \in IF NextWindow = Window THEN BOOLEAN ELSE {FALSE} :
          cal' = [cal EXCEPT
            !.window = NextWindow,
            !.state = IF @ \in {"WAIT_ZERO_STABLE", "ZERO_READY"}
                        THEN IF stable THEN "ZERO_READY" ELSE "WAIT_ZERO_STABLE"
                        ELSE IF stable THEN "LOAD_READY" ELSE "WAIT_LOAD_STABLE"]
    BY <1>2 DEF Sample
  <2>3. sinceZero' = IF sinceZero < Window THEN sinceZero + 1 ELSE Window
    BY <1>2 DEF Sample
  <2>4. /\ cal.window \in 0 .. Window /\ NextWindow \in 0 .. Window
        /\ sinceZero \in 0 .. Window /\ sinceZero' \in 0 .. Window
        /\ cal.window =< sinceZero => NextWindow =< sinceZero'
    BY <2>3, Bounds DEF CalInv, CalTypes, CalSessions, NextWindow
  <2>5. stable => NextWindow = Window
    BY <2>2
  <2> HIDE DEF NextWindow
  <2>6. /\ cal'.window = NextWindow /\ cal'.zero = cal.zero /\ cal'.mass = cal.mass
        /\ cal'.hw = cal.hw /\ cal'.active = cal.active /\ cal'.id = cal.id
        /\ cal'.candidate = cal.candidate /\ cal' \in CalSessions
    <3> DEFINE state == IF cal.state \in {"WAIT_ZERO_STABLE", "ZERO_READY"}
                        THEN IF stable THEN "ZERO_READY" ELSE "WAIT_ZERO_STABLE"
                        ELSE IF stable THEN "LOAD_READY" ELSE "WAIT_LOAD_STABLE"
    <3>1. cal \in CalSessions
      BY DEF CalInv, CalTypes
    <3>2. state \in CalStates
      BY DEF CalStates
    <3>3. cal' = [cal EXCEPT !.window = NextWindow, !.state = state]
      BY <2>2, <3>1 DEF CalSessions
    <3> HIDE DEF state
    <3> QED
      BY <2>4, <3>1, <3>2, <3>3 DEF CalSessions
  <2>7. CASE cal.state \in {"WAIT_ZERO_STABLE", "ZERO_READY"}
    <3>1. cal'.state \in {"WAIT_ZERO_STABLE", "ZERO_READY"}
      BY <2>2, <2>7 DEF CalInv, CalTypes, CalSessions
    <3> QED
      BY <2>4, <2>6, <3>1 DEF CalInv, CalTypes, InputsCaptured, WindowAfterZero,
         ResultMatchesInputs, LoadWindowIsFresh
  <2>8. CASE cal.state \in {"WAIT_LOAD_STABLE", "LOAD_READY"}
    <3>1. /\ cal'.state \in {"WAIT_LOAD_STABLE", "LOAD_READY"}
          /\ cal'.state = "LOAD_READY" => NextWindow = Window
      BY <2>2, <2>5, <2>8 DEF CalInv, CalTypes, CalSessions
    <3>2. cal.window =< sinceZero /\ cal.zero # None /\ cal.mass # None
          /\ measured = {cal.hw}
      BY <2>8 DEF CalInv, InputsCaptured, WindowAfterZero
    <3>3. cal'.state = "LOAD_READY" => sinceZero' >= Window
      BY <2>4, <3>1, <3>2, Bounds
    <3> QED
      BY <2>4, <2>6, <3>1, <3>2, <3>3 DEF CalInv, CalTypes, InputsCaptured,
         WindowAfterZero, ResultMatchesInputs, LoadWindowIsFresh
  <2> QED
    BY <2>1, <2>7, <2>8 DEF Waiting
<1> QED
  BY <1>1, <1>2

LEMMA ProcessKeeps ==
  ASSUME IInv, Process
  PROVE  CalInv' /\ (cal'.active => cal.active)
<1>1. CASE idle = Timeout
  BY <1>1, EndKeeps DEF Process, IInv
<1>2. CASE idle # Timeout
  <2>1. idle' \in 0 .. Timeout /\ UNCHANGED measured
    BY <1>2, Bounds DEF Process, IInv, CalInv, CalTypes
  <2>2. CASE Sample
    BY <2>1, <2>2, SampleKeeps DEF IInv
  <2>3. CASE UNCHANGED <<cal, sinceZero>>
    BY <2>1, <2>3 DEF IInv, CalInv, CalTypes, InputsCaptured, WindowAfterZero,
       ResultMatchesInputs, LoadWindowIsFresh
  <2> QED
    BY <1>2, <2>2, <2>3 DEF Process
<1> QED
  BY <1>1, <1>2

-----------------------------------------------------------------------------
(* The invariant holds at start and is kept by every step.                 *)

LEMMA InitInvariant == Init => IInv
<1> SUFFICES ASSUME Init PROVE IInv
  OBVIOUS
<1>1. EditInv
  BY DefaultsConfig DEF Init, EditInv, Configs, NoSession
<1>2. 0 \in 0 .. SessionMod - 1
  BY Bounds
<1>3. CalInv
  BY <1>2, FreshCal, Bounds DEF Init, CalInv, CalTypes, InputsCaptured, WindowAfterZero,
     ResultMatchesInputs, LoadWindowIsFresh
<1>4. RestTypes /\ CalibrationExcludesEdit
  BY DEF Init, RestTypes, CalibrationExcludesEdit, NoCal
<1> QED
  BY <1>1, <1>3, <1>4 DEF IInv

\* The parts of the invariant that a step leaves alone.
LEMMA CalUnchanged ==
  ASSUME CalInv, UNCHANGED calVars
  PROVE  CalInv'
BY DEF calVars, CalInv, CalTypes, InputsCaptured, WindowAfterZero, ResultMatchesInputs,
   LoadWindowIsFresh

LEMMA EditUnchanged ==
  ASSUME EditInv, UNCHANGED editVars, config' \in Configs
  PROVE  EditInv'
BY DEF editVars, EditInv, Consistent

LEMMA EditStep ==
  ASSUME IInv, UNCHANGED <<calVars, persist, switching, resetRequested>>,
         EditInv' /\ CalibrationExcludesEdit'
  PROVE  IInv'
BY CalUnchanged DEF IInv, RestTypes

LEMMA CalibrateStep ==
  ASSUME IInv, UNCHANGED <<editVars, persist, switching, resetRequested>>,
         config' \in Configs, CalInv', CalibrationExcludesEdit'
  PROVE  IInv'
BY EditUnchanged DEF IInv, RestTypes

LEMMA CalibrateKeeps ==
  ASSUME IInv, NEW src \in Sources, Calibrate(src)
  PROVE  IInv'
<1>1. config \in Configs
  BY DEF IInv, EditInv
<1>2. CASE CalibrationBegin(src)
  BY <1>1, <1>2, BeginKeeps, CalibrateStep DEF CalibrationBegin
<1>3. ASSUME NEW id \in 0 .. SessionMod - 1,
             OwnerCommand(src, id), CalInv', config' \in Configs, cal'.active => cal.active
      PROVE  IInv'
  <2>1. CalibrationExcludesEdit'
    BY <1>3 DEF IInv, CalibrationExcludesEdit, OwnerCommand, editVars
  <2> QED
    BY <1>3, <2>1, CalibrateStep DEF OwnerCommand
<1>4. ASSUME NEW id \in 0 .. SessionMod - 1, CaptureZero(src, id) PROVE IInv'
  BY <1>1, <1>3, <1>4, CaptureZeroKeeps DEF CaptureZero
<1>5. ASSUME NEW id \in 0 .. SessionMod - 1, NEW mass \in Masses, SetSpanMass(src, id, mass)
      PROVE  IInv'
  BY <1>1, <1>3, <1>5, SetSpanMassKeeps DEF SetSpanMass
<1>6. ASSUME NEW id \in 0 .. SessionMod - 1, CaptureSpan(src, id) PROVE IInv'
  BY <1>1, <1>3, <1>6, CaptureSpanKeeps DEF CaptureSpan
<1>7. ASSUME NEW id \in 0 .. SessionMod - 1, CalibrationCommit(src, id) PROVE IInv'
  BY <1>3, <1>7, CommitKeeps DEF CalibrationCommit
<1>8. ASSUME NEW id \in 0 .. SessionMod - 1, CalibrationCancel(src, id) PROVE IInv'
  <2>1. CalInv' /\ ~cal'.active
    BY <1>8, EndKeeps DEF CalibrationCancel, OwnerCommand, IInv
  <2> QED
    BY <1>1, <1>3, <1>8, <2>1 DEF CalibrationCancel
<1> QED
  BY <1>2, <1>4, <1>5, <1>6, <1>7, <1>8 DEF Calibrate

\* The commands beside the sessions and the operations they start.
LEMMA BesideKeeps ==
  ASSUME IInv, UNCHANGED <<editVars, calVars>>, config' \in Configs, RestTypes',
         cal.active => switching' = None
  PROVE  IInv'
<1>1. EditInv' /\ CalInv'
  BY EditUnchanged, CalUnchanged DEF IInv
<1>2. CalibrationExcludesEdit'
  BY DEF IInv, CalibrationExcludesEdit, editVars, calVars
<1> QED
  BY <1>1, <1>2 DEF IInv

LEMMA StepInvariant == IInv /\ [Next]_vars => IInv'
<1> SUFFICES ASSUME IInv, [Next]_vars PROVE IInv'
  OBVIOUS
<1>1. /\ config \in Configs /\ RestTypes
      /\ cal.active => switching = None
      /\ \A hw \in Hardware : [config EXCEPT !.hw = hw] \in Configs
  BY DEF IInv, EditInv, CalibrationExcludesEdit, Configs
<1>2. ASSUME NEW src \in {"LOCAL", "BLE"}, NEW command \in EditCommands,
             EditCommand(command, src)
      PROVE  IInv'
  BY <1>2, EditKeeps, EditStep DEF EditCommand
<1>3. ASSUME NEW src \in {"LOCAL", "BLE"}, NEW hw \in Hardware, SetField(src, hw)
      PROVE  IInv'
  BY <1>3, SetFieldKeeps, EditStep DEF SetField
<1>4. ASSUME NEW hw \in Hardware, WriteStaging(hw) PROVE IInv'
  BY <1>4, WriteStagingKeeps, EditStep DEF WriteStaging
<1>5. ASSUME NEW command \in EditCommands, NEW token \in Tokens,
             ModbusTrigger(command, token)
      PROVE  IInv'
  BY <1>5, TriggerKeeps, EditStep DEF ModbusTrigger
<1>6. ASSUME NEW src \in Sources, Calibrate(src) PROVE IInv'
  BY <1>6, CalibrateKeeps
<1>7. CASE Process
  <2>1. CalInv' /\ (cal'.active => cal.active)
    BY <1>7, ProcessKeeps
  <2>2. CalibrationExcludesEdit'
    BY <1>7, <2>1 DEF Process, IInv, CalibrationExcludesEdit, editVars
  <2> QED
    BY <1>1, <1>7, <2>1, <2>2, CalibrateStep DEF Process
<1>8. ASSUME NEW hw \in Hardware, SetDisplayUnit(hw) PROVE IInv'
  BY <1>1, <1>8, BesideKeeps DEF SetDisplayUnit, RestTypes
<1>9. ASSUME NEW hw \in Hardware, SwitchProfile(hw) PROVE IInv'
  BY <1>1, <1>9, BesideKeeps DEF SwitchProfile, RestTypes
<1>10. CASE ProfileSwitched
  BY <1>1, <1>10, BesideKeeps DEF ProfileSwitched, RestTypes
<1>11. CASE RequestSave \/ FactoryResetRequest \/ FactoryResetConfirm \/ FactoryResetCancel
  BY <1>1, <1>11, BesideKeeps DEF RequestSave, FactoryResetRequest, FactoryResetConfirm,
     FactoryResetCancel, RestTypes
<1>12. CASE PersistenceDone
  BY <1>1, <1>12, DefaultsConfig, BesideKeeps DEF PersistenceDone, RestTypes
<1>13. CASE UNCHANGED vars
  BY <1>1, <1>13, BesideKeeps DEF vars, editVars, calVars, RestTypes
<1> QED
  BY <1>2, <1>3, <1>4, <1>5, <1>6, <1>7, <1>8, <1>9, <1>10, <1>11, <1>12, <1>13 DEF Next

-----------------------------------------------------------------------------
(* The theorems.                                                           *)

\* The inductive invariant holds in every reachable state.
THEOREM Invariance == Spec => []IInv
BY InitInvariant, StepInvariant, PTL DEF Spec

\* Type correctness: no session id is zero, no sentinel takes the place of a
\* reading, a mass or a calibration.
THEOREM TypeCorrect == Spec => []TypeOK
<1>1. IInv => TypeOK
  BY DEF IInv, EditInv, CalInv, CalTypes, RestTypes, TypeOK, Sessions, CalSessions
<1> QED
  BY Invariance, <1>1, PTL

\* An open edit always has an owner who can end it, and no owner is left behind.
THEOREM SessionSafe == Spec => []SessionConsistent
<1>1. IInv => SessionConsistent
  BY DEF IInv, EditInv, Consistent, SessionConsistent
<1> QED
  BY Invariance, <1>1, PTL

\* Only the owner of an edit has written into it.
THEOREM EditSafe == Spec => []EditBelongsToOwner
<1>1. IInv => EditBelongsToOwner
  BY DEF IInv, EditInv, EditBelongsToOwner
<1> QED
  BY Invariance, <1>1, PTL

\* A calibration, an edit and a profile switch exclude each other.
THEOREM CalibrationSafe == Spec => []CalibrationExcludesEdit
BY Invariance, PTL DEF IInv

\* The result that is shown is that of the readings and the mass on display.
THEOREM ResultSafe == Spec => []ResultMatchesInputs
<1>1. IInv => ResultMatchesInputs
  BY DEF IInv, CalInv
<1> QED
  BY Invariance, <1>1, PTL

\* The load is averaged over readings taken after the zero was captured.
THEOREM LoadWindowSafe == Spec => []LoadWindowIsFresh
<1>1. IInv => LoadWindowIsFresh
  BY DEF IInv, CalInv
<1> QED
  BY Invariance, <1>1, PTL

LEMMA ApplyStep ==
  ASSUME IInv, Next, cal.state = "RESULT_READY", cal'.state = "APPLIED"
  PROVE  measured = {config'.hw} /\ config'.hw = config.hw
<1>1. ASSUME NEW src \in Sources, NEW id \in 0 .. SessionMod - 1,
             CalibrationCommit(src, id)
      PROVE  measured = {config'.hw} /\ config'.hw = config.hw
  <2>1. config' = [config EXCEPT !.cal = cal.candidate] /\ Matches
    BY <1>1 DEF CalibrationCommit
  <2>2. config'.hw = config.hw
    BY <2>1 DEF IInv, EditInv, Configs
  <2> QED
    BY <2>1, <2>2 DEF IInv, CalInv, InputsCaptured, Matches
<1>2. ASSUME NEW src \in Sources, NEW id \in 0 .. SessionMod - 1, NEW mass \in Masses,
             CaptureZero(src, id) \/ SetSpanMass(src, id, mass) \/ CaptureSpan(src, id)
               \/ CalibrationCancel(src, id)
      PROVE  FALSE
  BY <1>2 DEF CaptureZero, SetSpanMass, CaptureSpan, CalibrationCancel, EndCalibration, NoCal
<1>3. ASSUME NEW src \in Sources, CalibrationBegin(src) PROVE FALSE
  BY <1>3 DEF CalibrationBegin, NoCal
<1>4. CASE Process
  BY <1>4 DEF Process, EndCalibration, NoCal, Sample, Waiting
<1>5. CASE UNCHANGED calVars
  BY <1>5 DEF calVars
<1>6. ASSUME NEW src \in Sources, Calibrate(src)
      PROVE  measured = {config'.hw} /\ config'.hw = config.hw
  <2>1. ASSUME NEW id \in 0 .. SessionMod - 1,
               CaptureZero(src, id) \/ CaptureSpan(src, id) \/ CalibrationCancel(src, id)
        PROVE  FALSE
    BY <2>1 DEF CaptureZero, CaptureSpan, CalibrationCancel, EndCalibration, NoCal
  <2> QED
    BY <1>1, <1>2, <1>3, <1>6, <2>1 DEF Calibrate
<1> QED
  BY <1>4, <1>5, <1>6 DEF Next, EditCommand, SetField, WriteStaging, ModbusTrigger,
     SetDisplayUnit, SwitchProfile, ProfileSwitched, RequestSave, FactoryResetRequest,
     FactoryResetConfirm, FactoryResetCancel, PersistenceDone

\* A calibration goes into force only under the settings of both its readings.
THEOREM ApplySafe == Spec => CalibrationFitsConfig
<1>1. IInv /\ [Next]_vars
        => [(cal.state = "RESULT_READY" /\ cal'.state = "APPLIED")
              => measured = {config'.hw} /\ config'.hw = config.hw]_vars
  BY ApplyStep
<1> QED
  BY Invariance, <1>1, PTL DEF Spec, CalibrationFitsConfig
=============================================================================
