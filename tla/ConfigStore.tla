---------------------------- MODULE ConfigStore ----------------------------
(***************************************************************************)
(* The A/B configuration store of src/Services/config_store/config_store.c *)
(* over the flash backend of src/BSP/bsp_flash.c.                          *)
(*                                                                         *)
(* A slot is two flash pages: the header and the payload live in page 0,   *)
(* the commit marker in the last four bytes of page 1.  A record is the    *)
(* triple a reader can tell apart (schema, sequence, payload); a page that *)
(* holds anything whose CRC or magic cannot match is "torn".               *)
(*                                                                         *)
(* Every call of ConfigStore_Process is one action; the supply may fail in *)
(* the middle of any of them (PowerCut).                                   *)
(***************************************************************************)
EXTENDS Integers

CONSTANTS
  Payloads,         \* encoded configurations
  FactoryDefaults,  \* the payload DefaultConfig_Load encodes to
  NoPayload,
  HalfRange,        \* 2^31 in the code: half the range of a sequence number
  BodyChunks,       \* ConfigStore_Process calls that program one body
  InitialFlash      \* what the two slots may hold when the story begins

SeqMod   == 2 * HalfRange
Reserved == SeqMod - 1            \* 0xFFFFFFFF, the erased pattern
SeqNums  == 0 .. Reserved - 1

Slots    == {"A", "B"}
NoSlot   == "NONE"

Kinds    == {"erased", "torn", "unsupported", "invalid", "v1", "v2"}
Bodies   == [kind : Kinds, seq : SeqNums, payload : Payloads \cup {NoPayload}]
Markers  == {"erased", "low", "torn", "full"}
Records  == [body : Bodies, marker : Markers]

Erased   == [kind |-> "erased", seq |-> 0, payload |-> NoPayload]
Torn     == [kind |-> "torn",   seq |-> 0, payload |-> NoPayload]

\* A valid body carries a payload; the other kinds carry none that matters.
ASSUME PayloadAssumption ==
  /\ NoPayload \notin Payloads
  /\ FactoryDefaults \in Payloads
ASSUME RangeAssumption ==
  /\ HalfRange \in Nat /\ HalfRange >= 4
  /\ BodyChunks \in Nat /\ BodyChunks >= 1
ASSUME FlashAssumption ==
  /\ InitialFlash \subseteq [Slots -> Records]
  /\ \A f \in InitialFlash, s \in Slots :
       f[s].body.kind \in {"v1", "v2"} => f[s].body.payload \in Payloads

VARIABLES
  flash,            \* the two slots
  writeDisabled,    \* s_write_disabled of bsp_flash.c
  active,           \* s_active_slot, _sequence, _payload (and its length)
  state,            \* s_state
  operation,        \* s_operation
  result,           \* s_result
  job,              \* s_body, s_record_sequence and s_target_address
  progress,         \* s_program_offset, in chunks
  commitLockError   \* s_commit_lock_error

vars == <<flash, writeDisabled, active, state, operation, result, job,
          progress, commitLockError>>

WriteStates == {"ERASE_PAGE_0", "ERASE_PAGE_1", "PROGRAM_BODY",
                "VERIFY_BODY", "PROGRAM_COMMIT"}
BusyStates  == WriteStates \cup {"PREPARE", "VERIFY_FINAL"}
States      == BusyStates \cup {"IDLE", "COMPLETE", "ERROR"}
Results     == {"NONE", "IN_PROGRESS", "SUCCESS", "NO_CHANGE", "INVALID",
                "IO_ERROR", "VERIFY_ERROR", "POWER_UNSAFE",
                "COMMITTED_LOCK_ERROR"}

TypeOK ==
  /\ flash \in [Slots -> Records]
  /\ writeDisabled \in BOOLEAN
  /\ active \in [slot : Slots \cup {NoSlot}, seq : SeqNums,
                 kind : {"none", "v1", "v2"},
                 payload : Payloads \cup {NoPayload}]
  /\ state \in States
  /\ operation \in {"NONE", "SAVE", "FACTORY_RESET"}
  /\ result \in Results
  /\ job \in [payload : Payloads \cup {NoPayload}, seq : SeqNums,
              target : Slots]
  /\ progress \in 0 .. BodyChunks
  /\ commitLockError \in BOOLEAN

-----------------------------------------------------------------------------
(* Sequence numbers: unsigned, wrapping, the erased pattern skipped.       *)

\* Mutant: the erased pattern is not skipped.
MutNextSequence(n) == (n + 1) % SeqMod

NextSequence(n) == IF n + 1 = Reserved THEN 0 ELSE n + 1

\* Mutant: the numbers are compared as if they never wrapped.
MutIsSequenceNewer(candidate, reference) ==
  candidate # Reserved /\ reference # Reserved /\ candidate > reference

\* (int32_t)(candidate - reference) > 0
IsSequenceNewer(candidate, reference) ==
  LET distance == IF candidate >= reference
                    THEN candidate - reference
                    ELSE candidate - reference + SeqMod
  IN  /\ candidate # reference
      /\ candidate # Reserved
      /\ reference # Reserved
      /\ distance < HalfRange

-----------------------------------------------------------------------------
(* Reading the slots.                                                      *)

SlotStatus(slot) ==
  IF slot.marker # "full" THEN "EMPTY"
  ELSE CASE slot.body.kind \in {"erased", "torn"} -> "CORRUPT"
         [] slot.body.kind = "unsupported"        -> "UNSUPPORTED"
         [] slot.body.kind = "invalid"            -> "VALIDATION_ERROR"
         [] OTHER                                 -> "VALID"

IsValid(slot) == SlotStatus(slot) = "VALID"

\* Mutant: slot A wins whenever it is valid.
MutSelected(f) ==
  IF IsValid(f["A"]) THEN "A" ELSE IF IsValid(f["B"]) THEN "B" ELSE NoSlot

\* The slot ConfigStore_Load selects.
Selected(f) ==
  IF IsValid(f["A"]) /\ IsValid(f["B"])
    THEN IF IsSequenceNewer(f["B"].body.seq, f["A"].body.seq)
           THEN "B" ELSE "A"
  ELSE IF IsValid(f["A"]) THEN "A"
  ELSE IF IsValid(f["B"]) THEN "B"
  ELSE NoSlot

NoActive == [slot |-> NoSlot, seq |-> 0, kind |-> "none", payload |-> NoPayload]

ActiveOf(f, s) == [slot |-> s, seq |-> f[s].body.seq, kind |-> f[s].body.kind,
                   payload |-> f[s].body.payload]

Loaded(f) == IF Selected(f) = NoSlot THEN NoActive ELSE ActiveOf(f, Selected(f))

-----------------------------------------------------------------------------
(* One backend operation on one cell: BSP_FlashErasePage or                *)
(* BSP_FlashProgramHalfWord.  A reported error does not say what the cell  *)
(* holds: the old contents, the new ones, or something in between.  The    *)
(* lock that follows every operation may fail on its own and disables the  *)
(* backend until it is reinitialised.                                      *)

Attempt(old, partial, new) ==
  IF writeDisabled
    THEN [cell : {old}, primary : {"ERROR"}, locked : {TRUE}]
    ELSE [cell : new, primary : {"OK"}, locked : BOOLEAN]
           \cup [cell : {old} \cup partial \cup new, primary : {"ERROR"},
                 locked : BOOLEAN]

Succeeded(r) == r.primary = "OK" /\ r.locked

SetBody(s, b)   == flash' = [flash EXCEPT ![s].body = b]
SetMarker(s, m) == flash' = [flash EXCEPT ![s].marker = m]
LockOutcome(r)  == writeDisabled' = (writeDisabled \/ ~r.locked)

JobBody == [kind |-> "v2", seq |-> job.seq, payload |-> job.payload]

\* Mutant: the error is recorded and the state machine left where it is.
MutFail(why) == result' = why /\ UNCHANGED state

Fail(why) == /\ result' = why
             /\ state' = "ERROR"

-----------------------------------------------------------------------------
(* Requests, cancellation and acknowledgement.                             *)

\* Mutant: the slot in use is chosen.
MutTargetSlot == IF active.slot = "A" THEN "A" ELSE "B"

TargetSlot == IF active.slot = "A" THEN "B" ELSE "A"

NextJob(p) ==
  [payload |-> p,
   seq     |-> IF active.slot = NoSlot THEN 1 ELSE NextSequence(active.seq),
   target  |-> TargetSlot]

\* A SAVE whose encoding equals the active payload byte for byte (a V1
\* payload has another length, so it never does).
Unchanged(p) == active.kind = "v2" /\ active.payload = p

AcceptJob(p) ==
  /\ job' = NextJob(p)
  /\ progress' = 0
  /\ commitLockError' = FALSE
  /\ result' = "IN_PROGRESS"
  /\ state' = "PREPARE"

RequestSave(p) ==
  /\ state = "IDLE"
  /\ operation' = "SAVE"
  /\ IF Unchanged(p)
       THEN /\ job' = [job EXCEPT !.payload = p]
            /\ result' = "NO_CHANGE"
            /\ state' = "COMPLETE"
            /\ UNCHANGED <<progress, commitLockError>>
       ELSE AcceptJob(p)
  /\ UNCHANGED <<flash, writeDisabled, active>>

RequestFactoryReset ==
  /\ state = "IDLE"
  /\ operation' = "FACTORY_RESET"
  /\ AcceptJob(FactoryDefaults)
  /\ UNCHANGED <<flash, writeDisabled, active>>

\* The codec rejects the configuration: s_operation is not set.
RequestUnencodable ==
  /\ state = "IDLE"
  /\ Fail("INVALID")
  /\ UNCHANGED <<flash, writeDisabled, active, operation, job, progress,
                 commitLockError>>

CancelPending ==
  /\ state = "PREPARE"
  /\ state' = "IDLE" /\ operation' = "NONE" /\ result' = "NONE"
  /\ UNCHANGED <<flash, writeDisabled, active, job, progress, commitLockError>>

AcknowledgeResult ==
  /\ state \in {"COMPLETE", "ERROR"}
  /\ state' = "IDLE" /\ operation' = "NONE" /\ result' = "NONE"
  /\ UNCHANGED <<flash, writeDisabled, active, job, progress, commitLockError>>

-----------------------------------------------------------------------------
(* ConfigStore_Process, one action per state.                              *)

\* The guard in front of the switch: the power check refuses.
PowerUnsafe ==
  /\ state \in WriteStates
  /\ Fail("POWER_UNSAFE")
  /\ UNCHANGED <<flash, writeDisabled, active, operation, job, progress,
                 commitLockError>>

Prepare ==
  /\ state = "PREPARE"
  /\ state' = "ERASE_PAGE_0"
  /\ UNCHANGED <<flash, writeDisabled, active, operation, result, job,
                 progress, commitLockError>>

ErasePage0 ==
  /\ state = "ERASE_PAGE_0"
  /\ \E r \in Attempt(flash[job.target].body, {Torn}, {Erased}) :
       /\ SetBody(job.target, r.cell)
       /\ LockOutcome(r)
       /\ IF Succeeded(r)
            THEN state' = "ERASE_PAGE_1" /\ UNCHANGED result
            ELSE Fail("IO_ERROR")
  /\ UNCHANGED <<active, operation, job, progress, commitLockError>>

ErasePage1 ==
  /\ state = "ERASE_PAGE_1"
  /\ \E r \in Attempt(flash[job.target].marker, {"torn"}, {"erased"}) :
       /\ SetMarker(job.target, r.cell)
       /\ LockOutcome(r)
       /\ IF Succeeded(r)
            THEN state' = "PROGRAM_BODY" /\ UNCHANGED result
            ELSE Fail("IO_ERROR")
  /\ UNCHANGED <<active, operation, job, progress, commitLockError>>

\* One chunk of halfwords.  A halfword that read back right when it was
\* programmed may still be marginal: then the finished body is torn, which
\* VERIFY_BODY exists to notice.
ProgramBody ==
  /\ state = "PROGRAM_BODY"
  /\ LET last == progress + 1 = BodyChunks
     IN  \E r \in Attempt(flash[job.target].body, {Torn},
                          IF last THEN {JobBody, Torn} ELSE {Torn}) :
           /\ SetBody(job.target, r.cell)
           /\ LockOutcome(r)
           /\ IF Succeeded(r)
                THEN /\ progress' = progress + 1
                     /\ state' = IF last THEN "VERIFY_BODY" ELSE "PROGRAM_BODY"
                     /\ UNCHANGED result
                ELSE Fail("IO_ERROR") /\ UNCHANGED progress
  /\ UNCHANGED <<active, operation, job, commitLockError>>

\* Mutant: the body is not compared.
MutVerifyBody ==
  /\ state = "VERIFY_BODY"
  /\ state' = "PROGRAM_COMMIT"
  /\ UNCHANGED <<flash, writeDisabled, active, operation, result, job,
                 progress, commitLockError>>

VerifyBody ==
  /\ state = "VERIFY_BODY"
  /\ IF flash[job.target].body = JobBody
       THEN state' = "PROGRAM_COMMIT" /\ UNCHANGED result
       ELSE Fail("VERIFY_ERROR")
  /\ UNCHANGED <<flash, writeDisabled, active, operation, job, progress,
                 commitLockError>>

\* The low halfword, a second look at the supply, the high halfword.
ProgramCommit ==
  /\ state = "PROGRAM_COMMIT"
  /\ \E low \in Attempt(flash[job.target].marker, {"torn"}, {"low"}) :
       IF ~Succeeded(low)
         THEN /\ SetMarker(job.target, low.cell)
              /\ LockOutcome(low)
              /\ Fail("IO_ERROR")
              /\ UNCHANGED commitLockError
         ELSE \/ /\ SetMarker(job.target, "low")
                 /\ Fail("POWER_UNSAFE")
                 /\ UNCHANGED <<writeDisabled, commitLockError>>
              \/ \E high \in Attempt("low", {"torn"}, {"full", "torn"}) :
                   /\ SetMarker(job.target, high.cell)
                   /\ LockOutcome(high)
                   /\ IF high.primary = "OK"
                        THEN /\ state' = "VERIFY_FINAL"
                             /\ commitLockError' = (commitLockError \/ ~high.locked)
                             /\ UNCHANGED result
                        ELSE Fail("IO_ERROR") /\ UNCHANGED commitLockError
  /\ UNCHANGED <<active, operation, job, progress>>

\* Mutant: the finished slot is not read back.
MutVerifyFinal ==
  /\ state = "VERIFY_FINAL"
  /\ active' = [slot |-> job.target, seq |-> job.seq, kind |-> "v2",
                payload |-> job.payload]
  /\ result' = "SUCCESS"
  /\ state' = "COMPLETE"
  /\ UNCHANGED <<flash, writeDisabled, operation, job, progress,
                 commitLockError>>

VerifyFinal ==
  /\ state = "VERIFY_FINAL"
  /\ IF IsValid(flash[job.target])
       THEN /\ active' = [slot |-> job.target, seq |-> job.seq, kind |-> "v2",
                          payload |-> job.payload]
            /\ result' = IF commitLockError THEN "COMMITTED_LOCK_ERROR"
                                            ELSE "SUCCESS"
            /\ state' = "COMPLETE"
       ELSE Fail("VERIFY_ERROR") /\ UNCHANGED active
  /\ UNCHANGED <<flash, writeDisabled, operation, job, progress,
                 commitLockError>>

Process ==
  \/ PowerUnsafe
  \/ Prepare
  \/ ErasePage0
  \/ ErasePage1
  \/ ProgramBody
  \/ VerifyBody
  \/ ProgramCommit
  \/ VerifyFinal

-----------------------------------------------------------------------------
(* A restart, at any moment: the operation in flight stops half-way, RAM   *)
(* is lost, ConfigStore_Init and ConfigStore_Load run.                     *)

BodiesAfterCut ==
  LET old == flash[job.target].body
  IN  CASE state = "ERASE_PAGE_0" -> {old, Torn, Erased}
        [] state = "PROGRAM_BODY" ->
             {old, Torn} \cup (IF progress + 1 = BodyChunks THEN {JobBody} ELSE {})
        [] OTHER -> {old}

MarkersAfterCut ==
  LET old == flash[job.target].marker
  IN  CASE state = "ERASE_PAGE_1"   -> {old, "torn", "erased"}
        [] state = "PROGRAM_COMMIT" -> {old, "torn", "low", "full"}
        [] OTHER -> {old}

NoJob == [payload |-> NoPayload, seq |-> 0, target |-> "A"]

PowerCut ==
  /\ IF writeDisabled
       THEN UNCHANGED flash
       ELSE \E b \in BodiesAfterCut, m \in MarkersAfterCut :
              flash' = [flash EXCEPT ![job.target] = [body |-> b, marker |-> m]]
  /\ writeDisabled' \in BOOLEAN
  /\ active' = Loaded(flash')
  /\ state' = "IDLE" /\ operation' = "NONE" /\ result' = "NONE"
  /\ job' = NoJob
  /\ progress' = 0
  /\ commitLockError' = FALSE

Init ==
  /\ flash \in InitialFlash
  /\ writeDisabled \in BOOLEAN
  /\ active = Loaded(flash)
  /\ state = "IDLE" /\ operation = "NONE" /\ result = "NONE"
  /\ job = NoJob
  /\ progress = 0
  /\ commitLockError = FALSE

Next ==
  \/ \E p \in Payloads : RequestSave(p)
  \/ RequestFactoryReset
  \/ RequestUnencodable
  \/ CancelPending
  \/ AcknowledgeResult
  \/ Process
  \/ PowerCut

Spec == Init /\ [][Next]_vars

\* App_Run calls ConfigStore_Process on every pass while a save is in flight.
FairSpec == Spec /\ WF_vars(Process)

-----------------------------------------------------------------------------
(* Properties.                                                             *)

\* The record the firmware runs on is never touched by a save: while a slot
\* is active its page 0 and its marker hold exactly what RAM believes, so a
\* restart in the middle of any save finds it.
ActiveSlotIntact ==
  active.slot # NoSlot =>
    /\ IsValid(flash[active.slot])
    /\ flash[active.slot].body = [kind |-> active.kind, seq |-> active.seq,
                                  payload |-> active.payload]

\* A save reported as done is what the next restart loads: the record is
\* whole and its sequence number beats the other slot's, across the wrap.
SuccessIsDurable ==
  (state = "COMPLETE" /\ result \in {"SUCCESS", "COMMITTED_LOCK_ERROR"}) =>
    Loaded(flash) = [slot |-> job.target, seq |-> job.seq, kind |-> "v2",
                     payload |-> job.payload]

\* The marker of the slot being written becomes complete only over a body that
\* was read back: at no earlier state of the write would a restart take the
\* slot for a committed record.
CommitFollowsBody ==
  (/\ state \in {"PROGRAM_BODY", "VERIFY_BODY", "PROGRAM_COMMIT", "VERIFY_FINAL"}
   /\ flash[job.target].marker = "full")
    => state = "VERIFY_FINAL" /\ flash[job.target].body = JobBody

\* The firmware only ever moves to a newer record, by a save or by a restart,
\* and never back to having none.
ActiveMovesForward ==
  [][active.slot # NoSlot =>
       /\ active'.slot # NoSlot
       /\ active' # active => IsSequenceNewer(active'.seq, active.seq)]_vars

\* NO_CHANGE is reported without touching the flash; the caller marks its
\* revision saved on the strength of it.
NoChangeIsDurable ==
  (state = "COMPLETE" /\ result = "NO_CHANGE") =>
    Loaded(flash).payload = job.payload

\* Every accepted request ends in COMPLETE, in ERROR or in a restart.
RequestTerminates == (state \in BusyStates) ~> (state \notin BusyStates)

-----------------------------------------------------------------------------
(* The store implements the atomic configuration.                          *)

Atomic == INSTANCE AtomicConfig WITH
  durable  <- Loaded(flash).payload,
  held     <- active.payload,
  proposal <- IF state \in BusyStates THEN job.payload ELSE NoPayload

ImplementsAtomicConfig == Atomic!Spec

-----------------------------------------------------------------------------
(* The inductive invariant behind the safety properties; its parts are     *)
(* named so that proofs can cite them.                                     *)

\* A record that loads carries a configuration.
ValidSlotsCarryPayloads ==
  \A s \in Slots : IsValid(flash[s]) => flash[s].body.payload \in Payloads

\* Only slot A can hold a record RAM does not know of while none is active.
NothingHidden ==
  IF active.slot = NoSlot
    THEN active = NoActive /\ ~IsValid(flash["B"])
    ELSE active.kind \in {"v1", "v2"} /\ active.payload \in Payloads

JobMatchesActive ==
  state \in BusyStates =>
    /\ job.payload \in Payloads
    /\ job = NextJob(job.payload)

\* How far the target slot has got.
TargetPhase ==
  LET slot == flash[job.target]
  IN  /\ state \in {"PREPARE", "ERASE_PAGE_0", "ERASE_PAGE_1"} => progress = 0
      /\ state = "ERASE_PAGE_1"   => ~IsValid(slot)
      /\ state = "PROGRAM_BODY"   => slot.marker = "erased"
                                      /\ progress < BodyChunks
      /\ state = "VERIFY_BODY"    => slot.marker = "erased"
      /\ state = "PROGRAM_COMMIT" => slot.marker = "erased"
                                      /\ slot.body = JobBody
      /\ state = "VERIFY_FINAL"   => slot.body = JobBody

IInv ==
  /\ TypeOK
  /\ ValidSlotsCarryPayloads
  /\ ActiveSlotIntact
  /\ NothingHidden
  /\ JobMatchesActive
  /\ TargetPhase
  /\ SuccessIsDurable

=============================================================================
