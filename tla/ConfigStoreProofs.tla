------------------------- MODULE ConfigStoreProofs -------------------------
(***************************************************************************)
(* Proofs about the A/B configuration store, for every set of payloads,    *)
(* every even range of sequence numbers from 8 up, every body length and   *)
(* every initial content of the two slots.                                 *)
(***************************************************************************)
EXTENDS ConfigStore, TLAPS

-----------------------------------------------------------------------------
(* Sequence numbers.                                                       *)

\* The successor of a sequence number is one, and is never the erased
\* pattern (NextSequence skips 0xFFFFFFFF).
LEMMA NextSequenceType ==
  ASSUME NEW n \in SeqNums
  PROVE  NextSequence(n) \in SeqNums
BY RangeAssumption DEF NextSequence, SeqNums, Reserved, SeqMod

LEMMA SmallNumbers == 0 \in SeqNums /\ 1 \in SeqNums /\ 0 \in 0 .. BodyChunks
BY RangeAssumption DEF SeqNums, Reserved, SeqMod

\* Across the wrap and across the skipped pattern, the successor is newer
\* and its predecessor is not: the two slots never tie after a save.
THEOREM SuccessorIsNewer ==
  ASSUME NEW n \in SeqNums
  PROVE  /\ IsSequenceNewer(NextSequence(n), n)
         /\ ~IsSequenceNewer(n, NextSequence(n))
BY RangeAssumption
   DEF IsSequenceNewer, NextSequence, SeqNums, Reserved, SeqMod

-----------------------------------------------------------------------------
(* Reading slots.                                                          *)

\* A slot loads exactly when its marker is complete and its body is a record
\* of a schema this firmware decodes.
LEMMA ValidSlot ==
  ASSUME NEW slot \in Records
  PROVE  IsValid(slot) <=> slot.marker = "full" /\ slot.body.kind \in {"v1", "v2"}
<1>1. slot.body.kind \in Kinds
  BY DEF Records, Bodies
<1>2. CASE slot.marker # "full"
  BY <1>2 DEF IsValid, SlotStatus
<1>3. CASE slot.marker = "full"
  <2>1. CASE slot.body.kind \in {"erased", "torn"}
    BY <1>3, <2>1 DEF IsValid, SlotStatus
  <2>2. CASE slot.body.kind = "unsupported"
    BY <1>3, <2>2 DEF IsValid, SlotStatus
  <2>3. CASE slot.body.kind = "invalid"
    BY <1>3, <2>3 DEF IsValid, SlotStatus
  <2>4. CASE slot.body.kind \in {"v1", "v2"}
    BY <1>3, <2>4 DEF IsValid, SlotStatus
  <2>5. QED
    BY <1>1, <2>1, <2>2, <2>3, <2>4 DEF Kinds
<1>4. QED
  BY <1>2, <1>3

LEMMA BlankBodies == Erased \in Bodies /\ Torn \in Bodies
BY SmallNumbers DEF Erased, Torn, Bodies, Kinds

\* What one backend operation can return.
LEMMA AttemptOutcome ==
  ASSUME NEW old, NEW partial, NEW new, NEW r \in Attempt(old, partial, new)
  PROVE  /\ r.cell \in {old} \cup partial \cup new
         /\ r.locked \in BOOLEAN
         /\ r.primary = "OK" => r.cell \in new /\ ~writeDisabled
         /\ Succeeded(r) => r.cell \in new
BY DEF Attempt, Succeeded

\* What ConfigStore_Load makes of a flash whose active slot is intact: the
\* active record if the other slot does not load, the other slot if it
\* carries the successor of the active sequence number.
LEMMA LoadTarget ==
  ASSUME TypeOK, NEW f \in [Slots -> Records],
         NothingHidden,
         active.slot # NoSlot =>
           /\ IsValid(f[active.slot])
           /\ f[active.slot].body = [kind |-> active.kind, seq |-> active.seq,
                                     payload |-> active.payload],
         active.slot = NoSlot => ~IsValid(f["B"])
  PROVE  /\ ~IsValid(f[TargetSlot]) => Loaded(f) = active
         /\ (/\ IsValid(f[TargetSlot])
             /\ active.slot # NoSlot =>
                  f[TargetSlot].body.seq = NextSequence(active.seq))
              => Loaded(f) = ActiveOf(f, TargetSlot)
<1> active.slot \in {"A", "B", NoSlot} /\ active.seq \in SeqNums
  BY DEF TypeOK, Slots
<1> active = [slot |-> active.slot, seq |-> active.seq, kind |-> active.kind,
              payload |-> active.payload]
  BY DEF TypeOK
<1>1. CASE active.slot = NoSlot
  BY <1>1 DEF NothingHidden, Loaded, Selected, TargetSlot, NoSlot
<1>2. CASE active.slot = "A"
  BY <1>2, SuccessorIsNewer DEF Loaded, Selected, TargetSlot, NoSlot, ActiveOf
<1>3. CASE active.slot = "B"
  BY <1>3, SuccessorIsNewer DEF Loaded, Selected, TargetSlot, NoSlot, ActiveOf
<1>4. QED
  BY <1>1, <1>2, <1>3


\* After a load RAM agrees with the flash, whatever the flash holds.
LEMMA LoadAgrees ==
  ASSUME NEW f \in [Slots -> Records], NEW a,
         \A s \in Slots : IsValid(f[s]) => f[s].body.payload \in Payloads,
         a = Loaded(f)
  PROVE  /\ a \in [slot : Slots \cup {NoSlot}, seq : SeqNums,
                   kind : {"none", "v1", "v2"},
                   payload : Payloads \cup {NoPayload}]
         /\ a.slot # NoSlot =>
              /\ IsValid(f[a.slot])
              /\ f[a.slot].body = [kind |-> a.kind, seq |-> a.seq,
                                   payload |-> a.payload]
         /\ IF a.slot = NoSlot
              THEN a = NoActive /\ ~IsValid(f["B"])
              ELSE a.kind \in {"v1", "v2"} /\ a.payload \in Payloads
<1> 0 \in SeqNums
  BY SmallNumbers
<1>1. CASE Selected(f) = NoSlot
  BY <1>1 DEF Loaded, Selected, NoActive, NoSlot
<1>2. CASE Selected(f) # NoSlot
  <2> DEFINE s == Selected(f)
  <2>1. s \in Slots /\ IsValid(f[s])
    BY <1>2 DEF Selected, Slots
  <2>2. a = ActiveOf(f, s)
    BY <1>2 DEF Loaded
  <2>3. f[s].body \in Bodies /\ f[s].body.kind \in {"v1", "v2"}
    BY <2>1, ValidSlot DEF Records
  <2>4. /\ a.slot = s /\ a.seq = f[s].body.seq /\ a.kind = f[s].body.kind
        /\ a.payload = f[s].body.payload
    BY <2>2 DEF ActiveOf
  <2>5. s # NoSlot
    BY <1>2
  <2>6. f[s].body = [kind |-> a.kind, seq |-> a.seq, payload |-> a.payload]
    BY <2>3, <2>4 DEF Bodies
  <2>7. a \in [slot : Slots \cup {NoSlot}, seq : SeqNums,
               kind : {"none", "v1", "v2"},
               payload : Payloads \cup {NoPayload}]
    BY <2>1, <2>2, <2>3 DEF ActiveOf, Bodies
  <2>8. a.payload \in Payloads
    BY <2>1, <2>4
  <2> QED
    BY <2>1, <2>3, <2>4, <2>5, <2>6, <2>7, <2>8
<1>3. QED
  BY <1>1, <1>2

-----------------------------------------------------------------------------
(* The inductive invariant.                                                *)

LEMMA InitIInv == Init => IInv
<1> SUFFICES ASSUME Init PROVE IInv
  OBVIOUS
<1>1. /\ flash \in [Slots -> Records]
      /\ \A s \in Slots : IsValid(flash[s]) => flash[s].body.payload \in Payloads
  BY FlashAssumption, ValidSlot DEF Init
<1>2. ValidSlotsCarryPayloads
  BY <1>1 DEF ValidSlotsCarryPayloads
<1>3. /\ active \in [slot : Slots \cup {NoSlot}, seq : SeqNums,
                     kind : {"none", "v1", "v2"},
                     payload : Payloads \cup {NoPayload}]
      /\ ActiveSlotIntact /\ NothingHidden
  BY <1>1, LoadAgrees DEF Init, ActiveSlotIntact, NothingHidden
<1>4. TypeOK
  <2>1. job \in [payload : Payloads \cup {NoPayload}, seq : SeqNums,
                target : Slots]
    BY SmallNumbers DEF Init, NoJob, Slots
  <2>2. QED
    BY <1>1, <1>3, <2>1, SmallNumbers DEF Init, TypeOK, States, Results
<1>5. JobMatchesActive /\ TargetPhase /\ SuccessIsDurable
  BY DEF Init, JobMatchesActive, TargetPhase, SuccessIsDurable, BusyStates,
         WriteStates
<1>6. QED
  BY <1>2, <1>3, <1>4, <1>5 DEF IInv

\* Writing to the target of a job leaves the active slot alone.
LEMMA TargetWrite ==
  ASSUME IInv, state \in BusyStates,
         NEW b \in Bodies, NEW m \in Markers,
         flash' = [flash EXCEPT ![job.target] = [body |-> b, marker |-> m]],
         b.kind \in {"v1", "v2"} /\ m = "full" => b.payload \in Payloads
  PROVE  /\ flash' \in [Slots -> Records]
         /\ flash'[job.target] = [body |-> b, marker |-> m]
         /\ \A s \in Slots : IsValid(flash'[s]) => flash'[s].body.payload \in Payloads
         /\ active.slot # NoSlot => flash'[active.slot] = flash[active.slot]
         /\ active.slot = NoSlot => flash'["B"] = flash["B"]
         /\ job.target = TargetSlot
<1>1. job.target \in Slots /\ job.target = TargetSlot
  BY DEF IInv, TypeOK, JobMatchesActive, NextJob
<1>2. [body |-> b, marker |-> m] \in Records
  BY DEF Records
<1>3. flash' \in [Slots -> Records] /\ flash'[job.target] = [body |-> b, marker |-> m]
  BY <1>1, <1>2 DEF IInv, TypeOK
<1>4. \A s \in Slots : s # job.target => flash'[s] = flash[s]
  BY <1>1 DEF IInv, TypeOK
<1>5. \A s \in Slots : IsValid(flash'[s]) => flash'[s].body.payload \in Payloads
  BY <1>2, <1>3, <1>4, ValidSlot DEF IInv, ValidSlotsCarryPayloads
<1>6. /\ active.slot # NoSlot => active.slot # job.target /\ active.slot \in Slots
      /\ active.slot = NoSlot => job.target = "A"
  BY <1>1 DEF IInv, TypeOK, TargetSlot, Slots, NoSlot
<1>7. QED
  BY <1>1, <1>3, <1>4, <1>5, <1>6 DEF Slots


LEMMA NextJobType ==
  ASSUME TypeOK, NEW p \in Payloads
  PROVE  NextJob(p) \in [payload : Payloads \cup {NoPayload}, seq : SeqNums,
                         target : Slots]
BY SmallNumbers, NextSequenceType DEF TypeOK, NextJob, TargetSlot, Slots

\* Writing one page of a slot, as an update of the slot.
LEMMA PageWrites ==
  ASSUME flash \in [Slots -> Records], NEW s \in Slots, NEW c
  PROVE  /\ SetBody(s, c) =>
              flash' = [flash EXCEPT ![s] = [body |-> c, marker |-> flash[s].marker]]
         /\ SetMarker(s, c) =>
              flash' = [flash EXCEPT ![s] = [body |-> flash[s].body, marker |-> c]]
<1>1. flash[s] = [body |-> flash[s].body, marker |-> flash[s].marker]
  BY DEF Records
<1>2. [flash[s] EXCEPT !.body = c] = [body |-> c, marker |-> flash[s].marker]
  BY <1>1
<1>3. [flash[s] EXCEPT !.marker = c] = [body |-> flash[s].body, marker |-> c]
  BY <1>1
<1>4. QED
  BY <1>2, <1>3 DEF SetBody, SetMarker

\* Steps that touch neither the flash nor what RAM holds of it keep three of
\* the invariant's parts.
LEMMA QuietStep ==
  ASSUME IInv, UNCHANGED <<flash, active>>
  PROVE  ValidSlotsCarryPayloads' /\ ActiveSlotIntact' /\ NothingHidden'
BY DEF IInv, ValidSlotsCarryPayloads, ActiveSlotIntact, NothingHidden

\* Writing to the target keeps the same three.
LEMMA TargetWriteKeeps ==
  ASSUME IInv, state \in BusyStates, active' = active,
         NEW b \in Bodies, NEW m \in Markers,
         flash' = [flash EXCEPT ![job.target] = [body |-> b, marker |-> m]],
         b.kind \in {"v1", "v2"} /\ m = "full" => b.payload \in Payloads
  PROVE  /\ flash' \in [Slots -> Records]
         /\ flash'[job.target] = [body |-> b, marker |-> m]
         /\ ValidSlotsCarryPayloads' /\ ActiveSlotIntact' /\ NothingHidden'
<1>1. /\ flash' \in [Slots -> Records]
      /\ flash'[job.target] = [body |-> b, marker |-> m]
      /\ \A s \in Slots : IsValid(flash'[s]) => flash'[s].body.payload \in Payloads
      /\ active.slot # NoSlot => flash'[active.slot] = flash[active.slot]
      /\ active.slot = NoSlot => flash'["B"] = flash["B"]
  BY TargetWrite
<1>2. ValidSlotsCarryPayloads'
  BY <1>1 DEF ValidSlotsCarryPayloads
<1>3. ActiveSlotIntact' /\ NothingHidden'
  BY <1>1 DEF IInv, ActiveSlotIntact, NothingHidden
<1>4. QED
  BY <1>1, <1>2, <1>3

LEMMA RequestsKeepIInv ==
  ASSUME IInv,
         \/ \E p \in Payloads : RequestSave(p)
         \/ RequestFactoryReset
         \/ RequestUnencodable
         \/ CancelPending
         \/ AcknowledgeResult
  PROVE  IInv'
<1> USE DEF States, BusyStates, WriteStates, Results
<1>1. ValidSlotsCarryPayloads' /\ ActiveSlotIntact' /\ NothingHidden'
  BY QuietStep DEF RequestSave, RequestFactoryReset, RequestUnencodable,
                   CancelPending, AcknowledgeResult
<1>2. ASSUME NEW p \in Payloads, AcceptJob(p), UNCHANGED <<flash, writeDisabled, active>>,
             operation' \in {"SAVE", "FACTORY_RESET"}
      PROVE  TypeOK' /\ JobMatchesActive' /\ TargetPhase' /\ SuccessIsDurable'
  <2>1. TypeOK'
    BY <1>2, NextJobType, SmallNumbers DEF AcceptJob, IInv, TypeOK
  <2>2. JobMatchesActive'
    BY <1>2 DEF AcceptJob, JobMatchesActive, NextJob, TargetSlot
  <2>3. TargetPhase' /\ SuccessIsDurable'
    BY <1>2 DEF AcceptJob, TargetPhase, SuccessIsDurable
  <2>4. QED
    BY <2>1, <2>2, <2>3
<1>3. CASE \E p \in Payloads : RequestSave(p)
  <2>1. PICK p \in Payloads : RequestSave(p)
    BY <1>3
  <2>2. CASE Unchanged(p)
    <3>1. TypeOK'
      BY <2>1, <2>2 DEF RequestSave, IInv, TypeOK
    <3>2. JobMatchesActive' /\ TargetPhase' /\ SuccessIsDurable'
      BY <2>1, <2>2 DEF RequestSave, JobMatchesActive, TargetPhase, SuccessIsDurable
    <3>3. QED
      BY <1>1, <3>1, <3>2 DEF IInv
  <2>3. CASE ~Unchanged(p)
    BY <1>1, <1>2, <2>1, <2>3 DEF RequestSave, IInv
  <2>4. QED
    BY <2>2, <2>3
<1>4. CASE RequestFactoryReset
  BY <1>1, <1>2, <1>4, PayloadAssumption DEF RequestFactoryReset, IInv
<1>5. CASE RequestUnencodable \/ CancelPending \/ AcknowledgeResult
  <2>1. TypeOK'
    BY <1>5 DEF RequestUnencodable, CancelPending, AcknowledgeResult, Fail, IInv, TypeOK
  <2>2. JobMatchesActive' /\ TargetPhase' /\ SuccessIsDurable'
    BY <1>5 DEF RequestUnencodable, CancelPending, AcknowledgeResult, Fail,
                JobMatchesActive, TargetPhase, SuccessIsDurable
  <2>3. QED
    BY <1>1, <2>1, <2>2 DEF IInv
<1>6. QED
  BY <1>3, <1>4, <1>5

\* A restart in the middle of a write leaves the target's two pages with one
\* of the contents BodiesAfterCut and MarkersAfterCut allow.
LEMMA CutWrite ==
  ASSUME IInv, PowerCut
  PROVE  \E b \in BodiesAfterCut, m \in MarkersAfterCut :
           flash' = [flash EXCEPT ![job.target] = [body |-> b, marker |-> m]]
<1>1. job.target \in Slots /\ flash \in [Slots -> Records]
  BY DEF IInv, TypeOK
<1>2. CASE ~writeDisabled
  BY <1>2 DEF PowerCut
<1>3. CASE writeDisabled
  <2> DEFINE b == flash[job.target].body
             m == flash[job.target].marker
  <2>1. flash' = flash
    BY <1>3 DEF PowerCut
  <2>2. flash[job.target] = [body |-> b, marker |-> m]
    BY <1>1 DEF Records
  <2>3. flash' = [flash EXCEPT ![job.target] = [body |-> b, marker |-> m]]
    BY <1>1, <2>1, <2>2
  <2>4. b \in BodiesAfterCut /\ m \in MarkersAfterCut
    BY DEF BodiesAfterCut, MarkersAfterCut
  <2>5. QED
    BY <2>3, <2>4
<1>4. QED
  BY <1>2, <1>3

LEMMA CutKeepsIInv ==
  ASSUME IInv, PowerCut
  PROVE  IInv'
<1>1. PICK b \in BodiesAfterCut, m \in MarkersAfterCut :
        flash' = [flash EXCEPT ![job.target] = [body |-> b, marker |-> m]]
  BY CutWrite
<1>2. job.target \in Slots /\ flash[job.target] \in Records
  BY DEF IInv, TypeOK
<1>3. \/ b \in {flash[job.target].body, Torn, Erased}
      \/ state = "PROGRAM_BODY" /\ b = JobBody
  BY <1>1 DEF BodiesAfterCut
<1>4. \/ m \in {flash[job.target].marker, "torn", "erased"}
      \/ state = "PROGRAM_COMMIT" /\ m \in {"low", "full"}
  BY <1>1 DEF MarkersAfterCut
<1>5. b \in Bodies /\ m \in Markers
  BY <1>2, <1>3, <1>4, BlankBodies DEF Records, Markers, JobBody, Bodies, Kinds, IInv, TypeOK
<1>6. flash' \in [Slots -> Records]
  BY <1>1, <1>2, <1>5 DEF Records, IInv, TypeOK
<1>7. b.kind \in {"v1", "v2"} /\ m = "full" => b.payload \in Payloads
  <2>1. CASE state = "PROGRAM_BODY" /\ b = JobBody
    BY <2>1 DEF JobBody, IInv, JobMatchesActive, BusyStates, WriteStates
  <2>2. CASE b = flash[job.target].body
    <3>1. CASE state = "PROGRAM_COMMIT"
      BY <2>2, <3>1 DEF JobBody, IInv, JobMatchesActive, TargetPhase,
                        BusyStates, WriteStates
    <3>2. CASE state # "PROGRAM_COMMIT"
      BY <1>2, <1>4, <2>2, <3>2, ValidSlot DEF IInv, ValidSlotsCarryPayloads
    <3>3. QED
      BY <3>1, <3>2
  <2>3. CASE b \in {Torn, Erased}
    BY <2>3 DEF Torn, Erased
  <2>4. QED
    BY <1>3, <2>1, <2>2, <2>3
<1>8. \A s \in Slots : IsValid(flash'[s]) => flash'[s].body.payload \in Payloads
  BY <1>1, <1>2, <1>5, <1>7, ValidSlot DEF Records, IInv, TypeOK, ValidSlotsCarryPayloads
<1>9. ValidSlotsCarryPayloads'
  BY <1>8 DEF ValidSlotsCarryPayloads
<1>10. /\ active' \in [slot : Slots \cup {NoSlot}, seq : SeqNums,
                      kind : {"none", "v1", "v2"},
                      payload : Payloads \cup {NoPayload}]
       /\ ActiveSlotIntact' /\ NothingHidden'
  <2>1. active' = Loaded(flash')
    BY DEF PowerCut
  <2>2. QED
    BY <1>6, <1>8, <2>1, LoadAgrees DEF ActiveSlotIntact, NothingHidden
<1>11. TypeOK'
  <2>1. job' \in [payload : Payloads \cup {NoPayload}, seq : SeqNums,
                  target : Slots]
    BY SmallNumbers DEF PowerCut, NoJob, Slots
  <2>2. QED
    BY <1>6, <1>10, <2>1, SmallNumbers DEF PowerCut, TypeOK, States, Results
<1>12. JobMatchesActive' /\ TargetPhase' /\ SuccessIsDurable'
  BY DEF PowerCut, JobMatchesActive, TargetPhase, SuccessIsDurable,
         BusyStates, WriteStates
<1>13. QED
  BY <1>9, <1>10, <1>11, <1>12 DEF IInv


LEMMA ProcessKeepsIInv ==
  ASSUME IInv, Process
  PROVE  IInv'
<1> USE DEF States, BusyStates, WriteStates, Results
<1>0. /\ job.target \in Slots /\ flash[job.target] \in Records
      /\ flash[job.target].body \in Bodies /\ flash[job.target].marker \in Markers
      /\ flash[job.target] = [body |-> flash[job.target].body,
                              marker |-> flash[job.target].marker]
  BY DEF IInv, TypeOK, Records
<1>1. CASE PowerUnsafe
  <2>1. ValidSlotsCarryPayloads' /\ ActiveSlotIntact' /\ NothingHidden'
    BY <1>1, QuietStep DEF PowerUnsafe
  <2>2. TypeOK'
    BY <1>1 DEF PowerUnsafe, Fail, IInv, TypeOK
  <2>3. JobMatchesActive' /\ TargetPhase' /\ SuccessIsDurable'
    BY <1>1 DEF PowerUnsafe, Fail, JobMatchesActive, TargetPhase, SuccessIsDurable
  <2>4. QED
    BY <2>1, <2>2, <2>3 DEF IInv
<1>2. CASE Prepare
  <2>1. ValidSlotsCarryPayloads' /\ ActiveSlotIntact' /\ NothingHidden'
    BY <1>2, QuietStep DEF Prepare
  <2>2. TypeOK'
    BY <1>2 DEF Prepare, IInv, TypeOK
  <2>3. JobMatchesActive' /\ TargetPhase' /\ SuccessIsDurable'
    BY <1>2 DEF Prepare, IInv, JobMatchesActive, NextJob, TargetSlot,
                TargetPhase, SuccessIsDurable
  <2>4. QED
    BY <2>1, <2>2, <2>3 DEF IInv
<1>3. CASE ErasePage0
  <2>1. PICK r \in Attempt(flash[job.target].body, {Torn}, {Erased}) :
          /\ SetBody(job.target, r.cell)
          /\ LockOutcome(r)
          /\ IF Succeeded(r)
               THEN state' = "ERASE_PAGE_1" /\ UNCHANGED result
               ELSE Fail("IO_ERROR")
    BY <1>3 DEF ErasePage0
  <2>2. /\ r.cell \in {flash[job.target].body, Torn, Erased}
        /\ r.locked \in BOOLEAN
        /\ Succeeded(r) => r.cell = Erased
    BY <2>1, AttemptOutcome
  <2> DEFINE m == flash[job.target].marker
  <2>3. flash' = [flash EXCEPT ![job.target] = [body |-> r.cell, marker |-> m]]
    BY <1>0, <2>1, PageWrites DEF IInv, TypeOK
  <2>4. r.cell \in Bodies
    BY <1>0, <2>2, BlankBodies
  <2>5. r.cell.kind \in {"v1", "v2"} /\ m = "full" => r.cell.payload \in Payloads
    BY <1>0, <2>2, ValidSlot DEF Torn, Erased, IInv, ValidSlotsCarryPayloads
  <2>6. /\ flash' \in [Slots -> Records]
        /\ flash'[job.target] = [body |-> r.cell, marker |-> m]
        /\ ValidSlotsCarryPayloads' /\ ActiveSlotIntact' /\ NothingHidden'
    BY <1>0, <1>3, <2>3, <2>4, <2>5, TargetWriteKeeps DEF ErasePage0
  <2>7. TypeOK'
    <3>1. writeDisabled' \in BOOLEAN
      BY <2>1 DEF LockOutcome
    <3>2. state' \in States /\ result' \in Results
      BY <1>3, <2>1 DEF ErasePage0, Fail, IInv, TypeOK
    <3>3. QED
      BY <1>3, <2>6, <3>1, <3>2 DEF ErasePage0, IInv, TypeOK
  <2>8. JobMatchesActive' /\ SuccessIsDurable'
    BY <1>3, <2>1 DEF ErasePage0, Fail, IInv, JobMatchesActive, NextJob, TargetSlot,
                      SuccessIsDurable
  <2>9. TargetPhase'
    <3>1. state' = "ERASE_PAGE_1" => ~IsValid(flash'[job.target])
      BY <1>0, <1>3, <2>1, <2>2, <2>6, ValidSlot DEF Fail, Erased
    <3>2. progress' = 0
      BY <1>3 DEF ErasePage0, IInv, TargetPhase
    <3>3. QED
      BY <1>3, <2>1, <3>1, <3>2 DEF ErasePage0, Fail, TargetPhase
  <2>10. QED
    BY <2>6, <2>7, <2>8, <2>9 DEF IInv
<1>4. CASE ErasePage1
  <2>1. PICK r \in Attempt(flash[job.target].marker, {"torn"}, {"erased"}) :
          /\ SetMarker(job.target, r.cell)
          /\ LockOutcome(r)
          /\ IF Succeeded(r)
               THEN state' = "PROGRAM_BODY" /\ UNCHANGED result
               ELSE Fail("IO_ERROR")
    BY <1>4 DEF ErasePage1
  <2>2. /\ r.cell \in {flash[job.target].marker, "torn", "erased"}
        /\ r.locked \in BOOLEAN
        /\ Succeeded(r) => r.cell = "erased"
    BY <2>1, AttemptOutcome
  <2> DEFINE b == flash[job.target].body
  <2>3. flash' = [flash EXCEPT ![job.target] = [body |-> b, marker |-> r.cell]]
    BY <1>0, <2>1, PageWrites DEF IInv, TypeOK
  <2>4. r.cell \in Markers
    BY <1>0, <2>2 DEF Markers
  <2>5. b.kind \in {"v1", "v2"} /\ r.cell = "full" => b.payload \in Payloads
    BY <1>0, <2>2, ValidSlot DEF IInv, ValidSlotsCarryPayloads
  <2>6. /\ flash' \in [Slots -> Records]
        /\ flash'[job.target] = [body |-> b, marker |-> r.cell]
        /\ ValidSlotsCarryPayloads' /\ ActiveSlotIntact' /\ NothingHidden'
    BY <1>0, <1>4, <2>3, <2>4, <2>5, TargetWriteKeeps DEF ErasePage1
  <2>7. TypeOK'
    <3>1. writeDisabled' \in BOOLEAN
      BY <2>1 DEF LockOutcome
    <3>2. state' \in States /\ result' \in Results
      BY <1>4, <2>1 DEF ErasePage1, Fail, IInv, TypeOK
    <3>3. QED
      BY <1>4, <2>6, <3>1, <3>2 DEF ErasePage1, IInv, TypeOK
  <2>8. JobMatchesActive' /\ SuccessIsDurable'
    BY <1>4, <2>1 DEF ErasePage1, Fail, IInv, JobMatchesActive, NextJob, TargetSlot,
                      SuccessIsDurable
  <2>9. TargetPhase'
    <3>1. progress' = 0 /\ 0 < BodyChunks
      BY <1>4, RangeAssumption DEF ErasePage1, IInv, TargetPhase
    <3>2. QED
      BY <1>4, <2>1, <2>2, <2>6, <3>1 DEF ErasePage1, Fail, TargetPhase
  <2>10. QED
    BY <2>6, <2>7, <2>8, <2>9 DEF IInv
<1>5. CASE ProgramBody
  <2> DEFINE last == progress + 1 = BodyChunks
             m    == flash[job.target].marker
  <2>1. PICK r \in Attempt(flash[job.target].body, {Torn},
                           IF last THEN {JobBody, Torn} ELSE {Torn}) :
          /\ SetBody(job.target, r.cell)
          /\ LockOutcome(r)
          /\ IF Succeeded(r)
               THEN /\ progress' = progress + 1
                    /\ state' = IF last THEN "VERIFY_BODY" ELSE "PROGRAM_BODY"
                    /\ UNCHANGED result
               ELSE Fail("IO_ERROR") /\ UNCHANGED progress
    BY <1>5 DEF ProgramBody
  <2>2. r.cell \in {flash[job.target].body, Torn, JobBody} /\ r.locked \in BOOLEAN
    BY <2>1, AttemptOutcome
  <2>3. flash' = [flash EXCEPT ![job.target] = [body |-> r.cell, marker |-> m]]
    BY <1>0, <2>1, PageWrites DEF IInv, TypeOK
  <2>4. r.cell \in Bodies
    BY <1>0, <2>2, BlankBodies DEF JobBody, Bodies, Kinds, IInv, TypeOK
  <2>5. m = "erased" /\ progress \in 0 .. BodyChunks /\ progress < BodyChunks
    BY <1>5 DEF ProgramBody, IInv, TypeOK, TargetPhase
  <2>6. /\ flash' \in [Slots -> Records]
        /\ flash'[job.target] = [body |-> r.cell, marker |-> m]
        /\ ValidSlotsCarryPayloads' /\ ActiveSlotIntact' /\ NothingHidden'
    BY <1>0, <1>5, <2>3, <2>4, <2>5, TargetWriteKeeps DEF ProgramBody
  <2>7. TypeOK'
    <3>1. writeDisabled' \in BOOLEAN
      BY <2>1 DEF LockOutcome
    <3>2. state' \in States /\ result' \in Results
      BY <1>5, <2>1 DEF ProgramBody, Fail, IInv, TypeOK
    <3>3. progress' \in 0 .. BodyChunks
      BY <1>5, <2>1, <2>5, RangeAssumption
    <3>4. QED
      BY <1>5, <2>6, <3>1, <3>2, <3>3 DEF ProgramBody, IInv, TypeOK
  <2>8. JobMatchesActive' /\ SuccessIsDurable'
    BY <1>5, <2>1 DEF ProgramBody, Fail, IInv, JobMatchesActive, NextJob,
                      TargetSlot, SuccessIsDurable
  <2>9. TargetPhase'
    <3>1. job' = job
      BY <1>5 DEF ProgramBody
    <3>2. CASE state' = "PROGRAM_BODY"
      <4>1. progress' = progress + 1 /\ progress + 1 # BodyChunks
        BY <2>1, <3>2 DEF Fail
      <4>2. progress' < BodyChunks
        BY <2>5, <4>1, RangeAssumption
      <4>3. QED
        BY <2>5, <2>6, <3>1, <3>2, <4>2 DEF TargetPhase
    <3>3. CASE state' = "VERIFY_BODY"
      BY <2>5, <2>6, <3>1, <3>3 DEF TargetPhase
    <3>4. CASE state' = "ERROR"
      BY <3>4 DEF TargetPhase
    <3>5. QED
      BY <2>1, <3>2, <3>3, <3>4 DEF Fail
  <2>10. QED
    BY <2>6, <2>7, <2>8, <2>9 DEF IInv
<1>6. CASE VerifyBody
  <2>1. ValidSlotsCarryPayloads' /\ ActiveSlotIntact' /\ NothingHidden'
    BY <1>6, QuietStep DEF VerifyBody
  <2>2. TypeOK'
    BY <1>6 DEF VerifyBody, Fail, IInv, TypeOK
  <2>3. JobMatchesActive' /\ SuccessIsDurable'
    BY <1>6 DEF VerifyBody, Fail, IInv, JobMatchesActive, NextJob, TargetSlot,
                SuccessIsDurable
  <2>4. TargetPhase'
    BY <1>6 DEF VerifyBody, Fail, IInv, TargetPhase, JobBody
  <2>5. QED
    BY <2>1, <2>2, <2>3, <2>4 DEF IInv
<1>7. CASE ProgramCommit
  <2> DEFINE b == flash[job.target].body
  <2>1. \E m \in Markers :
          /\ SetMarker(job.target, m)
          /\ writeDisabled' \in BOOLEAN
          /\ commitLockError' \in BOOLEAN
          /\ \/ state' = "VERIFY_FINAL" /\ UNCHANGED result
             \/ state' = "ERROR" /\ result' \in {"IO_ERROR", "POWER_UNSAFE"}
    <3>1. PICK low \in Attempt(flash[job.target].marker, {"torn"}, {"low"}) :
            IF ~Succeeded(low)
              THEN /\ SetMarker(job.target, low.cell)
                   /\ LockOutcome(low)
                   /\ Fail("IO_ERROR")
                   /\ UNCHANGED commitLockError
              ELSE \/ /\ SetMarker(job.target, "low")
                      /\ Fail("POWER_UNSAFE")
                      /\ UNCHANGED <<writeDisabled, commitLockError>>
                   \/ \E high \in Attempt("low", {"torn"}, {"full", "torn"}) :
                        /\ SetMarker(job.target, high.cell)
                        /\ LockOutcome(high)
                        /\ IF high.primary = "OK"
                             THEN /\ state' = "VERIFY_FINAL"
                                  /\ commitLockError' = (commitLockError \/ ~high.locked)
                                  /\ UNCHANGED result
                             ELSE Fail("IO_ERROR") /\ UNCHANGED commitLockError
      BY <1>7 DEF ProgramCommit
    <3>2. writeDisabled \in BOOLEAN /\ commitLockError \in BOOLEAN
      BY DEF IInv, TypeOK
    <3>3. CASE ~Succeeded(low)
      <4>1. low.cell \in Markers
        BY <1>0, AttemptOutcome DEF Markers
      <4>2. QED
        BY <3>1, <3>2, <3>3, <4>1 DEF LockOutcome, Fail
    <3>4. CASE Succeeded(low)
      <4>1. CASE /\ SetMarker(job.target, "low")
                 /\ Fail("POWER_UNSAFE")
                 /\ UNCHANGED <<writeDisabled, commitLockError>>
        BY <3>2, <4>1 DEF Fail, Markers
      <4>2. ASSUME NEW high \in Attempt("low", {"torn"}, {"full", "torn"}),
                   SetMarker(job.target, high.cell),
                   LockOutcome(high),
                   IF high.primary = "OK"
                     THEN /\ state' = "VERIFY_FINAL"
                          /\ commitLockError' = (commitLockError \/ ~high.locked)
                          /\ UNCHANGED result
                     ELSE Fail("IO_ERROR") /\ UNCHANGED commitLockError
            PROVE  \E m \in Markers :
                     /\ SetMarker(job.target, m)
                     /\ writeDisabled' \in BOOLEAN
                     /\ commitLockError' \in BOOLEAN
                     /\ \/ state' = "VERIFY_FINAL" /\ UNCHANGED result
                        \/ state' = "ERROR" /\ result' \in {"IO_ERROR", "POWER_UNSAFE"}
        <5>1. high.cell \in Markers
          BY <4>2, AttemptOutcome DEF Markers
        <5>2. writeDisabled' \in BOOLEAN /\ commitLockError' \in BOOLEAN
          BY <3>2, <4>2 DEF LockOutcome
        <5>3. \/ state' = "VERIFY_FINAL" /\ UNCHANGED result
              \/ state' = "ERROR" /\ result' \in {"IO_ERROR", "POWER_UNSAFE"}
          BY <4>2 DEF Fail
        <5>4. QED
          BY <4>2, <5>1, <5>2, <5>3
      <4>3. QED
        BY <3>1, <3>4, <4>1, <4>2
    <3>5. QED
      BY <3>3, <3>4
  <2>2. PICK m \in Markers :
          /\ SetMarker(job.target, m)
          /\ writeDisabled' \in BOOLEAN
          /\ commitLockError' \in BOOLEAN
          /\ \/ state' = "VERIFY_FINAL" /\ UNCHANGED result
             \/ state' = "ERROR" /\ result' \in {"IO_ERROR", "POWER_UNSAFE"}
    BY <2>1
  <2>3. flash' = [flash EXCEPT ![job.target] = [body |-> b, marker |-> m]]
    BY <1>0, <2>2, PageWrites DEF IInv, TypeOK
  <2>4. b = JobBody /\ job.payload \in Payloads
    BY <1>7 DEF ProgramCommit, IInv, TargetPhase, JobMatchesActive
  <2>5. /\ flash' \in [Slots -> Records]
        /\ flash'[job.target] = [body |-> b, marker |-> m]
        /\ ValidSlotsCarryPayloads' /\ ActiveSlotIntact' /\ NothingHidden'
    BY <1>0, <1>7, <2>3, <2>4, TargetWriteKeeps DEF ProgramCommit, JobBody
  <2>6. TypeOK'
    BY <1>7, <2>2, <2>5 DEF ProgramCommit, IInv, TypeOK
  <2>7. JobMatchesActive' /\ SuccessIsDurable'
    BY <1>7, <2>2 DEF ProgramCommit, IInv, JobMatchesActive, NextJob,
                      TargetSlot, SuccessIsDurable
  <2>8. TargetPhase'
    BY <1>7, <2>2, <2>4, <2>5 DEF ProgramCommit, TargetPhase, JobBody
  <2>9. QED
    BY <2>5, <2>6, <2>7, <2>8 DEF IInv
<1>8. CASE VerifyFinal
  <2>1. CASE ~IsValid(flash[job.target])
    <3>1. ValidSlotsCarryPayloads' /\ ActiveSlotIntact' /\ NothingHidden'
      BY <1>8, <2>1, QuietStep DEF VerifyFinal
    <3>2. TypeOK'
      BY <1>8, <2>1 DEF VerifyFinal, Fail, IInv, TypeOK
    <3>3. JobMatchesActive' /\ TargetPhase' /\ SuccessIsDurable'
      BY <1>8, <2>1 DEF VerifyFinal, Fail, JobMatchesActive, TargetPhase,
                        SuccessIsDurable
    <3>4. QED
      BY <3>1, <3>2, <3>3 DEF IInv
  <2>2. CASE IsValid(flash[job.target])
    <3>1. /\ active' = [slot |-> job.target, seq |-> job.seq, kind |-> "v2",
                        payload |-> job.payload]
          /\ state' = "COMPLETE"
          /\ result' \in {"COMMITTED_LOCK_ERROR", "SUCCESS"}
          /\ flash' = flash /\ job' = job
      BY <1>8, <2>2 DEF VerifyFinal
    <3>2. /\ flash[job.target].body = JobBody
          /\ job = NextJob(job.payload) /\ job.payload \in Payloads
      BY <1>8 DEF VerifyFinal, IInv, TargetPhase, JobMatchesActive
    <3>3. TypeOK'
      BY <1>8, <3>1 DEF VerifyFinal, IInv, TypeOK
    <3>4. ValidSlotsCarryPayloads'
      BY <3>1 DEF IInv, ValidSlotsCarryPayloads
    <3>5. ActiveSlotIntact' /\ NothingHidden'
      BY <1>0, <2>2, <3>1, <3>2
         DEF ActiveSlotIntact, NothingHidden, JobBody, Slots, NoSlot
    <3>6. SuccessIsDurable'
      <4>1. job.target = TargetSlot
        BY <3>2 DEF NextJob
      <4>2. active.slot # NoSlot => flash[TargetSlot].body.seq = NextSequence(active.seq)
        BY <3>2, <4>1 DEF NextJob, JobBody
      <4>3. Loaded(flash) = ActiveOf(flash, TargetSlot)
        BY <2>2, <4>1, <4>2, LoadTarget
           DEF IInv, TypeOK, ActiveSlotIntact, NothingHidden
      <4>4. Loaded(flash) = [slot |-> job.target, seq |-> job.seq, kind |-> "v2",
                             payload |-> job.payload]
        BY <3>2, <4>1, <4>3 DEF ActiveOf, JobBody
      <4>5. QED
        BY <3>1, <4>4 DEF SuccessIsDurable
    <3>7. JobMatchesActive' /\ TargetPhase'
      BY <3>1 DEF JobMatchesActive, TargetPhase
    <3>8. QED
      BY <3>3, <3>4, <3>5, <3>6, <3>7 DEF IInv
  <2>3. QED
    BY <2>1, <2>2
<1>9. QED
  BY <1>1, <1>2, <1>3, <1>4, <1>5, <1>6, <1>7, <1>8 DEF Process


LEMMA StepIInv == IInv /\ [Next]_vars => IInv'
<1> SUFFICES ASSUME IInv, [Next]_vars PROVE IInv'
  OBVIOUS
<1>1. CASE Process
  BY <1>1, ProcessKeepsIInv
<1>2. CASE PowerCut
  BY <1>2, CutKeepsIInv
<1>3. CASE \/ \E p \in Payloads : RequestSave(p)
           \/ RequestFactoryReset
           \/ RequestUnencodable
           \/ CancelPending
           \/ AcknowledgeResult
  BY <1>3, RequestsKeepIInv
<1>4. CASE UNCHANGED vars
  <2>1. ValidSlotsCarryPayloads' /\ ActiveSlotIntact' /\ NothingHidden'
    BY <1>4, QuietStep DEF vars
  <2>2. TypeOK' /\ JobMatchesActive' /\ TargetPhase' /\ SuccessIsDurable'
    BY <1>4 DEF vars, IInv, TypeOK, JobMatchesActive, NextJob, TargetSlot,
                TargetPhase, JobBody, SuccessIsDurable
  <2>3. QED
    BY <2>1, <2>2 DEF IInv
<1>5. QED
  BY <1>1, <1>2, <1>3, <1>4 DEF Next

\* IInv holds in every reachable state.
THEOREM Invariance == Spec => []IInv
BY InitIInv, StepIInv, PTL DEF Spec

\* Type correctness.
THEOREM TypeCorrect == Spec => []TypeOK
<1>1. IInv => TypeOK
  BY DEF IInv
<1>2. QED
  BY <1>1, Invariance, PTL

\* No step of a save, of a failed save or of a restart in the middle of one
\* ever disturbs the record the firmware runs on.
THEOREM ActiveSlotSafe == Spec => []ActiveSlotIntact
<1>1. IInv => ActiveSlotIntact
  BY DEF IInv
<1>2. QED
  BY <1>1, Invariance, PTL

\* A save reported as successful is the one the next restart loads.
THEOREM SuccessSafe == Spec => []SuccessIsDurable
<1>1. IInv => SuccessIsDurable
  BY DEF IInv
<1>2. QED
  BY <1>1, Invariance, PTL

\* No state of a write before the marker was finished shows a restart a
\* committed record, and the finished marker covers the body that was verified.
THEOREM CommitSafe == Spec => []CommitFollowsBody
<1>1. IInv => CommitFollowsBody
  BY DEF IInv, TargetPhase, CommitFollowsBody
<1>2. QED
  BY <1>1, Invariance, PTL

-----------------------------------------------------------------------------
(* The firmware only moves forward: what a restart would load is the active *)
(* record or a newer one.                                                   *)

AheadOf(f) ==
  active.slot # NoSlot =>
    Loaded(f) = active \/ IsSequenceNewer(Loaded(f).seq, active.seq)

Ahead == AheadOf(flash)

\* Every write leaves the flash as it was, or the target without a record that
\* loads, or the target with the body of the job.
LEMMA WriteShape ==
  ASSUME IInv, Process \/ PowerCut
  PROVE  \/ UNCHANGED flash
         \/ /\ state \in BusyStates
            /\ \E b \in Bodies, m \in Markers :
                 /\ flash' = [flash EXCEPT ![job.target] = [body |-> b, marker |-> m]]
                 /\ m # "full" \/ b.kind \notin {"v1", "v2"} \/ b = JobBody
<1> USE DEF BusyStates, WriteStates
<1> DEFINE old == flash[job.target]
           Shape(b, m) ==
             /\ flash' = [flash EXCEPT ![job.target] = [body |-> b, marker |-> m]]
             /\ m # "full" \/ b.kind \notin {"v1", "v2"} \/ b = JobBody
<1>0. /\ job.target \in Slots /\ flash \in [Slots -> Records]
      /\ old.body \in Bodies /\ old.marker \in Markers
      /\ old = [body |-> old.body, marker |-> old.marker]
  BY DEF IInv, TypeOK, Records
<1>1. /\ {Torn, Erased} \subseteq Bodies
      /\ \A b \in {Torn, Erased} : b.kind \notin {"v1", "v2"}
      /\ {"torn", "erased", "low", "full"} \subseteq Markers
  BY BlankBodies DEF Torn, Erased, Markers
<1>2. JobBody \in Bodies
  BY DEF JobBody, Bodies, Kinds, IInv, TypeOK
<1>3. CASE PowerUnsafe \/ Prepare \/ VerifyBody \/ VerifyFinal
  BY <1>3 DEF PowerUnsafe, Prepare, VerifyBody, VerifyFinal
<1>4. CASE ErasePage0
  <2>1. PICK r \in Attempt(old.body, {Torn}, {Erased}) : SetBody(job.target, r.cell)
    BY <1>4 DEF ErasePage0
  <2>2. r.cell \in {old.body, Torn, Erased}
    BY AttemptOutcome
  <2>3. flash' = [flash EXCEPT ![job.target] = [body |-> r.cell, marker |-> old.marker]]
    BY <1>0, <2>1, PageWrites
  <2>4. CASE r.cell = old.body
    BY <1>0, <2>3, <2>4
  <2>5. CASE r.cell \in {Torn, Erased}
    <3>1. Shape(r.cell, old.marker)
      BY <1>1, <2>3, <2>5
    <3>2. QED
      BY <1>0, <1>1, <1>4, <2>5, <3>1 DEF ErasePage0
  <2>6. QED
    BY <2>2, <2>4, <2>5
<1>5. CASE ErasePage1
  <2>1. PICK r \in Attempt(old.marker, {"torn"}, {"erased"}) :
          SetMarker(job.target, r.cell)
    BY <1>5 DEF ErasePage1
  <2>2. r.cell \in {old.marker, "torn", "erased"}
    BY AttemptOutcome
  <2>3. flash' = [flash EXCEPT ![job.target] = [body |-> old.body, marker |-> r.cell]]
    BY <1>0, <2>1, PageWrites
  <2>4. CASE r.cell = old.marker
    BY <1>0, <2>3, <2>4
  <2>5. CASE r.cell \in {"torn", "erased"}
    <3>1. Shape(old.body, r.cell)
      BY <2>3, <2>5
    <3>2. QED
      BY <1>0, <1>1, <1>5, <2>5, <3>1 DEF ErasePage1
  <2>6. QED
    BY <2>2, <2>4, <2>5
<1>6. CASE ProgramBody
  <2>1. PICK r \in Attempt(old.body, {Torn},
                           IF progress + 1 = BodyChunks THEN {JobBody, Torn}
                                                        ELSE {Torn}) :
          SetBody(job.target, r.cell)
    BY <1>6 DEF ProgramBody
  <2>2. r.cell \in Bodies
    BY <1>0, <1>1, <1>2, AttemptOutcome
  <2>3. flash' = [flash EXCEPT ![job.target] = [body |-> r.cell, marker |-> old.marker]]
    BY <1>0, <2>1, PageWrites
  <2>4. Shape(r.cell, old.marker)
    BY <1>6, <2>3 DEF ProgramBody, IInv, TargetPhase
  <2>5. QED
    BY <1>0, <1>6, <2>2, <2>4 DEF ProgramBody
<1>7. CASE ProgramCommit
  <2>1. \E m \in Markers : SetMarker(job.target, m)
    <3>1. PICK low \in Attempt(old.marker, {"torn"}, {"low"}) :
            \/ SetMarker(job.target, low.cell)
            \/ SetMarker(job.target, "low")
            \/ \E high \in Attempt("low", {"torn"}, {"full", "torn"}) :
                 SetMarker(job.target, high.cell)
      BY <1>7 DEF ProgramCommit
    <3>2. low.cell \in Markers /\ "low" \in Markers
      BY <1>0, AttemptOutcome DEF Markers
    <3>3. \A high \in Attempt("low", {"torn"}, {"full", "torn"}) : high.cell \in Markers
      BY AttemptOutcome DEF Markers
    <3>4. QED
      BY <3>1, <3>2, <3>3
  <2>2. PICK m \in Markers : SetMarker(job.target, m)
    BY <2>1
  <2>3. flash' = [flash EXCEPT ![job.target] = [body |-> old.body, marker |-> m]]
    BY <1>0, <2>2, PageWrites
  <2>4. Shape(old.body, m)
    BY <1>7, <2>3 DEF ProgramCommit, IInv, TargetPhase
  <2>5. QED
    BY <1>0, <1>7, <2>4 DEF ProgramCommit
<1>8. CASE PowerCut
  <2>1. PICK b \in BodiesAfterCut, m \in MarkersAfterCut :
          flash' = [flash EXCEPT ![job.target] = [body |-> b, marker |-> m]]
    BY <1>8, CutWrite
  <2>2. b = old.body /\ m = old.marker => UNCHANGED flash
    BY <1>0, <2>1
  <2>3. CASE state = "ERASE_PAGE_0"
    <3>1. b \in {old.body, Torn, Erased} /\ m = old.marker
      BY <2>1, <2>3 DEF BodiesAfterCut, MarkersAfterCut
    <3>2. CASE b \in {Torn, Erased}
      <4>1. Shape(b, m) /\ b \in Bodies /\ m \in Markers
        BY <1>0, <1>1, <2>1, <3>1, <3>2
      <4>2. QED
        BY <2>3, <4>1
    <3>3. QED
      BY <2>2, <3>1, <3>2
  <2>4. CASE state = "ERASE_PAGE_1"
    <3>1. b = old.body /\ m \in {old.marker, "torn", "erased"}
      BY <2>1, <2>4 DEF BodiesAfterCut, MarkersAfterCut
    <3>2. CASE m \in {"torn", "erased"}
      <4>1. Shape(b, m) /\ b \in Bodies /\ m \in Markers
        BY <1>0, <1>1, <2>1, <3>1, <3>2
      <4>2. QED
        BY <2>4, <4>1
    <3>3. QED
      BY <2>2, <3>1, <3>2
  <2>5. CASE state = "PROGRAM_BODY"
    <3>1. b \in {old.body, Torn, JobBody} /\ m = old.marker /\ m = "erased"
      BY <2>1, <2>5 DEF BodiesAfterCut, MarkersAfterCut, IInv, TargetPhase
    <3>2. Shape(b, m) /\ b \in Bodies /\ m \in Markers
      BY <1>0, <1>1, <1>2, <2>1, <3>1
    <3>3. QED
      BY <2>5, <3>2
  <2>6. CASE state = "PROGRAM_COMMIT"
    <3>1. b = old.body /\ old.body = JobBody
          /\ m \in {old.marker, "torn", "low", "full"}
      BY <2>1, <2>6 DEF BodiesAfterCut, MarkersAfterCut, IInv, TargetPhase
    <3>2. Shape(b, m) /\ b \in Bodies /\ m \in Markers
      BY <1>0, <1>1, <2>1, <3>1
    <3>3. QED
      BY <2>6, <3>2
  <2>7. CASE state \notin {"ERASE_PAGE_0", "ERASE_PAGE_1", "PROGRAM_BODY",
                           "PROGRAM_COMMIT"}
    <3>1. BodiesAfterCut = {old.body} /\ MarkersAfterCut = {old.marker}
      BY <2>7 DEF BodiesAfterCut, MarkersAfterCut
    <3>2. QED
      BY <2>1, <2>2, <3>1
  <2>8. QED
    BY <2>3, <2>4, <2>5, <2>6, <2>7
<1>9. QED
  BY <1>3, <1>4, <1>5, <1>6, <1>7, <1>8 DEF Process

\* A write keeps the record that would load at or ahead of the active one, and
\* never leaves none.
LEMMA WriteKeepsAhead ==
  ASSUME IInv, Ahead, Process \/ PowerCut
  PROVE  /\ AheadOf(flash')
         /\ active.slot # NoSlot => Loaded(flash').slot # NoSlot
<1>1. active.slot # NoSlot => Loaded(flash).slot # NoSlot
  BY DEF IInv, TypeOK, ActiveSlotIntact, Loaded, Selected, ActiveOf, Slots, NoSlot
<1>2. CASE UNCHANGED flash
  BY <1>1, <1>2 DEF Ahead, AheadOf
<1>3. CASE ~UNCHANGED flash
  <2>1. state \in BusyStates
    BY <1>3, WriteShape
  <2>2. PICK b \in Bodies, m \in Markers :
          /\ flash' = [flash EXCEPT ![job.target] = [body |-> b, marker |-> m]]
          /\ m # "full" \/ b.kind \notin {"v1", "v2"} \/ b = JobBody
    BY <1>3, WriteShape
  <2>3. /\ job = NextJob(job.payload) /\ job.payload \in Payloads
        /\ TypeOK /\ NothingHidden
    BY <2>1 DEF IInv, JobMatchesActive
  <2>4. b.kind \in {"v1", "v2"} /\ m = "full" => b.payload \in Payloads
    BY <2>2, <2>3 DEF JobBody
  <2>5. /\ flash' \in [Slots -> Records]
        /\ flash'[job.target] = [body |-> b, marker |-> m]
        /\ active.slot # NoSlot => flash'[active.slot] = flash[active.slot]
        /\ active.slot = NoSlot => flash'["B"] = flash["B"]
        /\ job.target = TargetSlot
    BY <2>1, <2>2, <2>4, TargetWrite
  <2>6. /\ active.slot # NoSlot =>
             /\ IsValid(flash'[active.slot])
             /\ flash'[active.slot].body = [kind |-> active.kind, seq |-> active.seq,
                                            payload |-> active.payload]
        /\ active.slot = NoSlot => ~IsValid(flash'["B"])
    BY <2>5 DEF IInv, ActiveSlotIntact, NothingHidden
  <2>7. CASE ~IsValid(flash'[TargetSlot])
    <3>1. Loaded(flash') = active
      BY <2>3, <2>5, <2>6, <2>7, LoadTarget
    <3>2. QED
      BY <3>1 DEF AheadOf
  <2>8. CASE IsValid(flash'[TargetSlot])
    <3>1. job.target \in Slots
      BY <2>3 DEF TypeOK
    <3>2. flash'[TargetSlot].body = JobBody
      BY <2>2, <2>5, <2>8, <3>1, ValidSlot
    <3>3. active.slot # NoSlot => JobBody.seq = NextSequence(active.seq)
      BY <2>3 DEF NextJob, JobBody
    <3>4. Loaded(flash') = ActiveOf(flash', TargetSlot)
      BY <2>3, <2>5, <2>6, <2>8, <3>2, <3>3, LoadTarget
    <3>5. /\ active.slot # NoSlot => Loaded(flash').seq = NextSequence(active.seq)
          /\ Loaded(flash').slot = TargetSlot
      BY <3>2, <3>3, <3>4 DEF ActiveOf
    <3>6. active.seq \in SeqNums
      BY <2>3 DEF TypeOK
    <3>7. QED
      BY <3>5, <3>6, SuccessorIsNewer DEF AheadOf, TargetSlot, NoSlot
  <2>9. QED
    BY <2>5, <2>6, <2>7, <2>8, <2>3, LoadTarget
<1>4. QED
  BY <1>2, <1>3

LEMMA StepAhead ==
  ASSUME IInv, Ahead, [Next]_vars
  PROVE  /\ Ahead'
         /\ active.slot # NoSlot =>
              /\ active'.slot # NoSlot
              /\ active' # active => IsSequenceNewer(active'.seq, active.seq)
<1>1. CASE VerifyFinal /\ active' # active
  <2>1. IInv' /\ state' = "COMPLETE" /\ state \in BusyStates
    BY <1>1, ProcessKeepsIInv DEF Process, VerifyFinal, BusyStates, WriteStates
  <2>2. /\ active' = [slot |-> job.target, seq |-> job.seq, kind |-> "v2",
                      payload |-> job.payload]
        /\ result' \in {"SUCCESS", "COMMITTED_LOCK_ERROR"} /\ job' = job
    BY <1>1 DEF VerifyFinal
  <2>3. job = NextJob(job.payload) /\ job.target \in Slots /\ active.seq \in SeqNums
    BY <2>1 DEF IInv, JobMatchesActive, TypeOK
  <2>4. Loaded(flash)' = active'
    BY <2>1, <2>2 DEF IInv, SuccessIsDurable
  <2>5. active.slot # NoSlot => IsSequenceNewer(active'.seq, active.seq)
    <3>1. active.slot # NoSlot => active'.seq = NextSequence(active.seq)
      BY <2>2, <2>3 DEF NextJob
    <3>2. QED
      BY <2>3, <3>1, SuccessorIsNewer
  <2>6. QED
    BY <2>2, <2>3, <2>4, <2>5 DEF Ahead, AheadOf, Slots, NoSlot
<1>2. CASE Process /\ active' = active
  BY <1>2, WriteKeepsAhead DEF Ahead, AheadOf
<1>3. CASE PowerCut
  <2>1. active' = Loaded(flash')
    BY <1>3 DEF PowerCut
  <2>2. AheadOf(flash') /\ (active.slot # NoSlot => Loaded(flash').slot # NoSlot)
    BY <1>3, WriteKeepsAhead
  <2>3. QED
    BY <2>1, <2>2 DEF Ahead, AheadOf
<1>4. CASE UNCHANGED <<flash, active>>
  BY <1>4 DEF Ahead, AheadOf
<1>5. Next => Process \/ PowerCut \/ UNCHANGED <<flash, active>>
  BY DEF Next, RequestSave, RequestFactoryReset, RequestUnencodable,
         CancelPending, AcknowledgeResult
<1>6. Process => active' = active \/ VerifyFinal
  BY DEF Process, PowerUnsafe, Prepare, ErasePage0, ErasePage1, ProgramBody,
         VerifyBody, ProgramCommit
<1>7. QED
  BY <1>1, <1>2, <1>3, <1>4, <1>5, <1>6 DEF vars

\* The firmware never moves to an older record, nor back to having none,
\* whatever saves, failed saves and restarts come together.
THEOREM MovesForward == Spec => ActiveMovesForward
<1>1. Init => Ahead
  BY DEF Init, Ahead, AheadOf
<1>2. Spec => []Ahead
  BY <1>1, StepAhead, Invariance, PTL DEF Spec
<1>3. IInv /\ Ahead /\ [Next]_vars =>
        [active.slot # NoSlot =>
           /\ active'.slot # NoSlot
           /\ active' # active => IsSequenceNewer(active'.seq, active.seq)]_vars
  BY StepAhead
<1>4. QED
  BY <1>2, <1>3, Invariance, PTL DEF Spec, ActiveMovesForward

-----------------------------------------------------------------------------
(* Refinement: the store implements the atomic configuration.              *)

\* The refinement mapping, under names of its own.
Durable  == Loaded(flash).payload
Held     == active.payload
Proposal == IF state \in BusyStates THEN job.payload ELSE NoPayload

LEMMA BusyProposal ==
  ASSUME IInv, state \in BusyStates
  PROVE  Proposal = job.payload /\ Proposal \in Payloads /\ Proposal # NoPayload
BY PayloadAssumption DEF IInv, JobMatchesActive, Proposal

\* What a restart would load after a write to the target of a job.
LEMMA DurableAfterWrite ==
  ASSUME IInv, state \in BusyStates,
         flash' \in [Slots -> Records],
         active.slot # NoSlot => flash'[active.slot] = flash[active.slot],
         active.slot = NoSlot => flash'["B"] = flash["B"]
  PROVE  /\ ~IsValid(flash'[job.target]) => Durable' = Held
         /\ flash'[job.target].body = JobBody => Durable' \in {Held, Proposal}
<1>1. job = NextJob(job.payload) /\ job.target = TargetSlot
  BY DEF IInv, JobMatchesActive, NextJob
<1>2. /\ active.slot # NoSlot =>
           /\ IsValid(flash'[active.slot])
           /\ flash'[active.slot].body = [kind |-> active.kind, seq |-> active.seq,
                                          payload |-> active.payload]
      /\ active.slot = NoSlot => ~IsValid(flash'["B"])
  BY DEF IInv, ActiveSlotIntact, NothingHidden
<1>3. TypeOK /\ NothingHidden
  BY DEF IInv
<1>4. ~IsValid(flash'[job.target]) => Loaded(flash') = active
  BY <1>1, <1>2, <1>3, LoadTarget
<1>5. ASSUME flash'[job.target].body = JobBody, IsValid(flash'[job.target])
      PROVE  Loaded(flash').payload = job.payload
  <2>1. active.slot # NoSlot => flash'[TargetSlot].body.seq = NextSequence(active.seq)
    BY <1>1, <1>5 DEF NextJob, JobBody
  <2>2. Loaded(flash') = ActiveOf(flash', TargetSlot)
    BY <1>1, <1>2, <1>3, <1>5, <2>1, LoadTarget
  <2>3. QED
    BY <1>1, <1>5, <2>2 DEF ActiveOf, JobBody
<1>6. QED
  BY <1>4, <1>5, BusyProposal DEF Durable, Held

\* The same, for the two ways a page of the target is written.
LEMMA DurableAfterPage ==
  ASSUME IInv, state \in BusyStates,
         NEW b \in Bodies, NEW m \in Markers,
         flash' = [flash EXCEPT ![job.target] = [body |-> b, marker |-> m]],
         b.kind \in {"v1", "v2"} /\ m = "full" => b.payload \in Payloads
  PROVE  /\ m # "full" \/ b.kind \notin {"v1", "v2"} => Durable' = Held
         /\ b = JobBody => Durable' \in {Held, Proposal}
<1>1. /\ flash' \in [Slots -> Records]
      /\ flash'[job.target] = [body |-> b, marker |-> m]
      /\ active.slot # NoSlot => flash'[active.slot] = flash[active.slot]
      /\ active.slot = NoSlot => flash'["B"] = flash["B"]
      /\ job.target = TargetSlot
  BY TargetWrite
<1>2. job.target \in Slots
  BY DEF IInv, TypeOK
<1>3. m # "full" \/ b.kind \notin {"v1", "v2"} => ~IsValid(flash'[job.target])
  BY <1>1, <1>2, ValidSlot
<1>4. QED
  BY <1>1, <1>3, DurableAfterWrite

\* The abstract actions in terms of the mapping, and the abstract stutter.
LEMMA AbstractStutter ==
  ASSUME UNCHANGED <<Durable, Held, Proposal>>
  PROVE  UNCHANGED Atomic!avars
BY DEF Atomic!avars, Durable, Held, Proposal

LEMMA AbstractPropose ==
  ASSUME NEW p \in Payloads, Proposal = NoPayload, Proposal' = p,
         UNCHANGED <<Durable, Held>>
  PROVE  Atomic!Next
BY DEF Atomic!Next, Atomic!Propose, Durable, Held, Proposal

LEMMA AbstractWrite ==
  ASSUME Proposal # NoPayload, Durable' \in {Held, Proposal},
         UNCHANGED <<Held, Proposal>>
  PROVE  Atomic!Next
BY DEF Atomic!Next, Atomic!Write, Durable, Held, Proposal

LEMMA AbstractConfirm ==
  ASSUME Proposal # NoPayload, Durable = Proposal, Held' = Proposal,
         Proposal' = NoPayload, UNCHANGED Durable
  PROVE  Atomic!Next
BY DEF Atomic!Next, Atomic!Confirm, Durable, Held, Proposal

LEMMA AbstractGiveUp ==
  ASSUME Proposal # NoPayload, Durable' \in {Durable, Held, Proposal},
         Proposal' = NoPayload, UNCHANGED Held
  PROVE  Atomic!Next
BY DEF Atomic!Next, Atomic!GiveUp, Durable, Held, Proposal

LEMMA AbstractRestart ==
  ASSUME \/ Proposal = NoPayload /\ UNCHANGED Durable
         \/ Proposal # NoPayload /\ Durable' \in {Durable, Held, Proposal},
         Held' = Durable', Proposal' = NoPayload
  PROVE  Atomic!Next
BY DEF Atomic!Next, Atomic!Restart, Durable, Held, Proposal

\* Initial states map to initial states.
LEMMA InitRefines == Init => Atomic!Init
<1> SUFFICES ASSUME Init PROVE Atomic!Init
  OBVIOUS
<1>1. active = Loaded(flash) /\ TypeOK
  BY InitIInv DEF Init, IInv
<1>2. active.payload \in Payloads \cup {NoPayload}
  BY <1>1 DEF TypeOK
<1>3. state \notin BusyStates
  BY DEF Init, BusyStates, WriteStates
<1>4. QED
  BY <1>1, <1>2, <1>3 DEF Atomic!Init

\* A step that leaves the flash and the active record alone leaves what they
\* map to alone.
LEMMA QuietDurable ==
  /\ UNCHANGED flash => UNCHANGED Durable
  /\ UNCHANGED active => UNCHANGED Held
BY DEF Durable, Held

\* Requests, cancellation and acknowledgement map to Propose, GiveUp or a
\* stutter.
LEMMA RequestsRefine ==
  ASSUME IInv,
         \/ \E p \in Payloads : RequestSave(p)
         \/ RequestFactoryReset
         \/ RequestUnencodable
         \/ CancelPending
         \/ AcknowledgeResult
  PROVE  [Atomic!Next]_Atomic!avars
<1> USE DEF BusyStates, WriteStates
<1>1. ASSUME NEW p \in Payloads, state = "IDLE", AcceptJob(p),
             UNCHANGED <<flash, active>>
      PROVE  Atomic!Next
  <2>1. Proposal = NoPayload /\ Proposal' = p
    BY <1>1 DEF AcceptJob, NextJob, Proposal
  <2>2. QED
    BY <1>1, <2>1, QuietDurable, AbstractPropose
<1>2. ASSUME NEW p \in Payloads, RequestSave(p)
      PROVE  [Atomic!Next]_Atomic!avars
  <2>1. CASE Unchanged(p)
    <3>1. Proposal = NoPayload /\ Proposal' = NoPayload
      BY <1>2, <2>1 DEF RequestSave, Proposal
    <3>2. UNCHANGED <<flash, active>>
      BY <1>2 DEF RequestSave
    <3>3. QED
      BY <3>1, <3>2, QuietDurable, AbstractStutter
  <2>2. CASE ~Unchanged(p)
    BY <1>1, <1>2, <2>2 DEF RequestSave
  <2>3. QED
    BY <2>1, <2>2
<1>3. CASE RequestFactoryReset
  BY <1>1, <1>3, PayloadAssumption DEF RequestFactoryReset
<1>4. CASE RequestUnencodable \/ AcknowledgeResult
  <2>1. Proposal = NoPayload /\ Proposal' = NoPayload
    BY <1>4 DEF RequestUnencodable, AcknowledgeResult, Fail, Proposal
  <2>2. UNCHANGED <<flash, active>>
    BY <1>4 DEF RequestUnencodable, AcknowledgeResult
  <2>3. QED
    BY <2>1, <2>2, QuietDurable, AbstractStutter
<1>5. CASE CancelPending
  <2>1. Proposal # NoPayload /\ Proposal' = NoPayload
    <3>1. state \in BusyStates /\ state' = "IDLE"
      BY <1>5 DEF CancelPending
    <3>2. QED
      BY <3>1, BusyProposal DEF Proposal
  <2>2. UNCHANGED <<flash, active>>
    BY <1>5 DEF CancelPending
  <2>3. QED
    BY <2>1, <2>2, QuietDurable, AbstractGiveUp
<1>6. QED
  BY <1>2, <1>3, <1>4, <1>5

\* A step of ConfigStore_Process that writes: Write when it succeeds, GiveUp
\* when it fails.
LEMMA WriteRefines ==
  ASSUME IInv, state \in BusyStates, UNCHANGED <<active, job>>,
         \/ state' \in BusyStates /\ Durable' \in {Held, Proposal}
         \/ state' = "ERROR" /\ Durable' \in {Durable, Held, Proposal}
  PROVE  Atomic!Next
<1>1. Proposal # NoPayload /\ Held' = Held
  BY BusyProposal, QuietDurable
<1>2. CASE state' \in BusyStates /\ Durable' \in {Held, Proposal}
  <2>1. Proposal' = Proposal
    BY <1>2 DEF Proposal
  <2>2. QED
    BY <1>1, <1>2, <2>1, AbstractWrite
<1>3. CASE state' = "ERROR" /\ Durable' \in {Durable, Held, Proposal}
  <2>1. Proposal' = NoPayload
    BY <1>3 DEF Proposal, BusyStates, WriteStates
  <2>2. QED
    BY <1>1, <1>3, <2>1, AbstractGiveUp
<1>4. QED
  BY <1>2, <1>3

\* A step of ConfigStore_Process that writes nothing: a stutter, or GiveUp.
LEMMA NoWriteRefines ==
  ASSUME IInv, state \in BusyStates, UNCHANGED <<flash, active, job>>,
         state' \in BusyStates \cup {"ERROR"}
  PROVE  [Atomic!Next]_Atomic!avars
<1>1. Proposal # NoPayload /\ UNCHANGED <<Durable, Held>>
  BY BusyProposal, QuietDurable
<1>2. CASE state' \in BusyStates
  <2>1. Proposal' = Proposal
    BY <1>2 DEF Proposal
  <2>2. QED
    BY <1>1, <2>1, AbstractStutter
<1>3. CASE state' = "ERROR"
  <2>1. Proposal' = NoPayload
    BY <1>3 DEF Proposal, BusyStates, WriteStates
  <2>2. QED
    BY <1>1, <2>1, AbstractGiveUp
<1>4. QED
  BY <1>2, <1>3

\* A restart maps to Restart.
LEMMA CutRefines ==
  ASSUME IInv, PowerCut
  PROVE  Atomic!Next
<1>1. Held' = Durable' /\ Proposal' = NoPayload
  BY DEF PowerCut, Held, Durable, Proposal, BusyStates, WriteStates
<1>2. PICK b \in BodiesAfterCut, m \in MarkersAfterCut :
        flash' = [flash EXCEPT ![job.target] = [body |-> b, marker |-> m]]
  BY CutWrite
<1>3. /\ job.target \in Slots /\ flash \in [Slots -> Records]
      /\ flash[job.target] \in Records
  BY DEF IInv, TypeOK
<1> DEFINE old == flash[job.target]
<1>4. b = old.body /\ m = old.marker => UNCHANGED Durable
  <2>1. old = [body |-> old.body, marker |-> old.marker]
    BY <1>3 DEF Records
  <2>2. QED
    BY <1>2, <1>3, <2>1, QuietDurable
<1>5. CASE state \notin BusyStates
  <2>1. b = old.body /\ m = old.marker
    <3>1. state \notin {"ERASE_PAGE_0", "ERASE_PAGE_1", "PROGRAM_BODY",
                       "PROGRAM_COMMIT"}
      BY <1>5 DEF BusyStates, WriteStates
    <3>2. BodiesAfterCut = {old.body}
      BY <3>1 DEF BodiesAfterCut
    <3>3. MarkersAfterCut = {old.marker}
      BY <3>1 DEF MarkersAfterCut
    <3>4. QED
      BY <3>2, <3>3
  <2>2. Proposal = NoPayload
    BY <1>5 DEF Proposal
  <2>3. QED
    BY <1>1, <1>4, <2>1, <2>2, AbstractRestart
<1>6. CASE state \in BusyStates
  <2>1. /\ \/ b \in {old.body, Torn, Erased}
           \/ state = "PROGRAM_BODY" /\ b = JobBody
        /\ \/ m = old.marker
           \/ state = "ERASE_PAGE_1" /\ m \in {"torn", "erased"}
           \/ state = "PROGRAM_COMMIT"
    BY <1>2 DEF BodiesAfterCut, MarkersAfterCut
  <2>2. state = "PROGRAM_COMMIT" => b = JobBody
    <3>1. state = "PROGRAM_COMMIT" => b = old.body
      BY <1>2 DEF BodiesAfterCut
    <3>2. QED
      BY <3>1 DEF IInv, TargetPhase
  <2>3. b \in Bodies /\ m \in Markers
    <3>1. m \in Markers
      BY <1>2, <1>3 DEF MarkersAfterCut, Records, Markers
    <3>2. JobBody \in Bodies
      BY DEF JobBody, Bodies, Kinds, IInv, TypeOK
    <3>3. QED
      BY <1>3, <2>1, <3>1, <3>2, BlankBodies DEF Records
  <2>4. b.kind \in {"v1", "v2"} /\ m = "full" => b.payload \in Payloads
    <3>1. b = JobBody => b.payload \in Payloads
      BY <1>6 DEF JobBody, IInv, JobMatchesActive
    <3>2. b \in {Torn, Erased} => b.kind \notin {"v1", "v2"}
      BY DEF Torn, Erased
    <3>3. b = old.body /\ m = old.marker =>
            (b.kind \in {"v1", "v2"} /\ m = "full" => b.payload \in Payloads)
      BY <1>3, ValidSlot DEF IInv, ValidSlotsCarryPayloads
    <3>4. QED
      BY <2>1, <2>2, <3>1, <3>2, <3>3
  <2>5. /\ m # "full" \/ b.kind \notin {"v1", "v2"} => Durable' = Held
        /\ b = JobBody => Durable' \in {Held, Proposal}
    BY <1>2, <1>6, <2>3, <2>4, DurableAfterPage
  <2>6. b \in {Torn, Erased} => b.kind \notin {"v1", "v2"}
    BY DEF Torn, Erased
  <2>7. Durable' \in {Durable, Held, Proposal}
    BY <1>4, <2>1, <2>2, <2>5, <2>6
  <2>8. QED
    BY <1>1, <1>6, <2>7, BusyProposal, AbstractRestart
<1>7. QED
  BY <1>5, <1>6

\* Every step of ConfigStore_Process maps to Write, GiveUp, Confirm or a
\* stutter.
LEMMA ProcessRefines ==
  ASSUME IInv, Process
  PROVE  [Atomic!Next]_Atomic!avars
<1> USE DEF BusyStates, WriteStates
<1>0. /\ job.target \in Slots /\ flash[job.target] \in Records
      /\ flash[job.target].body \in Bodies /\ flash[job.target].marker \in Markers
      /\ flash[job.target] = [body |-> flash[job.target].body,
                              marker |-> flash[job.target].marker]
      /\ flash \in [Slots -> Records]
  BY DEF IInv, TypeOK, Records
<1> DEFINE old == flash[job.target]
<1>1. CASE PowerUnsafe \/ Prepare \/ VerifyBody
  BY <1>1, NoWriteRefines DEF PowerUnsafe, Prepare, VerifyBody, Fail
<1>2. CASE ErasePage0
  <2>1. PICK r \in Attempt(old.body, {Torn}, {Erased}) :
          /\ SetBody(job.target, r.cell)
          /\ IF Succeeded(r)
               THEN state' = "ERASE_PAGE_1"
               ELSE state' = "ERROR"
    BY <1>2 DEF ErasePage0, Fail
  <2>2. r.cell \in {old.body, Torn, Erased} /\ (Succeeded(r) => r.cell = Erased)
    BY AttemptOutcome
  <2>3. flash' = [flash EXCEPT ![job.target] =
                    [body |-> r.cell, marker |-> old.marker]]
    BY <1>0, <2>1, PageWrites
  <2>4. r.cell \in {Torn, Erased} => Durable' = Held
    <3>1. r.cell \in {Torn, Erased} => r.cell.kind \notin {"v1", "v2"}
      BY DEF Torn, Erased
    <3>2. QED
      BY <1>0, <1>2, <2>3, <3>1, BlankBodies, DurableAfterPage DEF ErasePage0
  <2>5. r.cell = old.body => Durable' = Durable
    BY <1>0, <2>3, QuietDurable
  <2>6. QED
    BY <1>2, <2>1, <2>2, <2>4, <2>5, WriteRefines DEF ErasePage0
<1>3. CASE ErasePage1
  <2>1. PICK r \in Attempt(old.marker, {"torn"}, {"erased"}) :
          /\ SetMarker(job.target, r.cell)
          /\ IF Succeeded(r)
               THEN state' = "PROGRAM_BODY"
               ELSE state' = "ERROR"
    BY <1>3 DEF ErasePage1, Fail
  <2>2. /\ r.cell \in {old.marker, "torn", "erased"}
        /\ Succeeded(r) => r.cell = "erased"
    BY AttemptOutcome
  <2>3. flash' = [flash EXCEPT ![job.target] =
                    [body |-> old.body, marker |-> r.cell]]
    BY <1>0, <2>1, PageWrites
  <2>4. r.cell \in {"torn", "erased"} => Durable' = Held
    BY <1>0, <1>3, <2>3, DurableAfterPage DEF ErasePage1, Markers
  <2>5. r.cell = old.marker => Durable' = Durable
    BY <1>0, <2>3, QuietDurable
  <2>6. QED
    BY <1>3, <2>1, <2>2, <2>4, <2>5, WriteRefines DEF ErasePage1
<1>4. CASE ProgramBody
  <2>1. \E c \in {old.body, JobBody, Torn} : SetBody(job.target, c)
    <3>1. PICK r \in Attempt(old.body, {Torn},
                             IF progress + 1 = BodyChunks THEN {JobBody, Torn}
                                                          ELSE {Torn}) :
            SetBody(job.target, r.cell)
      BY <1>4 DEF ProgramBody
    <3>2. r.cell \in {old.body, JobBody, Torn}
      BY <3>1, AttemptOutcome
    <3>3. QED
      BY <3>1, <3>2
  <2>2. PICK c \in {old.body, JobBody, Torn} : SetBody(job.target, c)
    BY <2>1
  <2>3. /\ state' \in {"PROGRAM_BODY", "VERIFY_BODY", "ERROR"}
        /\ UNCHANGED <<active, job>>
    BY <1>4 DEF ProgramBody, Fail
  <2>4. flash' = [flash EXCEPT ![job.target] = [body |-> c, marker |-> old.marker]]
    BY <1>0, <2>2, PageWrites
  <2>5. c \in Bodies
    BY <1>0, BlankBodies DEF JobBody, Bodies, Kinds, IInv, TypeOK
  <2>6. old.marker = "erased"
    BY <1>4 DEF ProgramBody, IInv, TargetPhase
  <2>7. Durable' = Held
    BY <1>0, <1>4, <2>4, <2>5, <2>6, DurableAfterPage DEF ProgramBody
  <2>8. QED
    BY <1>4, <2>3, <2>7, WriteRefines DEF ProgramBody
<1>5. CASE ProgramCommit
  <2>1. \E m \in Markers : SetMarker(job.target, m)
    <3>1. PICK low \in Attempt(old.marker, {"torn"}, {"low"}) :
            \/ SetMarker(job.target, low.cell)
            \/ SetMarker(job.target, "low")
            \/ \E high \in Attempt("low", {"torn"}, {"full", "torn"}) :
                 SetMarker(job.target, high.cell)
      BY <1>5 DEF ProgramCommit
    <3>2. low.cell \in Markers /\ "low" \in Markers
      BY <1>0, AttemptOutcome DEF Markers
    <3>3. \A high \in Attempt("low", {"torn"}, {"full", "torn"}) : high.cell \in Markers
      BY AttemptOutcome DEF Markers
    <3>4. QED
      BY <3>1, <3>2, <3>3
  <2>2. PICK m \in Markers : SetMarker(job.target, m)
    BY <2>1
  <2>3. state' \in {"VERIFY_FINAL", "ERROR"} /\ UNCHANGED <<active, job>>
    BY <1>5 DEF ProgramCommit, Fail
  <2>4. flash' = [flash EXCEPT ![job.target] = [body |-> old.body, marker |-> m]]
    BY <1>0, <2>2, PageWrites
  <2>5. old.body = JobBody /\ JobBody.payload \in Payloads
    BY <1>5 DEF ProgramCommit, IInv, TargetPhase, JobMatchesActive, JobBody
  <2>6. Durable' \in {Held, Proposal}
    BY <1>0, <1>5, <2>4, <2>5, DurableAfterPage DEF ProgramCommit
  <2>7. QED
    BY <1>5, <2>3, <2>6, WriteRefines DEF ProgramCommit
<1>6. CASE VerifyFinal
  <2>1. CASE ~IsValid(old)
    BY <1>6, <2>1, NoWriteRefines DEF VerifyFinal, Fail
  <2>2. CASE IsValid(old)
    <3>1. /\ active'.payload = job.payload /\ state' = "COMPLETE"
          /\ result' \in {"COMMITTED_LOCK_ERROR", "SUCCESS"}
          /\ flash' = flash /\ job' = job
      BY <1>6, <2>2 DEF VerifyFinal
    <3>2. SuccessIsDurable'
      BY <1>6, ProcessKeepsIInv DEF IInv
    <3>3. Loaded(flash).payload = job.payload
      BY <3>1, <3>2 DEF SuccessIsDurable
    <3>4. Proposal # NoPayload /\ Proposal = job.payload
      BY <1>6, BusyProposal DEF VerifyFinal
    <3>5. Proposal' = NoPayload /\ Held' = Proposal
      BY <3>1, <3>4 DEF Proposal, Held
    <3>6. QED
      BY <3>1, <3>3, <3>4, <3>5, QuietDurable, AbstractConfirm DEF Durable
  <2>3. QED
    BY <2>1, <2>2
<1>7. QED
  BY <1>1, <1>2, <1>3, <1>4, <1>5, <1>6 DEF Process

\* The store implements the atomic configuration: whatever a save, an error
\* of the backend or a restart in the middle of one does, the next load finds
\* the configuration RAM holds or the one being written, whole.
THEOREM Refinement == Spec => ImplementsAtomicConfig
<1>1. IInv /\ [Next]_vars => [Atomic!Next]_Atomic!avars
  <2> SUFFICES ASSUME IInv, [Next]_vars PROVE [Atomic!Next]_Atomic!avars
    OBVIOUS
  <2>1. CASE Process
    BY <2>1, ProcessRefines
  <2>2. CASE PowerCut
    BY <2>2, CutRefines
  <2>3. CASE \/ \E p \in Payloads : RequestSave(p)
             \/ RequestFactoryReset
             \/ RequestUnencodable
             \/ CancelPending
             \/ AcknowledgeResult
    BY <2>3, RequestsRefine
  <2>4. CASE UNCHANGED vars
    <3>1. Proposal' = Proposal
      BY <2>4 DEF vars, Proposal
    <3>2. QED
      BY <2>4, <3>1, QuietDurable, AbstractStutter DEF vars
  <2>5. QED
    BY <2>1, <2>2, <2>3, <2>4 DEF Next
<1>2. QED
  BY <1>1, InitRefines, Invariance, PTL DEF Spec, ImplementsAtomicConfig, Atomic!Spec
=============================================================================
