---------------------------- MODULE AtomicConfig ----------------------------
(***************************************************************************)
(* What the A/B configuration store promises its callers, without flash    *)
(* pages, sequence numbers or a state machine.  There is one durable       *)
(* configuration.  A writer proposes a replacement; until the proposal is  *)
(* confirmed a restart finds either the configuration the writer holds or  *)
(* the proposed one, whole, and never anything else.                       *)
(*                                                                         *)
(* A write may fail after it took effect: the durable configuration is then*)
(* the proposal although nobody confirmed it, and it may fall back to the  *)
(* confirmed one, but only when the next proposal starts to overwrite it.  *)
(***************************************************************************)
CONSTANTS Payloads,   \* the configurations that can be stored
          NoPayload   \* "no valid record": the firmware runs on defaults

VARIABLES durable,    \* what a restart at this moment would load
          held,       \* the last loaded or confirmed configuration
          proposal    \* the configuration being written, or NoPayload

avars == <<durable, held, proposal>>

TypeOK ==
  /\ durable \in Payloads \cup {NoPayload}
  /\ held \in Payloads \cup {NoPayload}
  /\ proposal \in Payloads \cup {NoPayload}

Init ==
  /\ durable \in Payloads \cup {NoPayload}
  /\ held = durable
  /\ proposal = NoPayload

Propose(p) ==
  /\ proposal = NoPayload
  /\ proposal' = p
  /\ UNCHANGED <<durable, held>>

\* Writing: the medium shows the old configuration or the new one.
Write ==
  /\ proposal # NoPayload
  /\ durable' \in {held, proposal}
  /\ UNCHANGED <<held, proposal>>

Confirm ==
  /\ proposal # NoPayload
  /\ durable = proposal
  /\ held' = proposal
  /\ proposal' = NoPayload
  /\ UNCHANGED durable

\* The writer gives up; what the medium holds is one of the three.
GiveUp ==
  /\ proposal # NoPayload
  /\ durable' \in {durable, held, proposal}
  /\ proposal' = NoPayload
  /\ UNCHANGED held

\* A restart reads the medium.  Only a write in flight can change it.
Restart ==
  /\ \/ proposal = NoPayload /\ UNCHANGED durable
     \/ proposal # NoPayload /\ durable' \in {durable, held, proposal}
  /\ held' = durable'
  /\ proposal' = NoPayload

Next ==
  \/ \E p \in Payloads : Propose(p)
  \/ Write
  \/ Confirm
  \/ GiveUp
  \/ Restart

Spec == Init /\ [][Next]_avars
=============================================================================
