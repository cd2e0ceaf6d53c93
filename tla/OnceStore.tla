------------------------------ MODULE OnceStore ------------------------------
(***************************************************************************)
(* What every SQLite ledger of AegisQuant promises its callers, with the   *)
(* protocol left out: a key is written once and never changes, and a       *)
(* caller that was told its record is stored can rely on it.               *)
(*                                                                         *)
(* SQLiteRunLedger, EvidenceLedger, OutcomeLedger, RelationStore and the   *)
(* candidate table of LocalMemoryBackend all make this promise.            *)
(* LedgerStore shows how the first of them keeps it.                       *)
(***************************************************************************)
CONSTANTS
  Keys,       \* primary keys (run IDs)
  Payloads,   \* canonical record bodies
  NoRow       \* the absence of a row

VARIABLES
  store,      \* the committed row of each key
  acked       \* the <<key, payload>> pairs acknowledged to some caller

storeVars == <<store, acked>>

Init ==
  /\ store = [k \in Keys |-> NoRow]
  /\ acked = {}

(* A row comes into being, once. *)
Put(k, v) ==
  /\ store[k] = NoRow
  /\ store' = [store EXCEPT ![k] = v]
  /\ UNCHANGED acked

(* A caller learns that its record is stored. *)
Acknowledge(k, v) ==
  /\ store[k] = v
  /\ acked' = acked \union {<<k, v>>}
  /\ UNCHANGED store

Next == \E k \in Keys, v \in Payloads : Put(k, v) \/ Acknowledge(k, v)

Spec == Init /\ [][Next]_storeVars
=============================================================================
