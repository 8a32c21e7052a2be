--------------------------- MODULE CustodyLedger ---------------------------
(***************************************************************************)
(* The chain-of-custody ledger: custody.Ledger over a custody.Repository.  *)
(*                                                                         *)
(* Ledger.Record is not atomic.  A recorder (a goroutine inside Record)    *)
(* reads the tail of the delivery's chain, computes the new event from it, *)
(* and appends; other recorders run between the two repository calls.      *)
(*                                                                         *)
(* Store selects the repository: "postgres" refuses a second row with the  *)
(* same (delivery_id, sequence_num), "memory" appends whatever it is given.*)
(***************************************************************************)
EXTENDS DeliveryStates, Integers, Sequences

CONSTANTS Recorders,   \* goroutines that may be inside Ledger.Record
          Deliveries,  \* delivery ids; each has a chain of its own
          Requests,    \* the requests callers make of the ledger
          Store,       \* the repository behind the ledger
          MaxEvents,   \* bound: number of event ids ever issued
          NoEvent      \* a recorder that holds no event

ASSUME RequestsAssumption == Requests \subseteq Request
ASSUME StoreAssumption == Store \in { "postgres", "memory" }
ASSUME MaxEventsAssumption == MaxEvents \in Nat

-----------------------------------------------------------------------------
(* Hashes are symbolic.  SHA256(prev_hash || payload) is taken to be free  *)
(* of collisions: the hash of an event is the list of the payloads it      *)
(* commits to, and the genesis hash commits to nothing.  The payload has   *)
(* the event id and the delivery id but not the sequence number.           *)

Payload == [ id : Nat, delivery : Deliveries, req : Requests ]
Hash == Seq(Payload)
genesisHash == << >>

Event == [ payload : Payload, seq : Nat, prev : Hash, hash : Hash ]

ASSUME NoEventAssumption == NoEvent \notin Event

\* Mutant: the hash does not cover prev_hash.
computeHash_Unchained(prev, payload) == Append(genesisHash, payload)

computeHash(prev, payload) == Append(prev, payload)

VARIABLES log,     \* log[d]: the rows of d, in the order ListByDelivery returns
          pend,    \* pend[r]: the event r has computed and not yet appended
          issued   \* number of event ids handed out by uuid.New

ledgerVars == << log, pend, issued >>

LedgerTypeOK ==
  /\ log \in [Deliveries -> Seq(Event)]
  /\ pend \in [Recorders -> Event \cup {NoEvent}]
  /\ issued \in Nat

LedgerInit ==
  /\ log = [d \in Deliveries |-> << >>]
  /\ pend = [r \in Recorders |-> NoEvent]
  /\ issued = 0

-----------------------------------------------------------------------------
(* The repository.                                                         *)

\* Mutant: the constraint is missing from the schema.
Conflicts_NoConstraint(d, e) == FALSE

(* UNIQUE (delivery_id, sequence_num) of the migrations. *)
Conflicts(d, e) ==
  Store = "postgres" /\ \E i \in 1..Len(log[d]) : log[d][i].seq = e.seq

(* Append does nothing, and succeeds, when the event id is known: to the   *)
(* whole table in Postgres, to the chain of the delivery in memory.        *)
Duplicate(e) ==
  \E d \in IF Store = "memory" THEN { e.payload.delivery } ELSE Deliveries :
    \E i \in 1..Len(log[d]) : log[d][i].payload.id = e.payload.id

(* ListByDelivery sorts by sequence_num in Postgres and keeps the order of *)
(* insertion in memory: where does a new row go?                           *)
InsertPosition(s, e) ==
  IF Store = "memory" THEN Len(s)
  ELSE CHOOSE p \in 0..Len(s) : /\ \A i \in 1..p : s[i].seq <= e.seq
                                /\ \A i \in (p+1)..Len(s) : s[i].seq > e.seq

InsertRow(s, e) ==
  LET p == InsertPosition(s, e)
  IN  [ i \in 1..(Len(s) + 1) |->
          IF i <= p THEN s[i] ELSE IF i = p + 1 THEN e ELSE s[i-1] ]

\* Mutant: an empty chain is given sequence number -1 to continue from.
NextEvent_FromMinusOne(s, payload) ==
  LET prev == IF s = << >> THEN genesisHash ELSE s[Len(s)].hash
  IN  [ payload |-> payload,
        seq     |-> IF s = << >> THEN -1 ELSE s[Len(s)].seq + 1,
        prev    |-> prev,
        hash    |-> computeHash(prev, payload) ]

(* The event Record computes from the tail LastByDelivery returned.  The   *)
(* last listed row is the newest insertion in memory and the greatest      *)
(* sequence_num in Postgres.                                               *)
NextEvent(s, payload) ==
  LET prev == IF s = << >> THEN genesisHash ELSE s[Len(s)].hash
  IN  [ payload |-> payload,
        seq     |-> IF s = << >> THEN 0 ELSE s[Len(s)].seq + 1,
        prev    |-> prev,
        hash    |-> computeHash(prev, payload) ]

-----------------------------------------------------------------------------
(* Record, one action per repository call.                                 *)

(* Validate, then LastByDelivery, then everything up to the Append. *)
ReadTail(r, d, q) ==
  /\ pend[r] = NoEvent
  /\ Validate(q)
  /\ issued < MaxEvents
  /\ issued' = issued + 1
  /\ pend' = [pend EXCEPT ![r] =
                NextEvent(log[d], [id |-> issued, delivery |-> d, req |-> q])]
  /\ UNCHANGED log

(* repo.Append stores the row and Record returns the event. *)
AppendOK(r) ==
  /\ pend[r] # NoEvent
  /\ LET d == pend[r].payload.delivery
     IN  /\ Duplicate(pend[r]) \/ ~Conflicts(d, pend[r])
         /\ log' = IF Duplicate(pend[r]) THEN log
                   ELSE [log EXCEPT ![d] = InsertRow(@, pend[r])]
  /\ pend' = [pend EXCEPT ![r] = NoEvent]
  /\ UNCHANGED issued

(* repo.Append fails: the sequence number is taken, the context has        *)
(* expired, the connection is gone, or the process has died.  Nothing is   *)
(* retried here; Record returns the error.                                 *)
AppendFails(r) ==
  /\ pend[r] # NoEvent
  /\ pend' = [pend EXCEPT ![r] = NoEvent]
  /\ UNCHANGED << log, issued >>

LedgerNext ==
  \E r \in Recorders :
    \/ \E d \in Deliveries, q \in Requests : ReadTail(r, d, q)
    \/ AppendOK(r)
    \/ AppendFails(r)

LedgerSpec == LedgerInit /\ [][LedgerNext]_ledgerVars

-----------------------------------------------------------------------------
(* Ledger.Verify: walk the listed events with the hash expected next.      *)

ExpectedPrev(s, i) == IF i = 1 THEN genesisHash ELSE s[i-1].hash

LinkIntact(s, i) ==
  /\ s[i].seq = i - 1
  /\ s[i].prev = ExpectedPrev(s, i)
  /\ s[i].hash = computeHash(s[i].prev, s[i].payload)

Verify(d) == \A i \in 1..Len(log[d]) : LinkIntact(log[d], i)

-----------------------------------------------------------------------------
(* Properties.                                                             *)

(* Ledger.Verify succeeds on every delivery whatever the recorders do:     *)
(* racing readers of one tail never leave a gap or a fork in the chain.    *)
ChainVerifies == \A d \in Deliveries : Verify(d)

(* The newest hash commits to the whole history: an event's hash is the    *)
(* hash of exactly the events listed up to it, so two ledgers that agree   *)
(* on the last hash agree on everything (computeHash through prev_hash).   *)
HashCommitsToHistory ==
  \A d \in Deliveries : \A i \in 1..Len(log[d]) :
    log[d][i].hash = [j \in 1..i |-> log[d][j].payload]

(* What has been recorded about each delivery, without the chain. *)
Histories == [c \in Deliveries |-> [i \in 1..Len(log[c]) |-> log[c][i].payload]]

Abstract == INSTANCE AppendOnlyLedger
  WITH Ids <- 0..(MaxEvents - 1), history <- Histories

(* The ledger implements the abstract one: recording looks like one atomic *)
(* step that adds a new and validated event to the end of one history, so  *)
(* no event is lost, moved, altered or recorded twice (Record, Append).    *)
ImplementsAppendOnly == Abstract!Spec

=============================================================================
