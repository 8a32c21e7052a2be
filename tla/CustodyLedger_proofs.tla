------------------------ MODULE CustodyLedger_proofs ------------------------
(***************************************************************************)
(* Proofs about CustodyLedger, for any number of recorders, deliveries and *)
(* requests and for both stores.                                           *)
(*                                                                         *)
(* The Verify invariant is not inductive by itself: it says nothing of the *)
(* events recorders have computed and not yet appended.  Inv adds that     *)
(* such an event, however stale the tail it was computed from, continues   *)
(* the prefix of the chain its sequence number names.  The UNIQUE          *)
(* constraint then only lets it in when that prefix is the whole chain.    *)
(***************************************************************************)
EXTENDS CustodyLedger, SequenceTheorems, TLAPS

(* The payloads of the first n rows of a listing: the history the hash of  *)
(* row n commits to.                                                       *)
Prefix(s, n) == [j \in 1..n |-> s[j].payload]

RowsInv == \A d \in Deliveries : \A i \in 1..Len(log[d]) :
             log[d][i].payload.delivery = d

IdsInv ==
  /\ issued \in 0..MaxEvents
  /\ \A d \in Deliveries : \A i \in 1..Len(log[d]) :
       log[d][i].payload.id < issued
  /\ \A r \in Recorders : pend[r] # NoEvent =>
       /\ pend[r].payload.id < issued
       /\ Validate(pend[r].payload.req)
       /\ \A q \in Recorders \ {r} : pend[q] # NoEvent =>
            pend[q].payload.id # pend[r].payload.id
       /\ \A d \in Deliveries : \A i \in 1..Len(log[d]) :
            log[d][i].payload.id # pend[r].payload.id

(* A listing is a chain: no gap, and each row continues the one before.    *)
Chained(s) == \A i \in 1..Len(s) : /\ s[i].seq = i - 1
                                   /\ s[i].prev = Prefix(s, i - 1)
                                   /\ s[i].hash = Prefix(s, i)

ChainInv == \A d \in Deliveries : Chained(log[d])

PendInv == \A r \in Recorders : pend[r] # NoEvent =>
             LET e == pend[r]
                 s == log[e.payload.delivery]
             IN  /\ e.seq <= Len(s)
                 /\ e.prev = Prefix(s, e.seq)
                 /\ e.hash = computeHash(e.prev, e.payload)

Inv == /\ LedgerTypeOK
       /\ RowsInv
       /\ IdsInv
       /\ Store = "postgres" => ChainInv /\ PendInv

-----------------------------------------------------------------------------
(* A prefix is a hash value, of the length its name says. *)
LEMMA PrefixType ==
  ASSUME NEW s \in Seq(Event), NEW n \in 0..Len(s)
  PROVE  Prefix(s, n) \in Hash /\ Len(Prefix(s, n)) = n
<1>1. Prefix(s, n) \in [1..n -> Payload]
  <2>1. ASSUME NEW j \in 1..n
        PROVE  s[j].payload \in Payload
    <3>1. s[j] \in Event
      BY ElementOfSeq, j \in 1..Len(s)
    <3>. QED BY <3>1 DEF Event
  <2>. QED BY <2>1 DEF Prefix
<1>2. n \in Nat
  OBVIOUS
<1>3. Prefix(s, n) \in Seq(Payload)
  BY <1>1, <1>2, SeqDef
<1>4. DOMAIN Prefix(s, n) = 1..n
  BY DEF Prefix
<1>. QED BY <1>2, <1>3, <1>4, LenProperties DEF Hash

(* Appending to a history of payloads extends the prefix by one. *)
LEMMA PrefixStep ==
  ASSUME NEW s \in Seq(Event), NEW n \in 1..Len(s)
  PROVE  Prefix(s, n) = Append(Prefix(s, n - 1), s[n].payload)
<1>1. n \in 0..Len(s) /\ n - 1 \in 0..Len(s)
  OBVIOUS
<1>2. /\ Prefix(s, n) \in Seq(Payload) /\ Len(Prefix(s, n)) = n
      /\ Prefix(s, n-1) \in Seq(Payload) /\ Len(Prefix(s, n-1)) = n - 1
  BY <1>1, PrefixType DEF Hash
<1>3. s[n].payload \in Payload
  <2>1. s[n] \in Event
    BY ElementOfSeq
  <2>. QED BY <2>1 DEF Event
<1> DEFINE t == Append(Prefix(s, n-1), s[n].payload)
<1>4. /\ t \in Seq(Payload) /\ Len(t) = n /\ t[n] = s[n].payload
      /\ \A i \in 1..(n-1) : t[i] = Prefix(s, n-1)[i]
  BY <1>2, <1>3, AppendProperties
<1>5. \A i \in 1..n : Prefix(s, n)[i] = t[i]
  BY <1>4 DEF Prefix
<1> HIDE DEF t
<1>6. Prefix(s, n) = t
  BY <1>2, <1>4, <1>5, SeqEqual
<1>. QED BY <1>6 DEF t

(* A prefix does not see rows appended after it. *)
LEMMA PrefixStable ==
  ASSUME NEW s \in Seq(Event), NEW e \in Event, NEW n \in 0..Len(s)
  PROVE  Prefix(Append(s, e), n) = Prefix(s, n)
BY DEF Prefix, Event

(* Both stores list a row whose sequence number is new and follows a       *)
(* gapless chain after all the others; memory does so for any row.         *)
LEMMA InsertAtEnd ==
  ASSUME NEW s \in Seq(Event), NEW e \in Event,
         \/ Store = "memory"
         \/ e.seq = Len(s) /\ \A i \in 1..Len(s) : s[i].seq = i - 1
  PROVE  InsertRow(s, e) = Append(s, e)
<1>1. InsertPosition(s, e) = Len(s)
  <2>1. CASE Store = "memory"
    BY <2>1 DEF InsertPosition
  <2>2. CASE Store # "memory"
    <3> DEFINE Fits(p) == /\ \A i \in 1..p : s[i].seq <= e.seq
                          /\ \A i \in (p+1)..Len(s) : s[i].seq > e.seq
    <3>1. Fits(Len(s))
      BY <2>2
    <3>2. \A p \in 0..Len(s) : Fits(p) => p = Len(s)
      <4>1. SUFFICES ASSUME NEW p \in 0..Len(s), Fits(p), p # Len(s)
                     PROVE  FALSE
        OBVIOUS
      <4>2. p + 1 \in (p+1)..Len(s) /\ p + 1 \in 1..Len(s)
        BY <4>1
      <4>3. s[p+1].seq > e.seq /\ s[p+1].seq = p
        BY <2>2, <4>1, <4>2
      <4>. QED BY <2>2, <4>1, <4>3
    <3>3. InsertPosition(s, e) = CHOOSE p \in 0..Len(s) : Fits(p)
      BY <2>2 DEF InsertPosition
    <3> HIDE DEF Fits
    <3>4. Len(s) \in 0..Len(s)
      OBVIOUS
    <3>. QED BY <3>1, <3>2, <3>3, <3>4
  <2>. QED BY <2>1, <2>2
<1>2. InsertRow(s, e) = [i \in 1..(Len(s) + 1) |-> IF i <= Len(s) THEN s[i] ELSE e]
  BY <1>1 DEF InsertRow
<1>3. InsertRow(s, e) \in Seq(Event) /\ Len(InsertRow(s, e)) = Len(s) + 1
  <2>1. InsertRow(s, e) \in [1..(Len(s) + 1) -> Event] /\ Len(s) + 1 \in Nat
    BY <1>2
  <2>. QED BY <2>1, SeqDef
<1>4. \A i \in 1..(Len(s) + 1) : InsertRow(s, e)[i] = Append(s, e)[i]
  BY <1>2
<1>. QED BY <1>3, <1>4, SeqEqual

-----------------------------------------------------------------------------
LEMMA PrefixEmpty ==
  ASSUME NEW s \in Seq(Event)
  PROVE  Prefix(s, 0) = genesisHash
<1>1. Prefix(s, 0) \in Seq(Payload) /\ Len(Prefix(s, 0)) = 0
  BY PrefixType, 0 \in 0..Len(s) DEF Hash
<1>. QED BY <1>1, EmptySeq DEF genesisHash

(* Record computes a well-formed event; on an intact chain the event takes *)
(* the next sequence number and continues the whole history.               *)
LEMMA NextEventType ==
  ASSUME NEW s \in Seq(Event), NEW p \in Payload
  PROVE  NextEvent(s, p) \in Event /\ NextEvent(s, p).payload = p
<1>1. CASE s = << >>
  <2>1. genesisHash \in Hash /\ computeHash(genesisHash, p) \in Hash
    BY EmptySeq, AppendProperties DEF genesisHash, computeHash, Hash
  <2>. QED BY <1>1, <2>1 DEF NextEvent, Event
<1>2. CASE s # << >>
  <2>1. s[Len(s)] \in Event
    BY <1>2, EmptySeq, ElementOfSeq
  <2>2. s[Len(s)].hash \in Hash /\ s[Len(s)].seq \in Nat
    BY <2>1 DEF Event
  <2>3. computeHash(s[Len(s)].hash, p) \in Hash
    BY <2>2, AppendProperties DEF computeHash, Hash
  <2>4. s[Len(s)].seq + 1 \in Nat
    BY <2>2
  <2>. QED BY <1>2, <2>2, <2>3, <2>4 DEF NextEvent, Event
<1>. QED BY <1>1, <1>2

LEMMA NextEventContinues ==
  ASSUME NEW s \in Seq(Event), NEW p \in Payload,
         \A i \in 1..Len(s) : s[i].seq = i - 1 /\ s[i].hash = Prefix(s, i)
  PROVE  /\ NextEvent(s, p).seq = Len(s)
         /\ NextEvent(s, p).prev = Prefix(s, Len(s))
         /\ NextEvent(s, p).hash = computeHash(NextEvent(s, p).prev, p)
<1>1. CASE s = << >>
  BY <1>1, EmptySeq, PrefixEmpty DEF NextEvent
<1>2. CASE s # << >>
  <2>1. Len(s) \in 1..Len(s) /\ Len(s) \in Nat
    BY <1>2, EmptySeq
  <2>. QED BY <1>2, <2>1 DEF NextEvent
<1>. QED BY <1>1, <1>2

-----------------------------------------------------------------------------
(* One lemma per action: each preserves Inv. *)

LEMMA InitInv == LedgerInit => Inv
<1>1. << >> \in Seq(Event) /\ Len(<< >>) = 0
  BY EmptySeq
<1>. QED BY <1>1, MaxEventsAssumption
         DEF LedgerInit, Inv, LedgerTypeOK, RowsInv, IdsInv, ChainInv, Chained, PendInv

LEMMA ReadTailInv ==
  ASSUME Inv, NEW r \in Recorders, NEW d \in Deliveries, NEW q \in Requests,
         ReadTail(r, d, q)
  PROVE  Inv'
<1> DEFINE p == [id |-> issued, delivery |-> d, req |-> q]
           e == NextEvent(log[d], p)
<1>1. log[d] \in Seq(Event) /\ p \in Payload
  BY DEF Inv, LedgerTypeOK, Payload
<1>2. e \in Event /\ e.payload = p
  BY <1>1, NextEventType
<1>3. /\ pend' = [pend EXCEPT ![r] = e]
      /\ log' = log /\ issued' = issued + 1 /\ issued < MaxEvents /\ Validate(q)
  BY DEF ReadTail
<1>4. e # NoEvent
  BY <1>2, NoEventAssumption
<1>5. /\ pend'[r] = e
      /\ \A x \in Recorders \ {r} : pend'[x] = pend[x]
  BY <1>3 DEF Inv, LedgerTypeOK
<1>6. Store = "postgres" => /\ e.seq = Len(log[d])
                            /\ e.prev = Prefix(log[d], e.seq)
                            /\ e.hash = computeHash(e.prev, e.payload)
  <2>1. CASE Store = "postgres"
    <3>1. \A i \in 1..Len(log[d]) :
            log[d][i].seq = i - 1 /\ log[d][i].hash = Prefix(log[d], i)
      BY <2>1 DEF Inv, ChainInv, Chained
    <3>2. /\ e.seq = Len(log[d])
          /\ e.prev = Prefix(log[d], Len(log[d]))
          /\ e.hash = computeHash(e.prev, p)
      BY <1>1, <3>1, NextEventContinues
    <3>. QED BY <1>2, <3>2
  <2>. QED BY <2>1
<1>7. p.id = issued /\ p.req = q /\ p.delivery = d
  OBVIOUS
<1> HIDE DEF p, e
<1>8. LedgerTypeOK'
  BY <1>2, <1>3 DEF Inv, LedgerTypeOK
<1>9. RowsInv'
  BY <1>3 DEF Inv, RowsInv
<1>10. IdsInv'
  <2>1. issued' \in 0..MaxEvents
    BY <1>3, MaxEventsAssumption DEF Inv, IdsInv
  <2>2. \A c \in Deliveries : \A i \in 1..Len(log'[c]) :
          log'[c][i].payload.id < issued'
    <3>1. SUFFICES ASSUME NEW c \in Deliveries, NEW i \in 1..Len(log[c])
                   PROVE  log[c][i].payload.id < issued + 1
      BY <1>3
    <3>2. log[c][i].payload.id < issued /\ issued \in Nat
      BY DEF Inv, IdsInv, LedgerTypeOK
    <3>3. log[c][i] \in Event
      BY ElementOfSeq DEF Inv, LedgerTypeOK
    <3>4. log[c][i].payload.id \in Nat
      BY <3>3 DEF Event, Payload
    <3>. QED BY <3>2, <3>4
  <2>3. ASSUME NEW x \in Recorders, pend'[x] # NoEvent
        PROVE  /\ pend'[x].payload.id < issued'
               /\ Validate(pend'[x].payload.req)
               /\ \A y \in Recorders \ {x} : pend'[y] # NoEvent =>
                    pend'[y].payload.id # pend'[x].payload.id
               /\ \A c \in Deliveries : \A i \in 1..Len(log'[c]) :
                    log'[c][i].payload.id # pend'[x].payload.id
    <3>1. \A y \in Recorders : pend[y] # NoEvent =>
            pend[y].payload.id < issued /\ pend[y].payload.id \in Nat
      BY DEF Inv, IdsInv, LedgerTypeOK, Event, Payload
    <3>2. \A c \in Deliveries : \A i \in 1..Len(log[c]) :
            log[c][i].payload.id < issued
      BY DEF Inv, IdsInv
    <3>3. issued \in Nat
      BY DEF Inv, LedgerTypeOK
    <3>4. CASE x = r
      BY <3>4, <1>2, <1>3, <1>5, <1>7, <3>1, <3>2, <3>3
    <3>5. CASE x # r
      <4>1. pend'[x] = pend[x]
        BY <3>5, <1>5
      <4>2. /\ Validate(pend[x].payload.req)
            /\ \A y \in Recorders \ {x} : pend[y] # NoEvent =>
                 pend[y].payload.id # pend[x].payload.id
            /\ \A c \in Deliveries : \A i \in 1..Len(log[c]) :
                 log[c][i].payload.id # pend[x].payload.id
        BY <2>3, <4>1 DEF Inv, IdsInv
      <4>3. pend[x].payload.id < issued /\ pend[x].payload.id \in Nat
        BY <2>3, <3>1, <4>1
      <4>4. pend'[r].payload.id = issued
        BY <1>2, <1>5, <1>7
      <4>. QED BY <4>1, <4>2, <4>3, <4>4, <1>3, <1>5, <3>3
    <3>. QED BY <3>4, <3>5
  <2>. QED BY <2>1, <2>2, <2>3 DEF IdsInv
<1>11. Store = "postgres" => ChainInv'
  BY <1>3 DEF Inv, ChainInv
<1>12. ASSUME Store = "postgres" PROVE PendInv'
  <2>1. SUFFICES ASSUME NEW x \in Recorders, pend'[x] # NoEvent
                 PROVE  LET f == pend'[x]
                            s == log[f.payload.delivery]
                        IN  /\ f.seq <= Len(s)
                            /\ f.prev = Prefix(s, f.seq)
                            /\ f.hash = computeHash(f.prev, f.payload)
    <3>1. log' = log
      BY <1>3
    <3>. QED BY <3>1 DEF PendInv
  <2>2. CASE x = r
    <3>1. Len(log[d]) \in Nat
      BY <1>1, LenProperties
    <3>. QED BY <2>2, <1>2, <1>5, <1>6, <1>7, <1>12, <3>1
  <2>3. CASE x # r
    <3>1. pend'[x] = pend[x]
      BY <2>3, <1>5
    <3>. QED BY <2>1, <3>1, <1>12 DEF Inv, PendInv
  <2>. QED BY <2>2, <2>3
<1>. QED BY <1>8, <1>9, <1>10, <1>11, <1>12 DEF Inv

(* What AppendOK does to the listing: the row goes to the end. *)
LEMMA AppendOKAtEnd ==
  ASSUME Inv, NEW r \in Recorders, AppendOK(r)
  PROVE  LET e == pend[r]
             d == e.payload.delivery
         IN  /\ e \in Event /\ d \in Deliveries /\ log[d] \in Seq(Event)
             /\ log' = [log EXCEPT ![d] = Append(log[d], e)]
             /\ Store = "postgres" => e.seq = Len(log[d])
<1> DEFINE e == pend[r]
           d == e.payload.delivery
           s == log[d]
<1>1. e # NoEvent /\ ~Conflicts(d, e) /\ log' = [log EXCEPT ![d] = InsertRow(s, e)]
  <2>1. e # NoEvent /\ e \in Event
    BY DEF AppendOK, Inv, LedgerTypeOK
  <2>2. d \in Deliveries
    BY <2>1 DEF Event, Payload
  <2>3. \A c \in Deliveries : \A i \in 1..Len(log[c]) :
          log[c][i].payload.id # e.payload.id
    BY <2>1 DEF Inv, IdsInv
  <2>4. ~Duplicate(e)
    BY <2>2, <2>3 DEF Duplicate
  <2>. QED BY <2>1, <2>4 DEF AppendOK
<1>2. e \in Event
  BY <1>1 DEF Inv, LedgerTypeOK
<1>3. d \in Deliveries /\ e.seq \in Nat
  BY <1>2 DEF Event, Payload
<1>4. s \in Seq(Event) /\ Len(s) \in Nat
  BY <1>3, LenProperties DEF Inv, LedgerTypeOK
<1>5. ASSUME Store = "postgres"
      PROVE  e.seq = Len(s) /\ \A i \in 1..Len(s) : s[i].seq = i - 1
  <2>1. \A i \in 1..Len(s) : s[i].seq = i - 1
    BY <1>3, <1>5 DEF Inv, ChainInv, Chained
  <2>2. e.seq <= Len(s)
    BY <1>1, <1>5 DEF Inv, PendInv
  <2>3. ASSUME e.seq < Len(s) PROVE FALSE
    <3>1. e.seq + 1 \in 1..Len(s)
      BY <1>3, <1>4, <2>3
    <3>2. s[e.seq + 1].seq = e.seq
      BY <1>3, <2>1, <3>1
    <3>. QED BY <1>1, <1>5, <3>1, <3>2 DEF Conflicts
  <2>. QED BY <1>3, <1>4, <2>1, <2>2, <2>3
<1>6. InsertRow(s, e) = Append(s, e)
  <2>1. \/ Store = "memory"
        \/ e.seq = Len(s) /\ \A i \in 1..Len(s) : s[i].seq = i - 1
    BY <1>5, StoreAssumption
  <2> HIDE DEF e, s
  <2>. QED BY <1>2, <1>4, <2>1, InsertAtEnd
<1>. QED BY <1>1, <1>2, <1>3, <1>4, <1>5, <1>6

(* A chain that is continued with an event computed from all of it is one  *)
(* again.                                                                  *)
LEMMA AppendChained ==
  ASSUME NEW s \in Seq(Event), Chained(s), NEW e \in Event,
         e.seq = Len(s), e.prev = Prefix(s, Len(s)),
         e.hash = computeHash(e.prev, e.payload)
  PROVE  Chained(Append(s, e))
<1> DEFINE t == Append(s, e)
<1>1. /\ t \in Seq(Event) /\ Len(t) = Len(s) + 1 /\ t[Len(s) + 1] = e
      /\ \A i \in 1..Len(s) : t[i] = s[i]
      /\ Len(s) \in Nat
  BY AppendProperties, LenProperties
<1>2. \A n \in 0..Len(s) : Prefix(t, n) = Prefix(s, n)
  BY PrefixStable
<1> HIDE DEF t
<1>3. ASSUME NEW i \in 1..Len(s)
      PROVE  t[i].seq = i - 1 /\ t[i].prev = Prefix(t, i - 1) /\ t[i].hash = Prefix(t, i)
  BY <1>1, <1>2, i - 1 \in 0..Len(s), i \in 0..Len(s) DEF Chained
<1>4. Prefix(t, Len(s) + 1) = Append(Prefix(t, Len(s)), e.payload)
  <2>1. Len(s) + 1 \in 1..Len(t) /\ (Len(s) + 1) - 1 = Len(s)
    BY <1>1
  <2>2. Prefix(t, Len(s) + 1) = Append(Prefix(t, (Len(s) + 1) - 1), t[Len(s) + 1].payload)
    BY <1>1, <2>1, PrefixStep
  <2>. QED BY <1>1, <2>1, <2>2
<1>5. Prefix(t, Len(s)) = Prefix(s, Len(s))
  BY <1>1, <1>2, Len(s) \in 0..Len(s)
<1>6. e.hash = Prefix(t, Len(s) + 1)
  BY <1>4, <1>5 DEF computeHash
<1>7. \A i \in 1..Len(t) : i \in 1..Len(s) \/ (i = Len(s) + 1 /\ i - 1 = Len(s))
  BY <1>1
<1>. QED BY <1>1, <1>3, <1>5, <1>6, <1>7 DEF Chained, t

LEMMA AppendOKInv ==
  ASSUME Inv, NEW r \in Recorders, AppendOK(r)
  PROVE  Inv'
<1> DEFINE e == pend[r]
           d == e.payload.delivery
           s == log[d]
           t == Append(s, e)
<1>1. /\ e \in Event /\ d \in Deliveries /\ s \in Seq(Event)
      /\ log' = [log EXCEPT ![d] = t]
      /\ Store = "postgres" => e.seq = Len(s)
  BY AppendOKAtEnd
<1>2. /\ e # NoEvent /\ issued' = issued
      /\ pend' = [pend EXCEPT ![r] = NoEvent]
  BY DEF AppendOK
<1>3. /\ t \in Seq(Event) /\ Len(t) = Len(s) + 1 /\ t[Len(s) + 1] = e
      /\ \A i \in 1..Len(s) : t[i] = s[i]
      /\ Len(s) \in Nat
  <2> HIDE DEF e, s
  <2>. QED BY <1>1, AppendProperties, LenProperties
<1>4. /\ log'[d] = t
      /\ \A c \in Deliveries \ {d} : log'[c] = log[c]
  BY <1>1 DEF Inv, LedgerTypeOK
<1>5. \A x \in Recorders : pend'[x] # NoEvent => x # r /\ pend'[x] = pend[x]
  BY <1>2 DEF Inv, LedgerTypeOK
<1>6. \A i \in 1..Len(t) : i \in 1..Len(s) \/ i = Len(s) + 1
  BY <1>3
<1>7. e.payload.delivery = d /\ e.payload.id \in Nat
  BY <1>1 DEF Event, Payload
<1> HIDE DEF t
<1>8. LedgerTypeOK'
  BY <1>1, <1>2, <1>3 DEF Inv, LedgerTypeOK
<1>9. RowsInv'
  <2>1. SUFFICES ASSUME NEW c \in Deliveries, NEW i \in 1..Len(log'[c])
                 PROVE  log'[c][i].payload.delivery = c
    BY DEF RowsInv
  <2>2. CASE c # d
    BY <1>4, <2>1, <2>2 DEF Inv, RowsInv
  <2>3. CASE c = d /\ i \in 1..Len(s)
    <3>1. s[i].payload.delivery = d
      BY <1>1, <2>3 DEF Inv, RowsInv
    <3>. QED BY <1>3, <1>4, <2>3, <3>1
  <2>4. CASE c = d /\ i = Len(s) + 1
    BY <1>3, <1>4, <2>4
  <2>. QED BY <1>4, <1>6, <2>1, <2>2, <2>3, <2>4
<1>10. IdsInv'
  <2>1. /\ e.payload.id < issued
        /\ \A x \in Recorders \ {r} : pend[x] # NoEvent =>
             pend[x].payload.id # e.payload.id
    BY <1>2 DEF Inv, IdsInv
  <2>2. \A c \in Deliveries : \A i \in 1..Len(log'[c]) :
          \/ log'[c][i].payload.id = e.payload.id
          \/ i \in 1..Len(log[c]) /\ log'[c][i] = log[c][i]
    BY <1>3, <1>4, <1>6
  <2>3. \A c \in Deliveries : \A i \in 1..Len(log'[c]) :
          log'[c][i].payload.id < issued'
    BY <1>2, <2>1, <2>2 DEF Inv, IdsInv
  <2>4. ASSUME NEW x \in Recorders, pend'[x] # NoEvent
        PROVE  /\ pend'[x].payload.id < issued'
               /\ Validate(pend'[x].payload.req)
               /\ \A y \in Recorders \ {x} : pend'[y] # NoEvent =>
                    pend'[y].payload.id # pend'[x].payload.id
               /\ \A c \in Deliveries : \A i \in 1..Len(log'[c]) :
                    log'[c][i].payload.id # pend'[x].payload.id
    <3>1. x # r /\ pend'[x] = pend[x]
      BY <1>5, <2>4
    <3>2. /\ pend[x].payload.id < issued
          /\ Validate(pend[x].payload.req)
          /\ \A y \in Recorders \ {x} : pend[y] # NoEvent =>
               pend[y].payload.id # pend[x].payload.id
          /\ \A c \in Deliveries : \A i \in 1..Len(log[c]) :
               log[c][i].payload.id # pend[x].payload.id
      BY <2>4, <3>1 DEF Inv, IdsInv
    <3>3. pend[x].payload.id # e.payload.id
      BY <2>1, <2>4, <3>1
    <3>. QED BY <1>2, <1>5, <2>2, <3>1, <3>2, <3>3
  <2>. QED BY <1>2, <2>3, <2>4 DEF Inv, IdsInv
<1>11. ASSUME Store = "postgres" PROVE ChainInv'
  <2>1. e.seq = Len(s) /\ e.prev = Prefix(s, Len(s))
        /\ e.hash = computeHash(e.prev, e.payload)
    BY <1>1, <1>2, <1>11 DEF Inv, PendInv
  <2>2. Chained(s)
    BY <1>1, <1>11 DEF Inv, ChainInv, Chained
  <2>3. Chained(t)
    BY <1>1, <2>1, <2>2, AppendChained DEF t
  <2>. QED BY <1>4, <1>11, <2>3 DEF Inv, ChainInv
<1>12. ASSUME Store = "postgres" PROVE PendInv'
  <2>1. SUFFICES ASSUME NEW x \in Recorders, pend'[x] # NoEvent
                 PROVE  LET f == pend'[x]
                            u == log'[f.payload.delivery]
                        IN  /\ f.seq <= Len(u)
                            /\ f.prev = Prefix(u, f.seq)
                            /\ f.hash = computeHash(f.prev, f.payload)
    BY DEF PendInv, Prefix
  <2> DEFINE f == pend[x]
             u == log[f.payload.delivery]
  <2>2. pend'[x] = f /\ f # NoEvent
    BY <1>5, <2>1
  <2>3. /\ f.seq <= Len(u) /\ f.prev = Prefix(u, f.seq)
        /\ f.hash = computeHash(f.prev, f.payload)
    BY <1>12, <2>2 DEF Inv, PendInv
  <2>4. f \in Event
    BY <2>2 DEF Inv, LedgerTypeOK
  <2>5. f.seq \in Nat /\ f.payload.delivery \in Deliveries
    BY <2>4 DEF Event, Payload
  <2>6. CASE f.payload.delivery = d
    <3>1. Prefix(t, f.seq) = Prefix(s, f.seq)
      BY <1>1, <1>3, <2>3, <2>5, <2>6, PrefixStable, f.seq \in 0..Len(s) DEF t
    <3>. QED BY <1>3, <1>4, <2>2, <2>3, <2>5, <2>6, <3>1
  <2>7. CASE f.payload.delivery # d
    BY <1>4, <2>2, <2>3, <2>5, <2>7
  <2>. QED BY <2>6, <2>7
<1>. QED BY <1>8, <1>9, <1>10, <1>11, <1>12 DEF Inv

LEMMA AppendFailsInv ==
  ASSUME Inv, NEW r \in Recorders, AppendFails(r)
  PROVE  Inv'
<1>1. /\ log' = log /\ issued' = issued
      /\ pend' = [pend EXCEPT ![r] = NoEvent]
  BY DEF AppendFails
<1>2. \A x \in Recorders : pend'[x] # NoEvent => pend'[x] = pend[x] /\ pend[x] # NoEvent
  BY <1>1 DEF Inv, LedgerTypeOK
<1>3. LedgerTypeOK' /\ RowsInv'
  BY <1>1 DEF Inv, LedgerTypeOK, RowsInv
<1>4. IdsInv'
  BY <1>1, <1>2 DEF Inv, IdsInv
<1>5. Store = "postgres" => ChainInv' /\ PendInv'
  BY <1>1, <1>2 DEF Inv, ChainInv, PendInv, Prefix
<1>. QED BY <1>3, <1>4, <1>5 DEF Inv

LEMMA StepInv == Inv /\ [LedgerNext]_ledgerVars => Inv'
<1> SUFFICES ASSUME Inv, [LedgerNext]_ledgerVars PROVE Inv'
  OBVIOUS
<1>1. CASE LedgerNext
  BY <1>1, ReadTailInv, AppendOKInv, AppendFailsInv DEF LedgerNext
<1>2. CASE UNCHANGED ledgerVars
  <2>1. log' = log /\ pend' = pend /\ issued' = issued
    BY <1>2 DEF ledgerVars
  <2>2. LedgerTypeOK' /\ RowsInv' /\ IdsInv'
    BY <2>1 DEF Inv, LedgerTypeOK, RowsInv, IdsInv
  <2>3. Store = "postgres" => ChainInv' /\ PendInv'
    BY <2>1 DEF Inv, ChainInv, PendInv, Prefix
  <2>. QED BY <2>2, <2>3 DEF Inv
<1>. QED BY <1>1, <1>2

(* The inductive invariant holds throughout every run of the ledger. *)
THEOREM LedgerInvariant == LedgerSpec => []Inv
BY InitInv, StepInv, PTL DEF LedgerSpec

-----------------------------------------------------------------------------
(* Type correctness of the ledger, for both stores. *)
THEOREM LedgerTypeCorrect == LedgerSpec => []LedgerTypeOK
<1>1. Inv => LedgerTypeOK
  BY DEF Inv
<1>. QED BY <1>1, LedgerInvariant, PTL

(* Verify finds nothing wrong with a chain. *)
LEMMA ChainedVerifies ==
  ASSUME LedgerTypeOK, ChainInv
  PROVE  ChainVerifies
<1>1. SUFFICES ASSUME NEW d \in Deliveries, NEW i \in 1..Len(log[d])
               PROVE  LinkIntact(log[d], i)
  BY DEF ChainVerifies, Verify
<1>2. log[d] \in Seq(Event) /\ Len(log[d]) \in Nat
  BY LenProperties DEF LedgerTypeOK
<1>3. /\ log[d][i].seq = i - 1
      /\ log[d][i].prev = Prefix(log[d], i - 1)
      /\ log[d][i].hash = Prefix(log[d], i)
  BY DEF ChainInv, Chained
<1>4. Prefix(log[d], i - 1) = ExpectedPrev(log[d], i)
  <2>1. CASE i = 1
    BY <1>2, <2>1, PrefixEmpty DEF ExpectedPrev
  <2>2. CASE i # 1
    <3>1. i - 1 \in 1..Len(log[d])
      BY <1>2, <2>2
    <3>2. log[d][i-1].hash = Prefix(log[d], i - 1)
      BY <3>1 DEF ChainInv, Chained
    <3>. QED BY <2>2, <3>2 DEF ExpectedPrev
  <2>. QED BY <2>1, <2>2
<1>5. Prefix(log[d], i) = Append(Prefix(log[d], i - 1), log[d][i].payload)
  BY <1>2, PrefixStep
<1>. QED BY <1>3, <1>4, <1>5 DEF LinkIntact, computeHash

(* With the UNIQUE constraint of the schema, Ledger.Verify never reports a *)
(* broken or tampered chain, however many recorders race on one tail.      *)
THEOREM PostgresChainVerifies ==
  ASSUME Store = "postgres"
  PROVE  LedgerSpec => []ChainVerifies
<1>1. Inv => ChainVerifies
  BY ChainedVerifies DEF Inv
<1>. QED BY <1>1, LedgerInvariant, PTL

(* Under the same constraint the newest hash fixes the whole history. *)
THEOREM PostgresHashCommits ==
  ASSUME Store = "postgres"
  PROVE  LedgerSpec => []HashCommitsToHistory
<1>1. Inv => HashCommitsToHistory
  BY DEF Inv, ChainInv, Chained, HashCommitsToHistory, Prefix
<1>. QED BY <1>1, LedgerInvariant, PTL

-----------------------------------------------------------------------------
LEMMA AbstractInit == LedgerInit => Abstract!Init
<1>1. Len(<< >>) = 0
  BY EmptySeq
<1>2. SUFFICES ASSUME LedgerInit, NEW c \in Deliveries
               PROVE  [i \in 1..Len(log[c]) |-> log[c][i].payload] = << >>
  BY DEF Abstract!Init, LedgerInit, Histories
<1>3. log[c] = << >> /\ << >> \in Seq(Event)
  BY <1>2, EmptySeq DEF LedgerInit
<1>. QED BY <1>3, PrefixEmpty, <1>1 DEF Prefix, genesisHash

(* A successful Append is a Record step of the abstract ledger. *)
LEMMA AbstractRecord ==
  ASSUME Inv, NEW r \in Recorders, AppendOK(r)
  PROVE  Abstract!Next
<1> DEFINE e == pend[r]
           d == e.payload.delivery
           s == log[d]
           t == Append(s, e)
           id == e.payload.id
           q == e.payload.req
<1>1. /\ e \in Event /\ d \in Deliveries /\ s \in Seq(Event)
      /\ log' = [log EXCEPT ![d] = t]
  BY AppendOKAtEnd
<1>2. e # NoEvent
  BY DEF AppendOK
<1>3. e.payload = [id |-> id, delivery |-> d, req |-> q] /\ id \in Nat /\ q \in Requests
  BY <1>1 DEF Event, Payload
<1>4. id \in 0..(MaxEvents - 1)
  <2>1. id < issued /\ issued <= MaxEvents /\ issued \in Nat
    BY <1>2 DEF Inv, IdsInv, LedgerTypeOK
  <2>. QED BY <1>3, <2>1, MaxEventsAssumption
<1>5. Abstract!Validate(q)
  BY <1>2 DEF Inv, IdsInv, Validate, Abstract!Validate, RequiresPhoto, RequiresGPS,
              Abstract!RequiresPhoto, Abstract!RequiresGPS
<1>6. \A p \in Abstract!Recorded : p.id # id
  <2>1. ASSUME NEW p \in Abstract!Recorded
        PROVE  \E c \in Deliveries : \E i \in 1..Len(log[c]) : p = log[c][i].payload
    <3>1. PICK c \in Deliveries : p \in { Histories[c][i] : i \in 1..Len(Histories[c]) }
      BY <2>1 DEF Abstract!Recorded, Histories
    <3>2. log[c] \in Seq(Event) /\ Len(log[c]) \in 0..Len(log[c])
      BY LenProperties DEF Inv, LedgerTypeOK
    <3>3. Histories[c] = Prefix(log[c], Len(log[c]))
      BY DEF Histories, Prefix
    <3>4. Len(Histories[c]) = Len(log[c])
      BY <3>2, <3>3, PrefixType
    <3>. QED BY <3>1, <3>4 DEF Histories
  <2>. QED BY <1>2, <2>1 DEF Inv, IdsInv
<1>7. Histories' = [Histories EXCEPT ![d] =
                      Append(@, [id |-> id, delivery |-> d, req |-> q])]
  <2>1. Histories'[d] = Append(Histories[d], e.payload)
    <3>1. /\ log'[d] = t /\ t \in Seq(Event) /\ Len(t) = Len(s) + 1
          /\ t[Len(s) + 1] = e /\ Len(s) \in Nat
      <4>1. log'[d] = t
        BY <1>1 DEF Inv, LedgerTypeOK
      <4> HIDE DEF e, s
      <4>. QED BY <1>1, <4>1, AppendProperties, LenProperties
    <3> HIDE DEF t
    <3>2. Prefix(t, Len(t)) = Append(Prefix(t, Len(t) - 1), t[Len(t)].payload)
      BY <3>1, PrefixStep, Len(t) \in 1..Len(t)
    <3>3. Len(t) - 1 = Len(s)
      BY <3>1
    <3>4. Prefix(t, Len(s)) = Prefix(s, Len(s))
      BY <1>1, <3>1, PrefixStable, Len(s) \in 0..Len(s) DEF t
    <3>5. Prefix(t, Len(t)) = Append(Prefix(s, Len(s)), e.payload)
      BY <3>1, <3>2, <3>3, <3>4
    <3>6. Histories'[d] = Prefix(t, Len(t))
      <4> HIDE DEF d
      <4>1. Histories'[d] = [i \in 1..Len(log'[d]) |-> log'[d][i].payload]
        BY <1>1 DEF Histories
      <4>. QED BY <3>1, <4>1 DEF Prefix
    <3>7. Histories[d] = Prefix(s, Len(s))
      BY <1>1 DEF Histories, Prefix
    <3>. QED BY <3>5, <3>6, <3>7
  <2>2. \A c \in Deliveries \ {d} : Histories'[c] = Histories[c]
    BY <1>1 DEF Inv, LedgerTypeOK, Histories
  <2>. QED BY <1>1, <1>3, <2>1, <2>2 DEF Histories
<1>8. d \in Deliveries /\ id \in 0..(MaxEvents - 1) /\ q \in Requests
  BY <1>1, <1>3, <1>4
<1> HIDE DEF d, id, q
<1>9. Abstract!Record(d, id, q)
  BY <1>5, <1>6, <1>7 DEF Abstract!Record
<1>. QED BY <1>8, <1>9 DEF Abstract!Next

LEMMA AbstractStep ==
  Inv /\ [LedgerNext]_ledgerVars => [Abstract!Next]_Histories
<1> SUFFICES ASSUME Inv, [LedgerNext]_ledgerVars
             PROVE  [Abstract!Next]_Histories
  OBVIOUS
<1>1. ASSUME log' = log PROVE Histories' = Histories
  BY <1>1 DEF Histories
<1>2. ASSUME NEW r \in Recorders, AppendOK(r) PROVE Abstract!Next
  BY <1>2, AbstractRecord
<1>3. CASE LedgerNext
  BY <1>1, <1>2, <1>3 DEF LedgerNext, ReadTail, AppendFails
<1>4. CASE UNCHANGED ledgerVars
  BY <1>1, <1>4 DEF ledgerVars
<1>. QED BY <1>3, <1>4

(* Recording through two repository calls with racing recorders is, for    *)
(* either store, one atomic append of a new and properly evidenced event:  *)
(* nothing recorded is lost, moved, changed or recorded twice.             *)
THEOREM LedgerImplementsAppendOnly == LedgerSpec => ImplementsAppendOnly
<1>1. Inv /\ [LedgerNext]_ledgerVars => [Abstract!Next]_Histories
  BY AbstractStep
<1>2. LedgerSpec => Abstract!Init /\ [][Abstract!Next]_Histories
  BY <1>1, AbstractInit, LedgerInvariant, PTL DEF LedgerSpec
<1>. QED BY <1>2 DEF ImplementsAppendOnly, Abstract!Spec
=============================================================================
