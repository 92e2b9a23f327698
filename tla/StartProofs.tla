----------------------------- MODULE StartProofs -----------------------------
(***************************************************************************)
(* Theorems about both halves of Torrent.Start.  Swarm, for every number   *)
(* of peers and pieces: the channel of piece requests is a pool of work,   *)
(* and never full when it matters.  PieceWriter, for every number of       *)
(* pieces: nil means that the file is complete.                            *)
(***************************************************************************)
EXTENDS Swarm, PieceWriter, FiniteSetTheorems, SequenceTheorems, TLAPS

\* Receiving from a channel without duplicates removes one item.
LEMMA HeadTaken ==
    ASSUME NEW S, NEW s \in Seq(S), s # <<>>, IsInjective(s)
    PROVE  /\ Tail(s) \in Seq(S)
           /\ IsInjective(Tail(s))
           /\ Head(s) \in Range(s)
           /\ Range(Tail(s)) = Range(s) \ {Head(s)}
  <1>1. /\ Tail(s) \in Seq(S) /\ Len(Tail(s)) = Len(s) - 1
        /\ \A k \in 1 .. Len(Tail(s)) : Tail(s)[k] = s[k + 1]
    BY HeadTailProperties
  <1>2. Len(s) \in Nat \ {0} /\ DOMAIN s = 1 .. Len(s) /\ Head(s) = s[1]
        /\ DOMAIN Tail(s) = 1 .. Len(s) - 1
    BY <1>1
  <1>3. IsInjective(Tail(s))
    <2> SUFFICES ASSUME NEW j \in 1 .. Len(s) - 1, NEW k \in 1 .. Len(s) - 1,
                        Tail(s)[j] = Tail(s)[k]
                 PROVE  j = k
      BY <1>2 DEF IsInjective
    <2>1. s[j + 1] = s[k + 1] /\ j + 1 \in DOMAIN s /\ k + 1 \in DOMAIN s
      BY <1>1, <1>2
    <2>2. j + 1 = k + 1
      BY <2>1 DEF IsInjective
    <2> QED
      BY <2>2
  <1>4. Head(s) \in Range(s)
    BY <1>2 DEF Range
  <1>5. Range(Tail(s)) \subseteq Range(s) \ {Head(s)}
    <2> SUFFICES ASSUME NEW k \in 1 .. Len(s) - 1
                 PROVE  Tail(s)[k] \in Range(s) \ {Head(s)}
      BY <1>2 DEF Range
    <2>1. Tail(s)[k] = s[k + 1] /\ k + 1 \in DOMAIN s /\ k + 1 # 1 /\ 1 \in DOMAIN s
      BY <1>1, <1>2
    <2> QED
      BY <1>2, <2>1 DEF IsInjective, Range
  <1>6. Range(s) \ {Head(s)} \subseteq Range(Tail(s))
    <2> SUFFICES ASSUME NEW k \in 1 .. Len(s), s[k] # s[1]
                 PROVE  s[k] \in Range(Tail(s))
      BY <1>2 DEF Range
    <2>1. k - 1 \in 1 .. Len(s) - 1 /\ Tail(s)[k - 1] = s[k]
      BY <1>1, <1>2
    <2> QED
      BY <1>2, <2>1 DEF Range
  <1> QED
    BY <1>1, <1>3, <1>4, <1>5, <1>6

LEMMA RangeOfAppend ==
    ASSUME NEW S, NEW s \in Seq(S), NEW i \in S
    PROVE  Range(Append(s, i)) = Range(s) \cup {i}
  <1> DEFINE t == Append(s, i)
  <1>1. /\ Len(t) = Len(s) + 1 /\ DOMAIN t = 1 .. Len(s) + 1
        /\ Len(s) \in Nat /\ DOMAIN s = 1 .. Len(s)
        /\ \A k \in 1 .. Len(s) : t[k] = s[k]
        /\ t[Len(s) + 1] = i
    BY AppendProperties
  <1> HIDE DEF t
  <1>2. ASSUME NEW k \in 1 .. Len(s) + 1
        PROVE  t[k] \in Range(s) \cup {i}
    BY <1>1 DEF Range
  <1>3. ASSUME NEW k \in 1 .. Len(s)
        PROVE  s[k] \in Range(t)
    BY <1>1 DEF Range
  <1>4. i \in Range(t)
    BY <1>1 DEF Range
  <1>5. Range(t) = Range(s) \cup {i}
    BY <1>1, <1>2, <1>3, <1>4 DEF Range
  <1> QED
    BY <1>5 DEF t

\* Sending an item that is not in the channel adds it, and nothing twice.
LEMMA AppendSent ==
    ASSUME NEW S, NEW s \in Seq(S), NEW i \in S, i \notin Range(s), IsInjective(s)
    PROVE  /\ Append(s, i) \in Seq(S)
           /\ IsInjective(Append(s, i))
           /\ Range(Append(s, i)) = Range(s) \cup {i}
  <1> DEFINE t == Append(s, i)
  <1>1. /\ t \in Seq(S) /\ Len(t) = Len(s) + 1
        /\ \A k \in 1 .. Len(s) : t[k] = s[k]
        /\ t[Len(s) + 1] = i
    BY AppendProperties
  <1>2. Len(s) \in Nat /\ DOMAIN s = 1 .. Len(s) /\ DOMAIN t = 1 .. Len(s) + 1
    BY <1>1
  <1> HIDE DEF t
  <1>3. \A k \in 1 .. Len(s) : s[k] # i
    BY <1>2 DEF Range
  <1>4. IsInjective(t)
    <2> SUFFICES ASSUME NEW j \in 1 .. Len(s) + 1, NEW k \in 1 .. Len(s) + 1, t[j] = t[k]
                 PROVE  j = k
      BY <1>2 DEF IsInjective
    <2>1. CASE j \in 1 .. Len(s) /\ k \in 1 .. Len(s)
      BY <1>1, <1>2, <2>1 DEF IsInjective
    <2>2. CASE j = Len(s) + 1 \/ k = Len(s) + 1
      BY <1>1, <1>2, <1>3, <2>2
    <2> QED
      BY <1>2, <2>1, <2>2
  <1>5. Range(t) = Range(s) \cup {i}
    BY RangeOfAppend DEF t
  <1> QED
    BY <1>1, <1>4, <1>5 DEF t

\* A channel without duplicates that lacks a request is not full.
LEMMA RoomForTheMissing ==
    ASSUME NEW s \in Seq(Piece), IsInjective(s), NEW i \in Piece, i \notin Range(s)
    PROVE  Len(s) < NumPieces
  <1>1. Len(s) \in Nat /\ DOMAIN s = 1 .. Len(s) /\ s \in [1 .. Len(s) -> Piece]
    OBVIOUS
  <1>2. s \in Injection(1 .. Len(s), Piece \ {i})
    BY <1>1 DEF Injection, Range
  <1>3. IsFiniteSet(Piece) /\ Cardinality(Piece) = NumPieces
    BY PiecesAssumption, FS_Interval DEF Piece
  <1>4. IsFiniteSet(Piece \ {i}) /\ Cardinality(Piece \ {i}) = NumPieces - 1
    BY <1>3, FS_RemoveElement
  <1>5. Cardinality(1 .. Len(s)) <= NumPieces - 1
    BY <1>2, <1>4, FS_Injection
  <1>6. Cardinality(1 .. Len(s)) = Len(s)
    BY <1>1, FS_Interval, SMTT(30)
  <1> QED
    BY <1>1, <1>5, <1>6, PiecesAssumption

-----------------------------------------------------------------------------

\* Inductive strengthening: a request is in the channel at most once, in the
\* hands of one worker in the loop at most, never in both places, and in one of
\* them until it is dropped.
RequestInv ==
    /\ IsInjective(reqChan)
    /\ \A p \in Peers : held[p] = {} \/ \E i \in Piece : held[p] = {i}
    /\ \A p \in Peers : held[p] \cap Range(reqChan) = {}
    /\ \A p, q \in Peers : p # q => held[p] \cap held[q] = {}
    /\ \A p \in Peers : held[p] # {} => pc[p] = "loop"
    /\ \A i \in Piece : i \in Range(reqChan) \/ i \in dropped \/ \E p \in Peers : i \in held[p]

Inv == TypeOK /\ RequestInv

\* What the steps do that touch neither the channel nor a hand.
RequestsAlone ==
    /\ UNCHANGED <<reqChan, held, dropped>>
    /\ \A p \in Peers : pc[p] = "loop" => pc'[p] = "loop"

\* Start fills the channel with the requests of all pieces.
LEMMA InitAllPending ==
    ASSUME Init
    PROVE  Range(reqChan) = Piece
  <1>1. NumPieces \in Nat
    BY PiecesAssumption
  <1>2. \A i \in Piece : i + 1 \in 1 .. NumPieces /\ (i + 1) - 1 = i
    BY <1>1 DEF Piece
  <1>3. \A k \in 1 .. NumPieces : k - 1 \in Piece
    BY <1>1 DEF Piece
  <1>4. reqChan = [k \in 1 .. NumPieces |-> k - 1]
    BY DEF Init
  <1>5. DOMAIN reqChan = 1 .. NumPieces /\ \A k \in 1 .. NumPieces : reqChan[k] = k - 1
    BY <1>4
  <1> QED
    BY <1>2, <1>3, <1>5 DEF Range

LEMMA InitInv == Init => Inv
  <1> SUFFICES ASSUME Init PROVE Inv
    OBVIOUS
  <1>1. NumPieces \in Nat \ {0}
    BY PiecesAssumption
  <1>2. \A k \in 1 .. NumPieces : k - 1 \in Piece
    BY <1>1 DEF Piece
  <1>3. reqChan \in Seq(Piece) /\ IsInjective(reqChan)
    BY <1>1, <1>2 DEF Init, IsInjective
  <1>4. TypeOK
    BY <1>3 DEF Init, TypeOK
  <1>5. Piece \subseteq Range(reqChan)
    BY InitAllPending
  <1> QED
    BY <1>3, <1>4, <1>5 DEF Init, Inv, RequestInv

\* What the three operations on the channel do, as the abstract pool sees it.
LEMMA TakeStep ==
    ASSUME Inv, NEW p \in Peers, Take(p)
    PROVE  /\ Inv'
           /\ \E i \in Piece : Pool!Assign(p, i)
  <1> DEFINE i == Head(reqChan)
  <1>1. /\ pc[p] = "loop" /\ reqChan # <<>> /\ held[p] = {} /\ reqChan' = Tail(reqChan)
        /\ held' = [held EXCEPT ![p] = {i}]
        /\ UNCHANGED <<start, pc, dropped, bits, clients, snap, sent, overlapped>>
    BY DEF Take
  <1>2. reqChan \in Seq(Piece) /\ IsInjective(reqChan) /\ held \in [Peers -> SUBSET Piece]
    BY DEF Inv, TypeOK, RequestInv
  <1>3. /\ reqChan' \in Seq(Piece) /\ IsInjective(reqChan')
        /\ i \in Range(reqChan)
        /\ Range(reqChan') = Range(reqChan) \ {i}
    BY <1>1, <1>2, HeadTaken
  <1>4. i \in Piece
    BY <1>2, <1>3, RangeOfSeq
  <1> HIDE DEF i
  <1>5. TypeOK'
    BY <1>1, <1>3, <1>4 DEF Inv, TypeOK
  <1>6. \A q \in Peers : held'[q] = IF q = p THEN {i} ELSE held[q]
    BY <1>1, <1>2
  <1>7. RequestInv'
    <2>1. \A j \in Piece : j \in Range(reqChan') \/ j \in dropped' \/ \E q \in Peers : j \in held'[q]
      BY <1>1, <1>3, <1>6 DEF Inv, RequestInv
    <2> QED
      BY <1>1, <1>3, <1>4, <1>6, <2>1 DEF Inv, RequestInv
  <1>8. Pool!Assign(p, i)
    BY <1>1, <1>3 DEF Pool!Assign
  <1> QED
    BY <1>4, <1>5, <1>7, <1>8 DEF Inv

LEMMA PutBackStep ==
    ASSUME Inv, NEW p \in Peers, NEW i \in Piece, PutBack(p, i)
    PROVE  /\ Inv'
           /\ Pool!Return(p, i)
  <1>1. /\ held[p] = {i} /\ reqChan' = Append(reqChan, i)
        /\ held' = [held EXCEPT ![p] = {}]
        /\ UNCHANGED <<start, pc, dropped, bits, clients, snap, sent, overlapped>>
    BY DEF PutBack
  <1>2. reqChan \in Seq(Piece) /\ IsInjective(reqChan) /\ held \in [Peers -> SUBSET Piece]
    BY DEF Inv, TypeOK, RequestInv
  <1>3. i \notin Range(reqChan)
    BY <1>1 DEF Inv, RequestInv
  <1>4. /\ reqChan' \in Seq(Piece) /\ IsInjective(reqChan')
        /\ Range(reqChan') = Range(reqChan) \cup {i}
    BY <1>1, <1>2, <1>3, AppendSent
  <1>5. TypeOK'
    BY <1>1, <1>4 DEF Inv, TypeOK
  <1>6. \A q \in Peers : held'[q] = IF q = p THEN {} ELSE held[q]
    BY <1>1, <1>2
  <1>7. RequestInv'
    <2>1. \A j \in Piece : j \in Range(reqChan') \/ j \in dropped' \/ \E q \in Peers : j \in held'[q]
      BY <1>1, <1>4, <1>6 DEF Inv, RequestInv
    <2> QED
      BY <1>1, <1>4, <1>6, <2>1 DEF Inv, RequestInv
  <1>8. Pool!Return(p, i)
    BY <1>1, <1>4 DEF Pool!Return
  <1> QED
    BY <1>5, <1>7, <1>8 DEF Inv

LEMMA DropStep ==
    ASSUME Inv, NEW p \in Peers, NEW i \in Piece, Drop(p, i)
    PROVE  /\ Inv'
           /\ Pool!TakeOn(p, i)
  <1>1. /\ held[p] = {i} /\ dropped' = dropped \cup {i}
        /\ held' = [held EXCEPT ![p] = {}]
        /\ UNCHANGED <<start, pc, reqChan, bits, clients, snap, sent, overlapped>>
    BY DEF Drop
  <1>2. TypeOK'
    BY <1>1 DEF Inv, TypeOK
  <1>3. \A q \in Peers : held'[q] = IF q = p THEN {} ELSE held[q]
    BY <1>1 DEF Inv, TypeOK
  <1>4. RequestInv'
    <2>1. \A j \in Piece : j \in Range(reqChan') \/ j \in dropped' \/ \E q \in Peers : j \in held'[q]
      BY <1>1, <1>3 DEF Inv, RequestInv
    <2> QED
      BY <1>1, <1>3, <2>1 DEF Inv, RequestInv
  <1>5. Pool!TakeOn(p, i)
    BY <1>1 DEF Pool!TakeOn
  <1> QED
    BY <1>2, <1>4, <1>5 DEF Inv

\* Every other step keeps types and leaves the requests alone.
LEMMA OtherSteps ==
    ASSUME TypeOK, Next,
           \A p \in Peers : ~Take(p) /\ \A i \in Piece : ~PutBack(p, i) /\ ~Drop(p, i)
    PROVE  TypeOK' /\ RequestsAlone
  <1>1. ASSUME NEW ok \in BOOLEAN, OpenFile(ok)
        PROVE  TypeOK' /\ RequestsAlone
    BY <1>1 DEF OpenFile, TypeOK, RequestsAlone
  <1>2. ASSUME NEW p \in Peers, NEW ok \in BOOLEAN, Dial(p, ok) \/ Shake(p, ok)
        PROVE  TypeOK' /\ RequestsAlone
    BY <1>2 DEF Dial, Shake, TypeOK, RequestsAlone
  <1>3. ASSUME NEW p \in Peers, NEW ok \in BOOLEAN, NEW b \in SUBSET Piece, ReqBitFields(p, ok, b)
        PROVE  TypeOK' /\ RequestsAlone
    BY <1>3 DEF ReqBitFields, TypeOK, RequestsAlone
  <1>4. ASSUME NEW p \in Peers, ReadClients(p)
        PROVE  TypeOK' /\ RequestsAlone
    BY <1>4 DEF ReadClients, Appending, TypeOK, RequestsAlone
  <1>5. ASSUME NEW p \in Peers, WriteClients(p)
        PROVE  TypeOK' /\ RequestsAlone
    <2>1. snap[p] \in Seq(Peers) /\ Append(snap[p], p) \in Seq(Peers)
      BY DEF TypeOK
    <2> QED
      BY <1>5, <2>1 DEF WriteClients, TypeOK, RequestsAlone
  <1>6. ASSUME NEW p \in Peers, Greet(p)
        PROVE  TypeOK' /\ RequestsAlone
    <2>1. \A id \in {Unchoke, Interested} : Written(id) \subseteq 0 .. 10
      BY DEF Written, Unchoke, Interested, Uninterested
    <2> QED
      BY <1>6, <2>1 DEF Greet, TypeOK, RequestsAlone
  <1> QED
    BY <1>1, <1>2, <1>3, <1>4, <1>5, <1>6 DEF Next, Worker

\* A step of the workers keeps the invariant and is a step of the pool.
LEMMA Step == Inv /\ [Next]_vars => Inv' /\ [Pool!Next]_Pool!vars
  <1> SUFFICES ASSUME Inv, [Next]_vars
               PROVE  Inv' /\ [Pool!Next]_Pool!vars
    OBVIOUS
  <1>1. CASE \E p \in Peers : Take(p)
    BY <1>1, TakeStep DEF Pool!Next
  <1>2. CASE \E p \in Peers, i \in Piece : PutBack(p, i)
    BY <1>2, PutBackStep DEF Pool!Next
  <1>3. CASE \E p \in Peers, i \in Piece : Drop(p, i)
    BY <1>3, DropStep DEF Pool!Next
  <1>4. ASSUME TypeOK', RequestsAlone
        PROVE  Inv' /\ [Pool!Next]_Pool!vars
    <2>1. RequestInv'
      BY <1>4 DEF Inv, RequestInv, RequestsAlone
    <2>2. UNCHANGED Pool!vars
      BY <1>4 DEF RequestsAlone, Pool!vars
    <2> QED
      BY <1>4, <2>1, <2>2 DEF Inv
  <1>5. CASE UNCHANGED vars
    BY <1>4, <1>5 DEF vars, Inv, TypeOK, RequestsAlone
  <1> QED
    BY <1>1, <1>2, <1>3, <1>4, <1>5, OtherSteps DEF Inv

\* Every variable keeps its type, and every request stays in one place.
THEOREM Invariance == Spec => []Inv
  <1> QED
    BY InitInv, Step, PTL DEF Spec

\* For every number of peers and pieces, a worker that puts a request back
\* finds room in reqChan: pReqChan <- pReq (torrent.go:141) never blocks.
THEOREM PutBackNeverBlocksHolds == Spec => []PutBackNeverBlocks
  <1>1. Inv => PutBackNeverBlocks
    <2> SUFFICES ASSUME Inv, NEW p \in Peers, held[p] # {}
                 PROVE  Len(reqChan) < NumPieces
      BY DEF PutBackNeverBlocks
    <2>1. PICK i \in Piece : held[p] = {i}
      BY DEF Inv, RequestInv
    <2>2. reqChan \in Seq(Piece) /\ IsInjective(reqChan) /\ i \notin Range(reqChan)
      BY <2>1 DEF Inv, TypeOK, RequestInv
    <2> QED
      BY <2>2, RoomForTheMissing
  <1> QED
    BY <1>1, Invariance, PTL

\* For every number of peers and pieces, workers that wait for one another on the
\* channel (torrent.go:139-141) have no request left between them: what is
\* neither in the channel nor in a hand has been served, and a worker with a
\* request finds room for it.
THEOREM AllAsleepOnlyWhenServedHolds == Spec => []AllAsleepOnlyWhenServed
  <1>1. Inv /\ PutBackNeverBlocks => AllAsleepOnlyWhenServed
    <2> SUFFICES ASSUME Inv, PutBackNeverBlocks, \A p \in Peers : Asleep(p),
                        NEW p \in Peers, pc[p] # "reporting"
                 PROVE  dropped = Piece
      BY DEF AllAsleepOnlyWhenServed
    <2>1. ASSUME NEW q \in Peers
          PROVE  held[q] = {}
      <3> SUFFICES ASSUME held[q] # {} PROVE FALSE
        OBVIOUS
      <3>1. pc[q] = "loop" /\ Len(reqChan) < NumPieces
        BY DEF Inv, RequestInv, PutBackNeverBlocks
      <3>2. Len(reqChan) # NumPieces
        BY <3>1 DEF Inv, TypeOK
      <3> QED
        BY <3>1, <3>2 DEF Asleep
    <2>2. Range(reqChan) = {}
      <3>1. reqChan = <<>>
        BY <2>1 DEF Asleep
      <3> QED
        BY <3>1 DEF Range
    <2> QED
      BY <2>1, <2>2 DEF Inv, RequestInv, TypeOK
  <1> QED
    BY <1>1, Invariance, PutBackNeverBlocksHolds, PTL

\* Inductive strengthening: a connection whose append overlapped with no other is in
\* the list, and in every copy of it that an append is about to write; and where
\* two appends are under way, both overlap.
ClientsInv ==
    /\ \A p \in Joined : p \in overlapped \/ p \in Range(clients)
    /\ \A p \in Joined, q \in Appending : p \in overlapped \/ p \in Range(snap[q])
    /\ \A p, q \in Appending : p = q \/ p \in overlapped

LEMMA ClientsStep ==
    ASSUME TypeOK, ClientsInv, [Next]_vars
    PROVE  ClientsInv'
  <1>1. ASSUME UNCHANGED <<clients, snap, overlapped>>, Joined' = Joined, Appending' = Appending
        PROVE  ClientsInv'
    BY <1>1 DEF ClientsInv
  <1>2. ASSUME NEW p \in Peers, ReadClients(p)
        PROVE  ClientsInv'
    <2>1. /\ Joined' = Joined /\ Appending' = Appending \cup {p}
          /\ clients' = clients /\ overlapped \subseteq overlapped'
          /\ Appending # {} => Appending' \subseteq overlapped'
      BY <1>2 DEF ReadClients, TypeOK, Joined, Appending
    <2>2. \A q \in Peers : snap'[q] = IF q = p THEN clients ELSE snap[q]
      BY <1>2 DEF ReadClients, TypeOK
    <2>3. Appending \subseteq Peers
      BY DEF Appending
    <2> QED
      BY <2>1, <2>2, <2>3 DEF ClientsInv
  <1>3. ASSUME NEW p \in Peers, WriteClients(p)
        PROVE  ClientsInv'
    <2>1. /\ Joined' = Joined \cup {p} /\ Appending' = Appending \ {p} /\ p \in Appending
          /\ UNCHANGED <<snap, overlapped>>
      BY <1>3 DEF WriteClients, TypeOK, Joined, Appending
    <2>2. Range(clients') = Range(snap[p]) \cup {p}
      <3>1. snap[p] \in Seq(Peers) /\ clients' = Append(snap[p], p)
        BY <1>3 DEF WriteClients, TypeOK
      <3> QED
        BY <3>1, RangeOfAppend
    <2> QED
      BY <2>1, <2>2 DEF ClientsInv
  <1>4. CASE UNCHANGED vars
    BY <1>1, <1>4 DEF vars, Joined, Appending
  <1>5. ASSUME NEW p \in Peers, NEW ok \in BOOLEAN, NEW b \in SUBSET Piece,
               Dial(p, ok) \/ Shake(p, ok) \/ ReqBitFields(p, ok, b) \/ Greet(p)
        PROVE  ClientsInv'
    BY <1>1, <1>5 DEF Dial, Shake, ReqBitFields, Greet, TypeOK, Joined, Appending
  <1>6. ASSUME NEW p \in Peers, NEW ok \in BOOLEAN, NEW i \in Piece,
               OpenFile(ok) \/ Take(p) \/ PutBack(p, i) \/ Drop(p, i)
        PROVE  ClientsInv'
    BY <1>1, <1>6 DEF OpenFile, Take, PutBack, Drop, Joined, Appending
  <1> QED
    <2>1. CASE \E ok \in BOOLEAN : OpenFile(ok)
      BY <2>1, <1>1 DEF OpenFile, Joined, Appending
    <2>2. ASSUME NEW p \in Peers, Worker(p)
          PROVE  ClientsInv'
      <3>1. TRUE \in BOOLEAN /\ {} \in SUBSET Piece
        OBVIOUS
      <3>2. CASE Take(p)
        BY <1>1, <3>2 DEF Take, Joined, Appending
      <3> QED
        BY <1>2, <1>3, <1>5, <1>6, <2>2, <3>1, <3>2 DEF Worker
    <2> QED
      BY <1>4, <2>1, <2>2 DEF Next

\* For every number of peers, Torrent.clients (torrent.go:106) lacks a connection
\* only if its append has overlapped with another.
THEOREM ClientsLostOnlyInRaceHolds == Spec => []ClientsLostOnlyInRace
  <1>1. Init => ClientsInv
    BY DEF Init, ClientsInv, Joined, Appending
  <1>2. Inv => TypeOK
    BY DEF Inv
  <1>3. ClientsInv => ClientsLostOnlyInRace
    BY DEF ClientsInv, ClientsLostOnlyInRace
  <1> QED
    BY <1>1, <1>2, <1>3, ClientsStep, Invariance, PTL DEF Spec

\* The shared channel implements the pool: the initial states and every step of
\* the workers are initial states and steps, or stutters, of WorkPool.
THEOREM Refinement == Spec => ImplementsWorkPool
  <1>1. Init => Pool!Init
    BY InitAllPending DEF Init, Pool!Init
  <1> QED
    BY <1>1, InitInv, Step, PTL DEF Spec, ImplementsWorkPool, Pool!Spec

-----------------------------------------------------------------------------
(* The pieces that come back. *)

\* Piece i is accounted for once it has been received: it is in its place, on
\* the way there, or its write failed.
Accounted(i) ==
    \/ groupErr
    \/ \E bytes \in Bytes : <<i, i, bytes>> \in writing
    \/ \E bytes \in Bytes : file[i] = <<i, bytes>>

\* Inductive strengthening: got counts the pieces that are not unsent, they are
\* all accounted for, and every goroutine writes its piece to its own place.
WriterInv ==
    /\ WriterTypeOK
    /\ phase # "error" => Cardinality(unsent) = NumPieces - got
    /\ \A w \in writing : w[1] = w[2]
    /\ \A i \in Piece \ unsent : phase # "error" => Accounted(i)
    /\ phase \in {"wait", "nil"} => unsent = {}
    /\ phase = "nil" => writing = {} /\ ~groupErr

LEMMA PieceFinite == IsFiniteSet(Piece) /\ Cardinality(Piece) = NumPieces
  BY PiecesAssumption, FS_Interval DEF Piece

LEMMA UnsentFinite ==
    ASSUME WriterTypeOK
    PROVE  IsFiniteSet(unsent) /\ Cardinality(unsent) \in Nat
  BY PieceFinite, FS_Subset, FS_CardinalityType DEF WriterTypeOK

LEMMA WriterInitInv == WriterInit => WriterInv
  <1> SUFFICES ASSUME WriterInit PROVE WriterInv
    OBVIOUS
  <1>1. file \in [Piece -> {Hole} \cup (Piece \X Bytes)]
    BY DEF WriterInit
  <1>2. WriterTypeOK
    <2>1. phase = "open" /\ unsent = Piece /\ got = 0 /\ writing = {} /\ begun = {} /\ groupErr = FALSE
      BY DEF WriterInit
    <2>2. got \in 0 .. NumPieces
      BY <2>1, PiecesAssumption
    <2>3. writing \subseteq Piece \X Piece \X Bytes
      BY <2>1
    <2> QED
      BY <1>1, <2>1, <2>2, <2>3, Zenon DEF WriterTypeOK
  <1>3. Cardinality(unsent) = NumPieces - got
    BY PieceFinite, PiecesAssumption DEF WriterInit
  <1>4. \A w \in writing : w[1] = w[2]
    BY DEF WriterInit
  <1>5. Piece \ unsent = {} /\ phase = "open"
    BY DEF WriterInit
  <1> QED
    BY <1>2, <1>3, <1>4, <1>5 DEF WriterInv

LEMMA ReceiveStep ==
    ASSUME WriterInv, NEW i \in Piece, NEW bytes \in Bytes, Receive(i, bytes)
    PROVE  WriterInv'
  <1>1. /\ phase = "collect" /\ got < NumPieces /\ i \in unsent
        /\ unsent' = unsent \ {i} /\ got' = got + 1
        /\ writing' = writing \cup {<<i, i, bytes>>}
        /\ UNCHANGED <<phase, begun, file, groupErr>>
    BY DEF Receive, Place
  <1>2. WriterTypeOK'
    BY <1>1, PiecesAssumption DEF WriterInv, WriterTypeOK
  <1>3. Cardinality(unsent') = NumPieces - got'
    <2>1. Cardinality(unsent \ {i}) = Cardinality(unsent) - 1
      BY <1>1, UnsentFinite, FS_RemoveElement DEF WriterInv
    <2>2. Cardinality(unsent) = NumPieces - got /\ got \in Nat
      BY <1>1 DEF WriterInv, WriterTypeOK
    <2> QED
      BY <1>1, <2>1, <2>2, PiecesAssumption
  <1>4. \A w \in writing' : w[1] = w[2]
    BY <1>1 DEF WriterInv
  <1>5. \A j \in Piece \ unsent' : Accounted(j)'
    BY <1>1 DEF WriterInv, Accounted
  <1> QED
    BY <1>1, <1>2, <1>3, <1>4, <1>5 DEF WriterInv

LEMMA WriteStep ==
    ASSUME WriterInv, NEW w \in writing, Write(w)
    PROVE  WriterInv'
  <1>1. /\ w \in begun /\ begun' = begun \ {w}
        /\ file' = [file EXCEPT ![w[1]] = <<w[2], w[3]>>]
        /\ writing' = writing \ {w}
        /\ UNCHANGED <<phase, unsent, got, groupErr>>
    BY DEF Write
  <1>2. w[1] \in Piece /\ w[3] \in Bytes /\ w = <<w[1], w[1], w[3]>>
    BY DEF WriterInv, WriterTypeOK
  <1>3. file' = [file EXCEPT ![w[1]] = <<w[1], w[3]>>]
    BY <1>1 DEF WriterInv
  <1>4. WriterTypeOK'
    BY <1>1, <1>2, <1>3 DEF WriterInv, WriterTypeOK
  <1>5. ASSUME NEW j \in Piece \ unsent', phase' # "error"
        PROVE  Accounted(j)'
    <2>1. Accounted(j)
      BY <1>1, <1>5 DEF WriterInv
    <2>2. CASE j = w[1]
      BY <1>2, <1>3, <2>2 DEF Accounted, WriterInv, WriterTypeOK
    <2>3. CASE j # w[1]
      <3>1. file'[j] = file[j]
        BY <1>3, <2>3 DEF WriterInv, WriterTypeOK
      <3>2. \A bytes \in Bytes : <<j, j, bytes>> # w
        BY <1>2, <2>3
      <3> QED
        BY <1>1, <2>1, <3>1, <3>2 DEF Accounted
    <2> QED
      BY <2>2, <2>3
  <1>6. phase' # "error" => Cardinality(unsent') = NumPieces - got'
    BY <1>1 DEF WriterInv
  <1>7. \A v \in writing' : v[1] = v[2]
    BY <1>1 DEF WriterInv
  <1>8. phase' # "nil" /\ (phase' = "wait" => unsent' = {})
    BY <1>1 DEF WriterInv
  <1> QED
    BY <1>4, <1>5, <1>6, <1>7, <1>8 DEF WriterInv

LEMMA WriterStep == WriterInv /\ [WriterNext]_writerVars => WriterInv'
  <1> SUFFICES ASSUME WriterInv, [WriterNext]_writerVars PROVE WriterInv'
    OBVIOUS
  <1>1. ASSUME NEW ok \in BOOLEAN, Truncate(ok)
        PROVE  WriterInv'
    BY <1>1 DEF Truncate, WriterInv, WriterTypeOK, Accounted
  <1>2. ASSUME NEW i \in Piece, ReceiveShort(i)
        PROVE  WriterInv'
    BY <1>2 DEF ReceiveShort, WriterInv, WriterTypeOK
  <1>3. ASSUME NEW i \in Piece, NEW bytes \in Bytes, Receive(i, bytes)
        PROVE  WriterInv'
    BY <1>3, ReceiveStep
  <1>4. ASSUME NEW w \in writing, Write(w)
        PROVE  WriterInv'
    BY <1>4, WriteStep
  <1>5. ASSUME NEW w \in writing, WriteFails(w)
        PROVE  WriterInv'
    <2>1. /\ writing' = writing \ {w} /\ begun' = begun \ {w} /\ groupErr' = TRUE
          /\ UNCHANGED <<phase, unsent, got, file>>
      BY <1>5 DEF WriteFails
    <2>2. phase # "nil"
      BY DEF WriterInv
    <2> QED
      BY <2>1, <2>2 DEF WriterInv, WriterTypeOK, Accounted
  <1>6. CASE CollectedAll
    <2>1. /\ phase = "collect" /\ got = NumPieces /\ phase' = "wait"
          /\ UNCHANGED <<unsent, got, writing, begun, file, groupErr>>
      BY <1>6 DEF CollectedAll
    <2>2. Cardinality(unsent) = 0
      BY <2>1, PiecesAssumption DEF WriterInv
    <2>3. unsent = {}
      BY <2>2, UnsentFinite, FS_EmptySet DEF WriterInv
    <2> QED
      BY <2>1, <2>3 DEF WriterInv, WriterTypeOK, Accounted
  <1>7. CASE WaitReturns
    BY <1>7 DEF WaitReturns, WriterInv, WriterTypeOK, Accounted
  <1>8. ASSUME NEW w \in writing, BeginWrite(w)
        PROVE  WriterInv'
    BY <1>8 DEF BeginWrite, WriterInv, WriterTypeOK, Accounted
  <1>9. CASE UNCHANGED writerVars
    BY <1>9 DEF writerVars, WriterInv, WriterTypeOK, Accounted
  <1> QED
    BY <1>1, <1>2, <1>3, <1>4, <1>5, <1>6, <1>7, <1>8, <1>9 DEF WriterNext

\* Start returns nil only when every piece is in its place, for every number of
\* pieces and every order of arrivals and writes.
THEOREM NilMeansCompleteHolds == WriterSpec => [](WriterTypeOK /\ NilMeansComplete)
  <1>1. WriterInv => WriterTypeOK /\ NilMeansComplete
    BY DEF WriterInv, NilMeansComplete, Accounted
  <1> QED
    BY <1>1, WriterInitInv, WriterStep, PTL DEF WriterSpec
=============================================================================
