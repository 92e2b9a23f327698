-------------------------- MODULE UtpDelaysProofs --------------------------
(***************************************************************************)
(* Proofs about UtpDelays, for every width of its numbers, every age and   *)
(* length of the base delays, and whatever the remote sends when.          *)
(***************************************************************************)
EXTENDS UtpDelays, SequenceTheorems, TLAPS

-----------------------------------------------------------------------------
(* Numbers of two and of four bytes. *)

\* There is at least one number of each width.
LEMMA Widths == /\ D \in Nat \ {0} /\ U16 \in Nat \ {0} /\ U32 \in Nat \ {0}
                /\ U16 = D * D /\ U32 = U16 * U16
  BY DigitAssumption DEF U16, U32

\* Division with remainder.
LEMMA DivMod ==
    ASSUME NEW n \in Nat, NEW d \in Nat \ {0}
    PROVE  n % d \in 0 .. d - 1 /\ n \div d \in Nat /\ n = d * (n \div d) + (n % d)
  OBVIOUS

\* The quotient of a number below a product.
LEMMA DivBelow ==
    ASSUME NEW d \in Nat \ {0}, NEW e \in Nat \ {0}, NEW n \in 0 .. d * e - 1
    PROVE  n \div d \in 0 .. e - 1
  <1> DEFINE q == n \div d
  <1>0. d * e \in Nat /\ n \in Nat
    OBVIOUS
  <1>1. q \in Nat /\ n >= d * q
    BY <1>0, DivMod
  <1> HIDE DEF q
  <1>2. ASSUME q >= e PROVE FALSE
    <2>1. PICK r \in Nat : q = e + r
      BY <1>1, <1>2
    <2>2. d * q = d * e + d * r /\ d * r \in Nat
      BY <2>1
    <2> QED BY <2>2, <1>1, <1>0
  <1>3. q \in 0 .. e - 1
    BY <1>1, <1>2
  <1> QED BY <1>3 DEF q

\* Two digits make a number below the product of their bases.
LEMMA Joined ==
    ASSUME NEW d \in Nat \ {0}, NEW e \in Nat \ {0}, NEW a \in 0 .. e - 1, NEW c \in 0 .. d - 1
    PROVE  a * d + c \in 0 .. d * e - 1
  <1>1. PICK r \in Nat : e = a + 1 + r
    OBVIOUS
  <1>2. d * e = d * a + d + d * r /\ d * r \in Nat /\ d * a \in Nat /\ a * d = d * a
    BY <1>1
  <1> QED BY <1>2

\* Turning the bytes of a number round keeps its width.
LEMMA Inv16 ==
    ASSUME NEW n \in 0 .. U16 - 1
    PROVE  invEndUint16(n) \in 0 .. U16 - 1
  <1>1. n \in Nat /\ n \in 0 .. D * D - 1
    BY Widths
  <1>2. n % D \in 0 .. D - 1
    BY <1>1, Widths, DivMod
  <1>3. n \div D \in 0 .. D - 1
    BY <1>1, Widths, DivBelow
  <1>4. (n % D) * D + (n \div D) \in 0 .. D * D - 1
    BY <1>2, <1>3, Widths, Joined
  <1> QED BY <1>4, Widths DEF invEndUint16

\* The same for four bytes.
LEMMA Inv32 ==
    ASSUME NEW n \in 0 .. U32 - 1
    PROVE  invEndUint32(n) \in 0 .. U32 - 1
  <1>1. n \in Nat /\ n \in 0 .. U16 * U16 - 1
    BY Widths
  <1>2. n % U16 \in 0 .. U16 - 1
    BY <1>1, Widths, DivMod
  <1>3. n \div U16 \in 0 .. U16 - 1
    BY <1>1, Widths, DivBelow
  <1>4. invEndUint16(n % U16) \in 0 .. U16 - 1 /\ invEndUint16(n \div U16) \in 0 .. U16 - 1
    BY <1>2, <1>3, Inv16
  <1>5. invEndUint16(n % U16) * U16 + invEndUint16(n \div U16) \in 0 .. U16 * U16 - 1
    BY <1>4, Widths, Joined
  <1> QED BY <1>5, Widths DEF invEndUint32

\* The number after a number.
LEMMA NextNr ==
    ASSUME NEW n \in 0 .. U16 - 1
    PROVE  (n + 1) % U16 \in 0 .. U16 - 1
  <1>1. n + 1 \in Nat
    OBVIOUS
  <1> QED BY <1>1, Widths, DivMod

\* What the setters write is a packet.
LEMMA SettersType ==
    ASSUME NEW p \in Packets, NEW n \in 0 .. U16 - 1, NEW t \in 0 .. U32 - 1
    PROVE  /\ setSeqNr(p, n) \in Packets /\ setAckNr(p, n) \in Packets /\ setConnID(p, n) \in Packets
           /\ setTimestamp(p, t) \in Packets /\ setTimespanDiff(p, t) \in Packets
  <1>1. invEndUint16(n) \in 0 .. U16 - 1 /\ invEndUint32(t) \in 0 .. U32 - 1
    BY Inv16, Inv32
  <1>2. t % U32 \in 0 .. U32 - 1
    BY Widths, DivMod
  <1>3. invEndUint32(t % U32) \in 0 .. U32 - 1
    BY <1>2, Inv32
  <1> QED BY <1>1, <1>3 DEF Packets, setSeqNr, setAckNr, setConnID, setTimestamp, setTimespanDiff

\* The numbers the getters read.
LEMMA GettersType ==
    ASSUME NEW p \in Packets
    PROVE  getSeqNr(p) \in 0 .. U16 - 1 /\ getAckNr(p) \in 0 .. U16 - 1 /\ timestamp(p) \in 0 .. U32 - 1
  BY Inv16, Inv32 DEF Packets, getSeqNr, getAckNr, timestamp

\* A new packet, and the packets of the remote.
LEMMA PacketsMade ==
    /\ NewPacket \in Packets
    /\ Heard \subseteq Packets
  <1>1. NewPacket \in Packets
    BY Widths DEF NewPacket, Packets, Data, Invalid, None, InvalidExt
  <1>2. ASSUME NEW t \in {State, Syn}, NEW x \in None .. SelectiveAck, NEW ack \in Nrs,
               NEW at \in Stamps, NEW id \in {senderConnID, (senderConnID + 2) % U16}
        PROVE  PacketOf(t, x, ack, at, id) \in Packets
    <2>1. [NewPacket EXCEPT !.type = t, !.ver = 1, !.extension = x] \in Packets
      <3>1. t \in Data .. Invalid /\ x \in None .. InvalidExt /\ 1 \in 0 .. 1
        BY DEF Data, Invalid, State, Syn, None, SelectiveAck, InvalidExt
      <3> QED BY <3>1, <1>1 DEF Packets
    <2>2. ack \in 0 .. U16 - 1 /\ at \in 0 .. U32 - 1 /\ id \in 0 .. U16 - 1
      <3>1. (senderConnID + 2) % U16 \in 0 .. U16 - 1
        BY DelaysAssumption, Widths, DivMod
      <3> QED BY <3>1, DelaysAssumption
    <2>3. setAckNr([NewPacket EXCEPT !.type = t, !.ver = 1, !.extension = x], ack) \in Packets
      BY <2>1, <2>2, Widths, SettersType
    <2>4. setTimestamp(setAckNr([NewPacket EXCEPT !.type = t, !.ver = 1, !.extension = x], ack), at) \in Packets
      BY <2>2, <2>3, SettersType
    <2> QED BY <2>2, <2>4, SettersType DEF PacketOf
  <1> QED BY <1>1, <1>2 DEF Heard

\* Differences of numbers are numbers.
LEMMA Differences ==
    ASSUME NEW a \in 0 .. U32 - 1, NEW c \in 0 .. U32 - 1
    PROVE  absDiff(a, c) \in 0 .. U32 - 1 /\ (a - c + U32) % U32 \in 0 .. U32 - 1
  <1>1. a - c + U32 \in Nat
    BY Widths
  <1> QED BY <1>1, Widths, DivMod DEF absDiff

\* An int32 is one.
LEMMA Ints ==
    ASSUME NEW n \in Int
    PROVE  Int32(n) \in -M .. M - 1
  <1>1. 2 * M \in Nat \ {0} /\ n + M \in Int /\ M \in Nat
    BY DelaysAssumption
  <1>2. (n + M) % (2 * M) \in 0 .. 2 * M - 1
    BY <1>1
  <1> QED BY <1>1, <1>2 DEF Int32

\* The round-trip time is one.
LEMMA RttType ==
    ASSUME rtt \in -M .. M - 1, NEW currDelay \in Rtts, updateCongestionTimeOut(currDelay)
    PROVE  rtt' \in -M .. M - 1
  <1>1. rtt - currDelay \in Int /\ rtt \in Int
    BY DelaysAssumption
  <1>2. Int32(rtt - currDelay) \in Int
    BY <1>1, Ints, DelaysAssumption
  <1>3. abs(Int32(rtt - currDelay)) \in Int
    BY <1>2, Ints, DelaysAssumption DEF abs
  <1>4. rtt + (abs(Int32(rtt - currDelay)) \div 4) \in Int
    BY <1>1, <1>3
  <1> QED BY <1>4, Ints DEF updateCongestionTimeOut

\* Stamping a packet.
LEMMA StampedType ==
    ASSUME TypeOK, NEW p \in Packets
    PROVE  Stamped(p) \in Packets
  <1>1. setTimestamp(p, now) \in Packets
    BY SettersType DEF TypeOK
  <1>2. setTimespanDiff(setTimestamp(p, now), theirDelay) \in Packets
    BY <1>1, SettersType, Widths DEF TypeOK
  <1> QED BY <1>2 DEF Stamped

\* The window after it has advanced.
LEMMA AdvancedType ==
    ASSUME NEW w \in Seq(Packets), NEW nr
    PROVE  Advanced(w, nr) \in Seq(Packets)
  <1> DEFINE found == {i \in 1 .. Len(w) : getSeqNr(w[i]) = nr}
  <1>1. CASE found = {}
    BY <1>1 DEF Advanced
  <1>2. CASE found # {}
    <2>1. (CHOOSE i \in found : TRUE) \in 1 .. Len(w)
      BY <1>2
    <2> DEFINE k == (CHOOSE i \in found : TRUE) + 1
    <2>2. k \in 1 .. Len(w) + 1
      BY <2>1
    <2> HIDE DEF k
    <2>3. SubSeq(w, k, Len(w)) \in Seq(Packets)
      BY <2>2
    <2> QED BY <1>2, <2>3 DEF Advanced, k
  <1> QED BY <1>1, <1>2

-----------------------------------------------------------------------------
(* Steps. *)

\* One step measures, or lets time pass, or does neither.
Sampled(d) ==
    /\ updateBaseDelay(d) /\ updateCurrDelay(d) /\ UNCHANGED clock
    /\ taken' = taken + 1 /\ \E currDelay \in Rtts : updateCongestionTimeOut(currDelay)

Passes ==
    /\ UNCHANGED measures
    /\ now' \in 0 .. U32 - 1
    /\ \/ epoch' = epoch /\ now' >= now
       \/ epoch' = epoch + 1

\* The packet acknowledged gives a delay that is a number.
LEMMA MeasureSamples ==
    ASSUME TypeOK, NEW i \in 1 .. Len(sendWdw), Measure(i), UNCHANGED clock
    PROVE  \E d \in 0 .. U32 - 1 : Sampled(d)
  <1>1. sendWdw[i] \in Packets
    BY DEF TypeOK
  <1>2. (now - timestamp(sendWdw[i]) + U32) % U32 \in 0 .. U32 - 1
    BY <1>1, GettersType, Differences DEF TypeOK
  <1> QED BY <1>2 DEF Measure, Sampled

\* There are no other steps.
LEMMA Steps ==
    ASSUME TypeOK, [Next]_vars
    PROVE  UNCHANGED <<clock, measures>> \/ Passes \/ \E d \in 0 .. U32 - 1 : Sampled(d)
  <1>1. ASSUME NEW d \in Ticks, Tick(d) PROVE Passes
    BY <1>1, DelaysAssumption, Widths, SMTT(30) DEF Tick, Passes, TypeOK
  <1>2. ASSUME NEW p \in Heard, NEW third \in BOOLEAN, HearState(p, third)
        PROVE  UNCHANGED <<clock, measures>> \/ \E d \in 0 .. U32 - 1 : Sampled(d)
    <2>1. UNCHANGED clock
      BY <1>2 DEF HearState
    <2>2. CASE Positions(getAckNr(p)) = {}
      BY <2>1, <2>2, <1>2 DEF HearState
    <2>3. CASE Positions(getAckNr(p)) # {}
      <3>1. PICK i \in Positions(getAckNr(p)) : Measure(i)
        BY <2>3, <1>2 DEF HearState
      <3> QED BY <3>1, <2>1, MeasureSamples DEF Positions
    <2> QED BY <2>2, <2>3
  <1>3. ASSUME Timeout \/ Resend \/ (\E ok \in BOOLEAN : Send(ok)) \/ (\E p \in Heard : HearSyn(p))
               \/ UNCHANGED vars
        PROVE  UNCHANGED <<clock, measures>>
    BY <1>3 DEF Timeout, Resend, Send, HearSyn, vars
  <1> QED BY <1>1, <1>2, <1>3 DEF Next

Delays == 0 .. U32 - 1
Periods == [begun : Moments, last : Moments, delays : SUBSET Delays]
Samples == [receivedAt : Delays, difference : Delays, epoch : Nat]

\* There are as many base delays as there is room for.
BaseLen == Len(baseDelays) = Smaller(Len(periods), BASE_HISTORY)

\* The sequences after a new minute has begun, element by element.
LEMMA NewMinute ==
    ASSUME TypeOK, NEW d \in Delays, Sampled(d), MinuteOver,
           NEW drop, drop = IF Len(baseDelays) = BASE_HISTORY THEN 1 ELSE 0
    PROVE  /\ lastRollover' = now
           /\ baseDelays' \in Seq(Delays) /\ Len(baseDelays') = Len(baseDelays) - drop + 1
           /\ \A i \in 1 .. Len(baseDelays) - drop : baseDelays'[i] = baseDelays[i + drop]
           /\ baseDelays'[Len(baseDelays')] = d
           /\ periods' \in Seq(Periods) /\ Len(periods') = Len(periods) + 1
           /\ \A i \in 1 .. Len(periods) : periods'[i] = periods[i]
           /\ periods'[Len(periods) + 1] = [begun |-> Moment, last |-> Moment, delays |-> {d}]
  <1>1. /\ lastRollover' = now
        /\ baseDelays' = Append(IF Len(baseDelays) = BASE_HISTORY THEN Tail(baseDelays) ELSE baseDelays, d)
        /\ periods' = Append(periods, [begun |-> Moment, last |-> Moment, delays |-> {d}])
    BY DEF Sampled, updateBaseDelay
  <1>2. baseDelays \in Seq(Delays) /\ periods \in Seq(Periods)
    BY DEF TypeOK, Delays, Periods
  <1>3. [begun |-> Moment, last |-> Moment, delays |-> {d}] \in Periods
    BY DEF TypeOK, Periods, Moment, Moments
  <1>4. /\ periods' \in Seq(Periods) /\ Len(periods') = Len(periods) + 1
        /\ \A i \in 1 .. Len(periods) : periods'[i] = periods[i]
        /\ periods'[Len(periods) + 1] = [begun |-> Moment, last |-> Moment, delays |-> {d}]
    BY <1>1, <1>2, <1>3, AppendProperties
  <1> DEFINE t == IF Len(baseDelays) = BASE_HISTORY THEN Tail(baseDelays) ELSE baseDelays
  <1>5. t \in Seq(Delays) /\ Len(t) = Len(baseDelays) - drop
        /\ \A i \in 1 .. Len(t) : t[i] = baseDelays[i + drop]
    <2>1. CASE Len(baseDelays) = BASE_HISTORY
      <3>1. baseDelays # <<>> /\ drop = 1
        BY <2>1, <1>2, DelaysAssumption
      <3> QED BY <3>1, <2>1, <1>2, HeadTailProperties
    <2>2. CASE Len(baseDelays) # BASE_HISTORY
      BY <2>2, <1>2
    <2> QED BY <2>1, <2>2
  <1>6. baseDelays' = Append(t, d)
    BY <1>1
  <1> HIDE DEF t
  <1>7. /\ baseDelays' \in Seq(Delays) /\ Len(baseDelays') = Len(t) + 1
        /\ \A i \in 1 .. Len(t) : baseDelays'[i] = t[i]
        /\ baseDelays'[Len(t) + 1] = d
    BY <1>5, <1>6, AppendProperties
  <1> QED BY <1>1, <1>4, <1>5, <1>7

\* The same for a minute that goes on.
LEMMA SameMinute ==
    ASSUME TypeOK, BaseLen, NEW d \in Delays, Sampled(d), ~MinuteOver
    PROVE  /\ lastRollover' = lastRollover /\ now - lastRollover <= AGE
           /\ Len(baseDelays) >= 1 /\ Len(periods) >= 1
           /\ baseDelays' \in Seq(Delays) /\ Len(baseDelays') = Len(baseDelays)
           /\ \A i \in 1 .. Len(baseDelays) :
                baseDelays'[i] = IF i = Len(baseDelays) THEN Lower(d, baseDelays[i]) ELSE baseDelays[i]
           /\ periods' \in Seq(Periods) /\ Len(periods') = Len(periods)
           /\ \A i \in 1 .. Len(periods) :
                /\ periods'[i].begun = periods[i].begun
                /\ periods'[i].last = IF i = Len(periods) THEN Moment ELSE periods[i].last
                /\ periods'[i].delays = IF i = Len(periods) THEN periods[i].delays \cup {d}
                                                            ELSE periods[i].delays
  <1>1. /\ lastRollover' = lastRollover
        /\ baseDelays' = [baseDelays EXCEPT ![Len(baseDelays)] = Lower(d, baseDelays[Len(baseDelays)])]
        /\ periods' = [periods EXCEPT ![Len(periods)] =
                         [begun |-> periods[Len(periods)].begun, last |-> Moment,
                          delays |-> periods[Len(periods)].delays \cup {d}]]
    BY DEF Sampled, updateBaseDelay
  <1>2. baseDelays \in Seq(Delays) /\ periods \in Seq(Periods) /\ now - lastRollover <= AGE
        /\ baseDelays # <<>>
    BY DelaysAssumption DEF TypeOK, MinuteOver, Delays, Periods
  <1>3. Len(baseDelays) >= 1 /\ Len(periods) >= 1
    BY <1>2, DelaysAssumption DEF BaseLen, Smaller
  <1> DEFINE q == periods[Len(periods)]
             e == [begun |-> q.begun, last |-> Moment, delays |-> q.delays \cup {d}]
  <1>4. q \in Periods /\ Len(periods) \in 1 .. Len(periods)
    BY <1>2, <1>3
  <1>5. e \in Periods
    <2>1. Moment \in Moments
      BY DEF TypeOK, Moment, Moments
    <2> QED BY <1>4, <2>1 DEF Periods
  <1>6. Lower(d, baseDelays[Len(baseDelays)]) \in Delays
    BY <1>2, <1>3 DEF Lower
  <1>7. /\ baseDelays' \in Seq(Delays) /\ Len(baseDelays') = Len(baseDelays)
        /\ \A i \in 1 .. Len(baseDelays) :
             baseDelays'[i] = IF i = Len(baseDelays) THEN Lower(d, baseDelays[Len(baseDelays)]) ELSE baseDelays[i]
    <2>1. Len(baseDelays) \in 1 .. Len(baseDelays)
      BY <1>2, <1>3
    <2> QED BY <2>1, <1>1, <1>2, <1>6, ExceptSeq
  <1>8. periods' = [periods EXCEPT ![Len(periods)] = e]
    BY <1>1
  <1> HIDE DEF e
  <1>9. /\ periods' \in Seq(Periods) /\ Len(periods') = Len(periods)
        /\ \A i \in 1 .. Len(periods) : periods'[i] = IF i = Len(periods) THEN e ELSE periods[i]
    BY <1>2, <1>4, <1>5, <1>8, ExceptSeq
  <1>10. e.begun = q.begun /\ e.last = Moment /\ e.delays = q.delays \cup {d}
    BY DEF e
  <1>11. ASSUME NEW i \in 1 .. Len(periods)
         PROVE  /\ periods'[i].begun = periods[i].begun
                /\ periods'[i].last = IF i = Len(periods) THEN Moment ELSE periods[i].last
                /\ periods'[i].delays = IF i = Len(periods) THEN periods[i].delays \cup {d}
                                                            ELSE periods[i].delays
    <2>1. CASE i = Len(periods)
      BY <2>1, <1>9, <1>10
    <2>2. CASE i # Len(periods)
      BY <2>2, <1>9
    <2> QED BY <2>1, <2>2
  <1> QED BY <1>1, <1>2, <1>3, <1>7, <1>9, <1>11

\* The current delays, of which the first k are removed.
LEMMA Removed ==
    ASSUME TypeOK, NEW d \in Delays, Sampled(d)
    PROVE  \E k \in 0 .. Len(currentDelays) :
             /\ \A j \in 1 .. k : Old(currentDelays[j])
             /\ k < Len(currentDelays) => ~Old(currentDelays[k + 1])
             /\ currentDelays' \in Seq(Samples) /\ Len(currentDelays') = Len(currentDelays) - k + 1
             /\ \A i \in 1 .. Len(currentDelays) - k : currentDelays'[i] = currentDelays[i + k]
             /\ currentDelays'[Len(currentDelays) - k + 1] = Sample(d)
  <1>1. PICK k \in 0 .. Len(currentDelays) :
          /\ \A j \in 1 .. k : Old(currentDelays[j])
          /\ k < Len(currentDelays) => ~Old(currentDelays[k + 1])
          /\ currentDelays' = Append(SubSeq(currentDelays, k + 1, Len(currentDelays)), Sample(d))
    BY DEF Sampled, updateCurrDelay
  <1>2. currentDelays \in Seq(Samples) /\ Sample(d) \in Samples
    BY DEF TypeOK, Samples, Delays, Sample
  <1> DEFINE t == SubSeq(currentDelays, k + 1, Len(currentDelays))
  <1>3. /\ t \in Seq(Samples) /\ Len(t) = Len(currentDelays) - k
        /\ \A i \in 1 .. Len(currentDelays) - k : t[i] = currentDelays[i + k]
    BY <1>2, SubSeqProperties
  <1> HIDE DEF t
  <1>4. currentDelays' = Append(t, Sample(d))
    BY <1>1 DEF t
  <1>5. /\ currentDelays' \in Seq(Samples) /\ Len(currentDelays') = Len(t) + 1
        /\ \A i \in 1 .. Len(t) : currentDelays'[i] = t[i]
        /\ currentDelays'[Len(t) + 1] = Sample(d)
    BY <1>2, <1>3, <1>4, AppendProperties
  <1> QED BY <1>1, <1>3, <1>5

-----------------------------------------------------------------------------
(* Type correctness. *)

\* What is not measured keeps its type.
LEMMA RestType ==
    ASSUME TypeOK, [Next]_vars
    PROVE  /\ {seqNr', lastAcked'} \subseteq 0 .. U16 - 1
           /\ sendWdw' \in Seq(Packets) /\ resends' \in Seq(0 .. U16 - 1)
           /\ theirDelay' \in 0 .. U32 - 1
           /\ made' \in Nat
  <1> USE DEF TypeOK
  <1>1. ASSUME NEW d \in Ticks, Tick(d)
        PROVE  UNCHANGED <<seqNr, lastAcked, sendWdw, resends, theirDelay, made>>
    BY <1>1 DEF Tick, numbers
  <1>2. ASSUME NEW ok \in BOOLEAN, Send(ok)
        PROVE  /\ seqNr' \in 0 .. U16 - 1 /\ sendWdw' \in Seq(Packets) /\ made' \in Nat
               /\ UNCHANGED <<lastAcked, resends, theirDelay>>
    <2>1. seqNr' \in 0 .. U16 - 1
      BY <1>2, NextNr DEF Send
    <2> DEFINE p == setConnID(setSeqNr(NewPacket, seqNr), senderConnID)
    <2>2. p \in Packets
      <3>1. seqNr \in 0 .. U16 - 1 /\ senderConnID \in 0 .. U16 - 1 /\ 0 \in 0 .. U32 - 1
        BY DelaysAssumption, Widths
      <3>2. setSeqNr(NewPacket, seqNr) \in Packets
        BY <3>1, PacketsMade, SettersType
      <3> QED BY <3>1, <3>2, SettersType
    <2>3. sendWdw' = IF ok THEN Append(sendWdw, Stamped(p)) ELSE sendWdw
      BY <1>2 DEF Send
    <2> HIDE DEF p
    <2>4. Stamped(p) \in Packets
      BY <2>2, StampedType
    <2> QED BY <1>2, <2>1, <2>3, <2>4 DEF Send
  <1>3. ASSUME Timeout
        PROVE  /\ sendWdw' \in Seq(Packets)
               /\ UNCHANGED <<seqNr, lastAcked, resends, theirDelay, made>>
    <2>1. 1 \in 1 .. Len(sendWdw) /\ sendWdw[1] \in Packets
      BY <1>3 DEF Timeout
    <2>2. setTimestamp(sendWdw[1], now) \in Packets
      <3>1. now \in 0 .. U32 - 1 /\ 0 \in 0 .. U16 - 1
        BY Widths
      <3> QED BY <3>1, <2>1, SettersType
    <2>3. sendWdw' = [sendWdw EXCEPT ![1] = setTimestamp(sendWdw[1], now)]
      BY <1>3 DEF Timeout
    <2> QED BY <1>3, <2>1, <2>2, <2>3, ExceptSeq DEF Timeout, numbers
  <1>4. ASSUME Resend
        PROVE  /\ sendWdw' \in Seq(Packets) /\ resends' \in Seq(0 .. U16 - 1)
               /\ UNCHANGED <<seqNr, lastAcked, theirDelay, made>>
    <2> DEFINE I == Positions(Head(resends))
               i == CHOOSE i \in I : TRUE
               w == IF I = {} THEN sendWdw ELSE [sendWdw EXCEPT ![i] = Stamped(sendWdw[i])]
    <2>2. w \in Seq(Packets)
      <3>1. CASE I = {}
        BY <3>1
      <3>2. CASE I # {}
        <4>1. i \in 1 .. Len(sendWdw)
          BY <3>2 DEF Positions
        <4>2. sendWdw[i] \in Packets
          BY <4>1
        <4>3. Stamped(sendWdw[i]) \in Packets
          BY <4>2, StampedType
        <4> HIDE DEF i
        <4> QED BY <3>2, <4>1, <4>3, ExceptSeq
      <3> QED BY <3>1, <3>2
    <2>3. sendWdw' = Advanced(w, lastAcked)
      BY <1>4 DEF Resend
    <2> HIDE DEF w, i, I
    <2>4. sendWdw' \in Seq(Packets)
      BY <2>2, <2>3, AdvancedType
    <2>5. resends' \in Seq(0 .. U16 - 1)
      BY <1>4 DEF Resend
    <2> QED BY <1>4, <2>4, <2>5 DEF Resend, numbers
  <1>5. ASSUME NEW p \in Heard
        PROVE  /\ absDiff(now, timestamp(p)) \in 0 .. U32 - 1 /\ getAckNr(p) \in 0 .. U16 - 1
               /\ (getAckNr(p) + 1) % U16 \in 0 .. U16 - 1
    <2>1. timestamp(p) \in 0 .. U32 - 1 /\ getAckNr(p) \in 0 .. U16 - 1
      BY PacketsMade, GettersType
    <2> QED BY <2>1, Differences, NextNr
  <1>6. ASSUME NEW p \in Heard, HearSyn(p)
        PROVE  /\ theirDelay' \in 0 .. U32 - 1
               /\ UNCHANGED <<seqNr, lastAcked, sendWdw, resends, made>>
    BY <1>5, <1>6 DEF HearSyn, numbers
  <1>7. ASSUME NEW p \in Heard, NEW third \in BOOLEAN, HearState(p, third)
        PROVE  /\ lastAcked' \in 0 .. U16 - 1 /\ theirDelay' \in 0 .. U32 - 1
               /\ sendWdw' \in Seq(Packets) /\ resends' \in Seq(0 .. U16 - 1)
               /\ UNCHANGED <<seqNr, made>>
    <2>1. lastAcked' \in 0 .. U16 - 1 /\ theirDelay' \in 0 .. U32 - 1 /\ UNCHANGED <<seqNr, made>>
      BY <1>5, <1>7 DEF HearState
    <2>2. sendWdw' \in Seq(Packets)
      <3>1. sendWdw' = sendWdw \/ sendWdw' = Advanced(sendWdw, getAckNr(p))
        BY <1>7 DEF HearState
      <3> QED BY <3>1, AdvancedType
    <2>3. resends' \in Seq(0 .. U16 - 1)
      <3>1. resends' = resends \/ resends' = <<(getAckNr(p) + 1) % U16>> \o resends
        BY <1>7 DEF HearState
      <3>2. <<(getAckNr(p) + 1) % U16>> \in Seq(0 .. U16 - 1)
        BY <1>5
      <3>3. resends \in Seq(0 .. U16 - 1)
        OBVIOUS
      <3>4. <<(getAckNr(p) + 1) % U16>> \o resends \in Seq(0 .. U16 - 1)
        BY <3>2, <3>3, ConcatProperties
      <3> QED BY <3>1, <3>3, <3>4
    <2> QED BY <2>1, <2>2, <2>3
  <1>8. CASE UNCHANGED vars
    BY <1>8 DEF vars, numbers
  <1> QED BY <1>1, <1>2, <1>3, <1>4, <1>6, <1>7, <1>8 DEF Next

\* There are as many base delays as minutes measured in, up to BASE_HISTORY.
LEMMA BaseLenStep ==
    ASSUME TypeOK, BaseLen, [Next]_vars
    PROVE  BaseLen'
  <1>1. ASSUME NEW d \in Delays, Sampled(d), MinuteOver PROVE BaseLen'
    <2>1. PICK drop \in 0 .. 1 : drop = IF Len(baseDelays) = BASE_HISTORY THEN 1 ELSE 0
      OBVIOUS
    <2>2. Len(baseDelays') = Len(baseDelays) - drop + 1 /\ Len(periods') = Len(periods) + 1
      BY <1>1, <2>1, NewMinute
    <2>3. Len(periods) \in Nat /\ Len(baseDelays) \in Nat
      BY DEF TypeOK
    <2>4. Len(baseDelays) = IF Len(periods) > BASE_HISTORY THEN BASE_HISTORY ELSE Len(periods)
      BY DEF BaseLen, Smaller
    <2>5. Len(baseDelays') = IF Len(periods') > BASE_HISTORY THEN BASE_HISTORY ELSE Len(periods')
      <3> DEFINE b == Len(baseDelays)
                 q == Len(periods)
      <3>1. b \in Nat /\ q \in Nat /\ BASE_HISTORY \in Nat \ {0}
        BY <2>3, DelaysAssumption
      <3>2. b = IF q > BASE_HISTORY THEN BASE_HISTORY ELSE q
        BY <2>4
      <3>3. Len(periods') = q + 1 /\ Len(baseDelays') = b - drop + 1
        BY <2>2
      <3>4. drop = IF b = BASE_HISTORY THEN 1 ELSE 0
        BY <2>1
      <3> HIDE DEF b, q
      <3>5. b - drop + 1 = IF q + 1 > BASE_HISTORY THEN BASE_HISTORY ELSE q + 1
        BY <3>1, <3>2, <3>4
      <3> QED BY <3>3, <3>5
    <2> QED BY <2>5 DEF BaseLen, Smaller
  <1>2. ASSUME NEW d \in Delays, Sampled(d), ~MinuteOver PROVE BaseLen'
    BY <1>2, SameMinute DEF BaseLen
  <1>3. CASE UNCHANGED <<clock, measures>> \/ Passes
    BY <1>3 DEF measures, Passes, BaseLen
  <1> QED BY <1>1, <1>2, <1>3, Steps DEF Delays

\* Type correctness of every reachable state, and the number of base delays.
THEOREM TypeCorrect == Spec => [](TypeOK /\ BaseLen)
  <1>1. Init => TypeOK /\ BaseLen
    BY DelaysAssumption, Widths DEF Init, TypeOK, BaseLen, Smaller
  <1>2. TypeOK /\ BaseLen /\ [Next]_vars => TypeOK' /\ BaseLen'
    <2> SUFFICES ASSUME TypeOK, BaseLen, [Next]_vars PROVE TypeOK' /\ BaseLen'
      OBVIOUS
    <2>1. now' \in 0 .. U32 - 1 /\ epoch' \in Nat
      BY Steps, SMTT(30) DEF TypeOK, clock, Passes, Sampled
    <2>2. /\ lastRollover' \in 0 .. U32 - 1 /\ baseDelays' \in Seq(0 .. U32 - 1)
          /\ periods' \in Seq([begun : Moments, last : Moments, delays : SUBSET (0 .. U32 - 1)])
          /\ currentDelays' \in Seq([receivedAt : 0 .. U32 - 1, difference : 0 .. U32 - 1, epoch : Nat])
          /\ rtt' \in -M .. M - 1 /\ taken' \in Nat
      <3>1. CASE UNCHANGED measures
        BY <3>1 DEF TypeOK, measures
      <3>2. ASSUME NEW d \in Delays, Sampled(d)
            PROVE  /\ lastRollover' \in Delays /\ baseDelays' \in Seq(Delays)
                   /\ periods' \in Seq(Periods) /\ currentDelays' \in Seq(Samples)
                   /\ rtt' \in -M .. M - 1 /\ taken' \in Nat
        <4>1. lastRollover' \in Delays /\ baseDelays' \in Seq(Delays) /\ periods' \in Seq(Periods)
          <5>1. CASE MinuteOver
            BY <5>1, <3>2, NewMinute DEF TypeOK, Delays
          <5>2. CASE ~MinuteOver
            BY <5>2, <3>2, SameMinute DEF TypeOK, Delays
          <5> QED BY <5>1, <5>2
        <4>2. currentDelays' \in Seq(Samples)
          BY <3>2, Removed
        <4>3. rtt' \in -M .. M - 1 /\ taken' \in Nat
          BY <3>2, RttType DEF Sampled, TypeOK
        <4> QED BY <4>1, <4>2, <4>3
      <3> QED BY <3>1, <3>2, Steps DEF Passes, Delays, Periods, Samples
    <2>3. BaseLen'
      BY BaseLenStep
    <2> QED BY <2>1, <2>2, <2>3, RestType DEF TypeOK
  <1> QED BY <1>1, <1>2, PTL DEF Spec

-----------------------------------------------------------------------------
(* Base delays. *)

\* The base delays are the minima of the last periods (updateBaseDelay).
THEOREM BaseDelaysAreMinimaHolds == Spec => []BaseDelaysAreMinima
  <1>1. Init => BaseDelaysAreMinima
    BY DelaysAssumption DEF Init, BaseDelaysAreMinima, Smaller
  <1>2. TypeOK /\ BaseLen /\ BaseDelaysAreMinima /\ [Next]_vars => BaseDelaysAreMinima'
    <2> SUFFICES ASSUME TypeOK, BaseLen, BaseDelaysAreMinima, [Next]_vars PROVE BaseDelaysAreMinima'
      OBVIOUS
    <2> DEFINE b == Len(baseDelays)
               q == Len(periods)
               Is(i, j) == /\ baseDelays[i] \in periods[j].delays
                           /\ \A e \in periods[j].delays : baseDelays[i] <= e
    <2>1. b \in Nat /\ q \in Nat /\ b <= q
      BY DelaysAssumption DEF TypeOK, BaseLen, Smaller
    <2>2. \A i \in 1 .. b : Is(i, q - b + i)
      BY DEF BaseDelaysAreMinima
    <2>3. BaseLen'
      BY BaseLenStep
    <2>4. ASSUME NEW d \in Delays, Sampled(d), MinuteOver
          PROVE  \A i \in 1 .. Len(baseDelays') : Is(i, Len(periods) - Len(baseDelays) + i)'
      <3>1. PICK drop \in 0 .. 1 : drop = IF b = BASE_HISTORY THEN 1 ELSE 0
        OBVIOUS
      <3>2. /\ Len(baseDelays') = b - drop + 1 /\ Len(periods') = q + 1
            /\ \A i \in 1 .. b - drop : baseDelays'[i] = baseDelays[i + drop]
            /\ baseDelays'[Len(baseDelays')] = d
            /\ \A i \in 1 .. q : periods'[i] = periods[i]
            /\ periods'[q + 1].delays = {d}
        <4>1. /\ Len(baseDelays') = Len(baseDelays) - drop + 1 /\ Len(periods') = Len(periods) + 1
              /\ \A i \in 1 .. Len(baseDelays) - drop : baseDelays'[i] = baseDelays[i + drop]
              /\ baseDelays'[Len(baseDelays')] = d
              /\ \A i \in 1 .. Len(periods) : periods'[i] = periods[i]
              /\ periods'[Len(periods) + 1] = [begun |-> Moment, last |-> Moment, delays |-> {d}]
          BY <2>4, <3>1, NewMinute
        <4> QED BY <4>1
      <3>3. ASSUME NEW i \in 1 .. b - drop PROVE Is(i, Len(periods) - Len(baseDelays) + i)'
        <4>1. i + drop \in 1 .. b /\ i \in 1 .. b
          BY <2>1, <3>1
        <4>2. Len(periods') - Len(baseDelays') + i = q - b + (i + drop)
          <5> HIDE DEF b, q
          <5> QED BY <2>1, <3>1, <3>2
        <4>3. q - b + (i + drop) \in 1 .. q
          BY <2>1, <4>1, <3>1
        <4>4. Is(i + drop, q - b + (i + drop))
          BY <2>2, <4>1
        <4>5. baseDelays'[i] = baseDelays[i + drop] /\ periods'[q - b + (i + drop)] = periods[q - b + (i + drop)]
          BY <3>2, <4>3
        <4> QED BY <4>2, <4>4, <4>5
      <3>4. Is(Len(baseDelays), Len(periods))'
        BY <3>2 DEF Delays
      <3>5. Len(baseDelays') = b - drop + 1 /\ Len(periods') = Len(periods') - Len(baseDelays') + Len(baseDelays')
        BY <2>1, <3>1, <3>2
      <3> HIDE DEF Is
      <3>6. \A i \in 1 .. Len(baseDelays') : i \in 1 .. b - drop \/ i = Len(baseDelays')
        BY <2>1, <3>1, <3>5
      <3> QED BY <3>3, <3>4, <3>5, <3>6
    <2>5. ASSUME NEW d \in Delays, Sampled(d), ~MinuteOver
          PROVE  \A i \in 1 .. Len(baseDelays') : Is(i, Len(periods) - Len(baseDelays) + i)'
      <3>1. /\ Len(baseDelays') = b /\ Len(periods') = q
            /\ \A i \in 1 .. b : baseDelays'[i] = IF i = b THEN Lower(d, baseDelays[i]) ELSE baseDelays[i]
            /\ \A i \in 1 .. q : periods'[i].delays = IF i = q THEN periods[i].delays \cup {d}
                                                               ELSE periods[i].delays
        BY <2>5, SameMinute
      <3>2. ASSUME NEW i \in 1 .. b PROVE Is(i, Len(periods) - Len(baseDelays) + i)'
        <4>1. q - b + i \in 1 .. q /\ (q - b + i = q <=> i = b)
          BY <2>1
        <4>2. Is(i, q - b + i)
          BY <2>2
        <4>3. baseDelays[i] \in Delays /\ periods[q - b + i].delays \subseteq Delays
          <5>1. baseDelays \in Seq(Delays) /\ periods \in Seq(Periods)
            BY DEF TypeOK, Delays, Periods
          <5>2. periods[q - b + i] \in Periods
            BY <5>1, <4>1
          <5> QED BY <5>1, <5>2 DEF Periods
        <4>4. CASE i = b
          <5>1. baseDelays'[i] = Lower(d, baseDelays[i]) /\ periods'[q].delays = periods[q].delays \cup {d}
            BY <3>1, <4>1, <4>4
          <5>2. baseDelays[i] \in periods[q].delays /\ \A e \in periods[q].delays : baseDelays[i] <= e
            BY <4>1, <4>2, <4>4
          <5>3. Lower(d, baseDelays[i]) \in periods[q].delays \cup {d}
            BY <5>2 DEF Lower
          <5>4. \A e \in periods[q].delays \cup {d} : Lower(d, baseDelays[i]) <= e
            BY <5>2, <4>1, <4>3, <4>4 DEF Lower, Delays
          <5>5. Len(periods') - Len(baseDelays') + i = q
            BY <2>1, <3>1, <4>4
          <5> QED BY <5>1, <5>3, <5>4, <5>5
        <4>5. CASE i # b
          BY <3>1, <4>1, <4>2, <4>5
        <4> QED BY <4>4, <4>5
      <3> QED BY <3>1, <3>2
    <2>6. CASE UNCHANGED <<clock, measures>> \/ Passes
      BY <2>6 DEF BaseDelaysAreMinima, measures, Passes
    <2>7. ASSUME NEW d \in Delays, Sampled(d) PROVE BaseDelaysAreMinima'
      BY <2>3, <2>4, <2>5, <2>7 DEF BaseDelaysAreMinima, BaseLen
    <2> QED BY <2>6, <2>7, Steps DEF Delays
  <1> QED BY <1>1, <1>2, TypeCorrect, PTL DEF Spec

\* Moments of which the later is in no earlier epoch.
LEMMA TimeApart ==
    ASSUME NEW s \in Moments, NEW t \in Moments, s.epoch <= t.epoch
    PROVE  /\ Time(t) - Time(s) >= t.now - s.now
           /\ s.epoch = t.epoch => Time(t) - Time(s) = t.now - s.now
  <1>1. s.epoch \in Nat /\ t.epoch \in Nat /\ s.now \in Nat /\ t.now \in Nat
    BY Widths DEF Moments
  <1> DEFINE r == t.epoch - s.epoch
  <1>2. r \in Nat /\ t.epoch = s.epoch + r
    BY <1>1
  <1> HIDE DEF r
  <1>3. t.epoch * U32 = s.epoch * U32 + r * U32 /\ r * U32 \in Nat /\ s.epoch * U32 \in Nat
    BY <1>1, <1>2, Widths
  <1> QED BY <1>1, <1>3 DEF Time

\* PeriodsOfAMinute is inductive with what is known of the last period: it was
\* begun at lastRollover, and no period is of a later epoch.
PeriodsInv ==
    /\ PeriodsOfAMinute
    /\ \A i \in 1 .. Len(periods) : periods[i].begun.epoch <= epoch
    /\ Len(periods) > 0 => lastRollover = periods[Len(periods)].begun.now

\* Base delays are begun a minute apart and take nothing older, but for the clock's
\* four bytes (updateBaseDelay).
THEOREM PeriodsOfAMinuteHolds == Spec => []PeriodsOfAMinute
  <1>1. Init => PeriodsInv
    BY DEF Init, PeriodsInv, PeriodsOfAMinute
  <1>2. TypeOK /\ BaseLen /\ PeriodsInv /\ [Next]_vars => PeriodsInv'
    <2> SUFFICES ASSUME TypeOK, BaseLen, PeriodsInv, [Next]_vars PROVE PeriodsInv'
      OBVIOUS
    <2> DEFINE q == Len(periods)
    <2>1. q \in Nat /\ now \in Nat /\ epoch \in Nat /\ Moment \in Moments /\ AGE \in Nat
      BY Widths, DelaysAssumption DEF TypeOK, Moment, Moments
    <2>2. \A i \in 1 .. q : periods[i].begun \in Moments /\ periods[i].last \in Moments
      <3>1. periods \in Seq(Periods)
        BY DEF TypeOK, Periods, Delays
      <3>2. \A i \in 1 .. q : periods[i] \in Periods
        BY <3>1
      <3> QED BY <3>2 DEF Periods
    <2>3. ASSUME NEW d \in Delays, Sampled(d), MinuteOver PROVE PeriodsInv'
      <3>1. PICK drop \in 0 .. 1 : drop = IF Len(baseDelays) = BASE_HISTORY THEN 1 ELSE 0
        OBVIOUS
      <3>2. /\ lastRollover' = now /\ Len(periods') = q + 1
            /\ \A i \in 1 .. q : periods'[i] = periods[i]
            /\ periods'[q + 1].begun = Moment /\ periods'[q + 1].last = Moment
        <4>1. /\ lastRollover' = now /\ Len(periods') = Len(periods) + 1
              /\ \A i \in 1 .. Len(periods) : periods'[i] = periods[i]
              /\ periods'[Len(periods) + 1] = [begun |-> Moment, last |-> Moment, delays |-> {d}]
          BY <2>3, <3>1, NewMinute
        <4> QED BY <4>1
      <3>3. Moment.now = now /\ Moment.epoch = epoch /\ epoch' = epoch
        BY <2>3 DEF Moment, Sampled, clock
      <3>4. Time(Moment) - Time(Moment) <= AGE
        BY <2>1, TimeApart, <3>3
      <3>5. q >= 1 => Time(Moment) - Time(periods[q].begun) > AGE
        <4>1. ASSUME q >= 1 PROVE now - periods[q].begun.now > AGE
          <5>1. baseDelays # <<>>
            BY <4>1, <2>1, DelaysAssumption DEF BaseLen, Smaller
          <5> QED BY <5>1, <4>1, <2>3 DEF MinuteOver, PeriodsInv
        <4>2. ASSUME q >= 1 PROVE periods[q].begun \in Moments /\ periods[q].begun.epoch <= epoch
          BY <4>2, <2>1, <2>2 DEF PeriodsInv
        <4>3. ASSUME q >= 1 PROVE Time(Moment) - Time(periods[q].begun) >= now - periods[q].begun.now
          BY <4>2, <4>3, <3>3, <2>1, TimeApart
        <4>4. ASSUME q >= 1 PROVE /\ Time(Moment) \in Int /\ Time(periods[q].begun) \in Int
                                  /\ periods[q].begun.now \in Int
          BY <4>2, <4>4, <2>1, Widths, SMTT(30) DEF Time, Moments
        <4> QED BY <4>1, <4>3, <4>4, <2>1
      <3>6. PeriodsOfAMinute'
        <4> SUFFICES ASSUME NEW i \in 1 .. Len(periods')
                     PROVE  /\ periods'[i].last.epoch = periods'[i].begun.epoch =>
                                 Time(periods'[i].last) - Time(periods'[i].begun) <= AGE
                            /\ i > 1 => Time(periods'[i].begun) - Time(periods'[i - 1].begun) > AGE
          BY DEF PeriodsOfAMinute, Time
        <4>1. CASE i \in 1 .. q
          <5>1. i > 1 => i - 1 \in 1 .. q
            BY <4>1, <2>1
          <5> QED BY <4>1, <5>1, <3>2 DEF PeriodsInv, PeriodsOfAMinute
        <4>2. CASE i = q + 1
          <5>1. i > 1 => i - 1 = q /\ q \in 1 .. q
            BY <4>2, <2>1
          <5> QED BY <4>2, <5>1, <3>2, <3>4, <3>5
        <4> QED BY <4>1, <4>2, <3>2, <2>1
      <3>7. \A i \in 1 .. Len(periods') : periods'[i].begun.epoch <= epoch'
        BY <3>2, <3>3, <2>1 DEF PeriodsInv
      <3>8. lastRollover' = periods'[Len(periods')].begun.now
        BY <3>2, <3>3
      <3> QED BY <3>6, <3>7, <3>8 DEF PeriodsInv
    <2>4. ASSUME NEW d \in Delays, Sampled(d), ~MinuteOver PROVE PeriodsInv'
      <3>1. /\ lastRollover' = lastRollover /\ now - lastRollover <= AGE /\ q >= 1
            /\ Len(periods') = q
            /\ \A i \in 1 .. q : /\ periods'[i].begun = periods[i].begun
                                 /\ periods'[i].last = IF i = q THEN Moment ELSE periods[i].last
        BY <2>4, SameMinute
      <3>2. Moment.now = now /\ Moment.epoch = epoch /\ epoch' = epoch
        BY <2>4 DEF Moment, Sampled, clock
      <3>3. epoch = periods[q].begun.epoch => Time(Moment) - Time(periods[q].begun) <= AGE
        <4>1. periods[q].begun \in Moments /\ lastRollover = periods[q].begun.now
          BY <3>1, <2>1, <2>2 DEF PeriodsInv
        <4> QED BY <4>1, <3>1, <3>2, <2>1, TimeApart
      <3>4. PeriodsOfAMinute'
        <4> SUFFICES ASSUME NEW i \in 1 .. Len(periods')
                     PROVE  /\ periods'[i].last.epoch = periods'[i].begun.epoch =>
                                 Time(periods'[i].last) - Time(periods'[i].begun) <= AGE
                            /\ i > 1 => Time(periods'[i].begun) - Time(periods'[i - 1].begun) > AGE
          BY DEF PeriodsOfAMinute, Time
        <4>1. i \in 1 .. q /\ (i > 1 => i - 1 \in 1 .. q)
          BY <3>1, <2>1
        <4> QED BY <4>1, <3>1, <3>2, <3>3 DEF PeriodsInv, PeriodsOfAMinute
      <3> QED BY <3>1, <3>2, <3>4, <2>1 DEF PeriodsInv
    <2>5. CASE UNCHANGED <<clock, measures>> \/ Passes
      <3>1. UNCHANGED <<periods, lastRollover>> /\ epoch' \in Nat /\ epoch' >= epoch
        BY <2>5, <2>1 DEF measures, clock, Passes
      <3>2. PeriodsOfAMinute'
        BY <3>1 DEF PeriodsInv, PeriodsOfAMinute, Time
      <3>3. \A i \in 1 .. q : periods[i].begun.epoch <= epoch'
        BY <3>1, <2>1, <2>2 DEF PeriodsInv, Moments
      <3> QED BY <3>1, <3>2, <3>3 DEF PeriodsInv
    <2> QED BY <2>3, <2>4, <2>5, Steps DEF Delays
  <1>3. PeriodsInv => PeriodsOfAMinute
    BY DEF PeriodsInv
  <1> QED BY <1>1, <1>2, <1>3, TypeCorrect, PTL DEF Spec

-----------------------------------------------------------------------------
(* Current delays. *)

\* Samples are taken in the order of the clock, as far as it goes without starting
\* again.
SamplesInv ==
    /\ \A i \in 1 .. Len(currentDelays) :
         /\ currentDelays[i].epoch <= epoch
         /\ currentDelays[i].epoch = epoch => currentDelays[i].receivedAt <= now
    /\ \A i, j \in 1 .. Len(currentDelays) :
         i < j /\ currentDelays[i].epoch = currentDelays[j].epoch =>
           currentDelays[i].receivedAt <= currentDelays[j].receivedAt

\* A sample appended, and samples removed at the front, leave the order as it is.
LEMMA SamplesStep ==
    ASSUME TypeOK, SamplesInv, [Next]_vars
    PROVE  SamplesInv'
  <1> DEFINE n == Len(currentDelays)
  <1>1. n \in Nat /\ now \in Nat /\ epoch \in Nat
    BY Widths DEF TypeOK
  <1>2. \A i \in 1 .. n : currentDelays[i].epoch \in Nat /\ currentDelays[i].receivedAt \in Nat
    <2>1. currentDelays \in Seq(Samples)
      BY DEF TypeOK, Samples, Delays
    <2>2. \A i \in 1 .. n : currentDelays[i] \in Samples
      BY <2>1
    <2> QED BY <2>2, Widths DEF Samples, Delays
  <1>3. ASSUME NEW d \in Delays, Sampled(d) PROVE SamplesInv'
    <2>1. PICK k \in 0 .. n :
            /\ Len(currentDelays') = n - k + 1
            /\ \A i \in 1 .. n - k : currentDelays'[i] = currentDelays[i + k]
            /\ currentDelays'[n - k + 1] = Sample(d)
      BY <1>3, Removed
    <2>2. Sample(d).epoch = epoch /\ Sample(d).receivedAt = now /\ now' = now /\ epoch' = epoch
      BY <1>3 DEF Sample, Sampled, clock
    <2> HIDE DEF n
    <2>3. ASSUME NEW i \in 1 .. Len(currentDelays'), i # n - k + 1
          PROVE  i \in 1 .. n - k /\ i + k \in 1 .. n /\ currentDelays'[i] = currentDelays[i + k]
      BY <2>1, <2>3, <1>1
    <2>4. ASSUME NEW i \in 1 .. Len(currentDelays')
          PROVE  /\ currentDelays'[i].epoch <= epoch'
                 /\ currentDelays'[i].epoch = epoch' => currentDelays'[i].receivedAt <= now'
      <3>1. CASE i = n - k + 1
        BY <3>1, <2>1, <2>2, <1>1
      <3>2. CASE i # n - k + 1
        BY <3>2, <2>2, <2>3 DEF SamplesInv, n
      <3> QED BY <3>1, <3>2
    <2>5. ASSUME NEW i \in 1 .. Len(currentDelays'), NEW j \in 1 .. Len(currentDelays'), i < j,
                 currentDelays'[i].epoch = currentDelays'[j].epoch
          PROVE  currentDelays'[i].receivedAt <= currentDelays'[j].receivedAt
      <3>1. i # n - k + 1
        BY <2>1, <2>5, <1>1
      <3>2. currentDelays'[i] = currentDelays[i + k] /\ i + k \in 1 .. n
        BY <3>1, <2>3
      <3>3. CASE j = n - k + 1
        BY <3>2, <3>3, <2>1, <2>2, <2>5 DEF SamplesInv, n
      <3>4. CASE j # n - k + 1
        <4>1. currentDelays'[j] = currentDelays[j + k] /\ j + k \in 1 .. n /\ i + k < j + k
          BY <3>4, <2>3, <2>5, <1>1
        <4> QED BY <4>1, <3>2, <2>5 DEF SamplesInv, n
      <3> QED BY <3>3, <3>4
    <2> QED BY <2>4, <2>5 DEF SamplesInv
  <1>4. CASE UNCHANGED <<clock, measures>> \/ Passes
    <2>1. /\ currentDelays' = currentDelays
          /\ \/ epoch' = epoch /\ now' >= now /\ now' \in Int
             \/ epoch' = epoch + 1
      BY <1>4, <1>1, Widths DEF measures, clock, Passes
    <2>2. ASSUME NEW i \in 1 .. n
          PROVE  /\ currentDelays[i].epoch <= epoch'
                 /\ currentDelays[i].epoch = epoch' => currentDelays[i].receivedAt <= now'
      BY <1>1, <1>2, <2>1 DEF SamplesInv
    <2> QED BY <2>1, <2>2 DEF SamplesInv
  <1> QED BY <1>3, <1>4, Steps DEF Delays

\* updateCurrDelay removes what is older than one rtt and nothing else.
THEOREM SamplesOfOneRttHolds == Spec => SamplesOfOneRtt
  <1>1. Init => SamplesInv
    BY DEF Init, SamplesInv
  <1> DEFINE Right ==
               currentDelays' # currentDelays =>
                 LET removed == Len(currentDelays) - (Len(currentDelays') - 1)
                 IN  /\ removed >= 0
                     /\ \A i \in 1 .. Len(currentDelays) :
                          (\A j \in 1 .. i : currentDelays[j].epoch = epoch) =>
                            (i <= removed <=> Old(currentDelays[i]))
  <1>2. TypeOK /\ SamplesInv /\ [Next]_vars => [Right]_vars
    <2> SUFFICES ASSUME TypeOK, SamplesInv, [Next]_vars, currentDelays' # currentDelays PROVE Right
      BY DEF vars
    <2> DEFINE n == Len(currentDelays)
    <2>1. PICK d \in Delays : Sampled(d)
      BY Steps DEF Passes, measures, Delays
    <2>2. PICK k \in 0 .. n :
            /\ \A j \in 1 .. k : Old(currentDelays[j])
            /\ k < n => ~Old(currentDelays[k + 1])
            /\ Len(currentDelays') = n - k + 1
      BY <2>1, Removed
    <2>3. n \in Nat /\ n - (Len(currentDelays') - 1) = k
      <3>1. n \in Nat
        BY DEF TypeOK
      <3> HIDE DEF n
      <3> QED BY <2>2, <3>1
    <2>4. ASSUME NEW i \in 1 .. n, \A j \in 1 .. i : currentDelays[j].epoch = epoch,
                 Old(currentDelays[i]), i > k
          PROVE  FALSE
      <3>1. k + 1 \in 1 .. i /\ k + 1 \in 1 .. n /\ i \in 1 .. i
        BY <2>3, <2>4
      <3>2. currentDelays[k + 1].receivedAt <= currentDelays[i].receivedAt
        <4>1. CASE k + 1 = i
          <5>1. currentDelays \in Seq(Samples)
            BY DEF TypeOK, Samples, Delays
          <5>2. currentDelays[i] \in Samples
            BY <5>1
          <5> QED BY <4>1, <5>2, Widths DEF Samples, Delays
        <4>2. CASE k + 1 < i
          BY <4>2, <3>1, <2>4 DEF SamplesInv
        <4> QED BY <3>1, <4>1, <4>2
      <3>3. ~Old(currentDelays[k + 1])
        BY <3>1, <2>2, <2>3
      <3> DEFINE limit == rtt * RTT_UNIT
                 early == currentDelays[k + 1].receivedAt
                 late == currentDelays[i].receivedAt
      <3>4. limit \in Int /\ early \in Int /\ late \in Int /\ now \in Int
        <4>1. currentDelays \in Seq(Samples)
          BY DEF TypeOK, Samples, Delays
        <4>2. currentDelays[k + 1] \in Samples /\ currentDelays[i] \in Samples
          BY <3>1, <4>1
        <4>3. early \in Int /\ late \in Int
          BY <4>2, Widths DEF Samples, Delays
        <4>4. limit \in Int /\ now \in Int
          BY DelaysAssumption, Widths DEF TypeOK
        <4> QED BY <4>3, <4>4
      <3>5. now - late > limit /\ ~(now - early > limit) /\ early <= late
        BY <2>4, <3>2, <3>3 DEF Old
      <3> HIDE DEF limit, early, late
      <3> QED BY <3>4, <3>5
    <2>5. ASSUME NEW i \in 1 .. n, \A j \in 1 .. i : currentDelays[j].epoch = epoch
          PROVE  i <= k <=> Old(currentDelays[i])
      <3>1. ASSUME i <= k PROVE Old(currentDelays[i])
        BY <3>1, <2>2
      <3>2. ASSUME Old(currentDelays[i]) PROVE i <= k
        BY <3>2, <2>4, <2>5
      <3> QED BY <3>1, <3>2
    <2> QED BY <2>2, <2>3, <2>5
  <1>3. TypeOK /\ SamplesInv /\ [Next]_vars => SamplesInv'
    BY SamplesStep
  <1> QED BY <1>1, <1>2, <1>3, TypeCorrect, PTL DEF Spec, SamplesOfOneRtt

-----------------------------------------------------------------------------
(* The order of the window. *)

\* The two digits of a number of two.
LEMMA Digits ==
    ASSUME NEW d \in Nat \ {0}, NEW a \in Nat, NEW c \in 0 .. d - 1
    PROVE  (a * d + c) \div d = a /\ (a * d + c) % d = c
  <1> DEFINE n == a * d + c
             q == n \div d
             r == n % d
  <1>1. a * d \in Nat /\ a * d = d * a
    OBVIOUS
  <1>2. n \in Nat
    BY <1>1
  <1>3. q \in Nat /\ r \in 0 .. d - 1 /\ n = d * q + r
    BY <1>2, DivMod
  <1>4. d * a + c = d * q + r
    BY <1>1, <1>3
  <1> HIDE DEF n, q, r
  <1>5. q = a
    <2>1. ASSUME q < a PROVE FALSE
      <3>1. PICK e \in Nat : a = q + 1 + e
        BY <1>3, <2>1
      <3>2. d * a = d * q + d + d * e /\ d * e \in Nat /\ d * q \in Nat
        BY <1>3, <3>1
      <3> QED BY <1>3, <1>4, <3>2
    <2>2. ASSUME a < q PROVE FALSE
      <3>1. PICK e \in Nat : q = a + 1 + e
        BY <1>3, <2>2
      <3>2. d * q = d * a + d + d * e /\ d * e \in Nat /\ d * a \in Nat
        BY <1>3, <3>1
      <3> QED BY <1>3, <1>4, <3>2
    <2> QED BY <1>3, <2>1, <2>2
  <1>6. r = c
    <2>1. d * a \in Nat
      OBVIOUS
    <2> QED BY <1>3, <1>4, <1>5, <2>1
  <1> QED BY <1>5, <1>6 DEF n, q, r

\* A number whose bytes are turned round twice is the number.
LEMMA Inv16Twice ==
    ASSUME NEW n \in 0 .. U16 - 1
    PROVE  invEndUint16(invEndUint16(n)) = n
  <1> DEFINE q == n \div D
             r == n % D
             m == r * D + q
  <1>1. n \in Nat /\ n \in 0 .. D * D - 1 /\ D \in Nat \ {0}
    BY Widths
  <1>2. r \in 0 .. D - 1 /\ n = D * q + r
    BY <1>1, DivMod
  <1>3. q \in 0 .. D - 1
    BY <1>1, DivBelow
  <1>4. invEndUint16(n) = m /\ invEndUint16(m) = (m % D) * D + (m \div D)
    BY DEF invEndUint16
  <1> HIDE DEF q, r
  <1>5. m \div D = r /\ m % D = q
    BY <1>1, <1>2, <1>3, Digits
  <1>6. q * D = D * q
    BY <1>1, <1>3
  <1> HIDE DEF m
  <1> QED BY <1>2, <1>4, <1>5, <1>6

\* Stamping and addressing a packet leave it its number.
LEMMA SameNumber ==
    ASSUME NEW p \in Packets, NEW t
    PROVE  /\ getSeqNr(setTimestamp(p, t)) = getSeqNr(p)
           /\ getSeqNr(setConnID(p, t)) = getSeqNr(p)
           /\ getSeqNr(Stamped(p)) = getSeqNr(p)
  <1>1. /\ setTimestamp(p, t).seqNr = p.seqNr
        /\ setConnID(p, t).seqNr = p.seqNr
        /\ Stamped(p).seqNr = p.seqNr
    BY DEF Packets, setTimestamp, setConnID, setTimespanDiff, Stamped
  <1> QED BY <1>1 DEF getSeqNr

\* A new packet has the next number.
LEMMA NumberGiven ==
    ASSUME TypeOK
    PROVE  LET p == setConnID(setSeqNr(NewPacket, seqNr), senderConnID)
           IN  p \in Packets /\ getSeqNr(p) = seqNr
  <1> DEFINE q == setSeqNr(NewPacket, seqNr)
             p == setConnID(q, senderConnID)
  <1>1. seqNr \in 0 .. U16 - 1 /\ senderConnID \in 0 .. U16 - 1 /\ 0 \in 0 .. U32 - 1
    BY DelaysAssumption, Widths DEF TypeOK
  <1>2. NewPacket \in Packets
    BY PacketsMade
  <1>3. q \in Packets
    BY <1>1, <1>2, SettersType
  <1>4. p \in Packets
    BY <1>1, <1>3, SettersType
  <1>5. q.seqNr = invEndUint16(seqNr)
    BY <1>2 DEF setSeqNr, Packets
  <1>6. getSeqNr(q) = seqNr
    BY <1>1, <1>5, Inv16Twice DEF getSeqNr
  <1>7. getSeqNr(p) = getSeqNr(q)
    BY <1>3, SameNumber
  <1> QED BY <1>4, <1>6, <1>7

\* How far the next number is ahead of that of a packet.
Ahead(p) == Minus16(seqNr, getSeqNr(p))

\* The window after some packets have been forgotten: the others keep their numbers
\* and their order.
Forgets(w, u) ==
    \E k \in 0 .. Len(w) :
        /\ Len(u) = Len(w) - k
        /\ \A i \in 1 .. Len(u) : getSeqNr(u[i]) = getSeqNr(w[i + k])

\* advanceSendWindow forgets packets and does nothing else.
LEMMA AdvancedForgets ==
    ASSUME NEW w \in Seq(Packets), NEW nr
    PROVE  Forgets(w, Advanced(w, nr))
  <1> DEFINE found == {i \in 1 .. Len(w) : getSeqNr(w[i]) = nr}
             n == Len(w)
  <1>0. n \in Nat
    OBVIOUS
  <1>1. CASE found = {}
    <2>1. Advanced(w, nr) = w
      BY <1>1 DEF Advanced
    <2>2. 0 \in 0 .. n /\ n = n - 0 /\ \A i \in 1 .. n : w[i] = w[i + 0]
      BY <1>0
    <2> QED BY <2>1, <2>2 DEF Forgets
  <1>2. CASE found # {}
    <2> DEFINE k == CHOOSE i \in found : TRUE
               u == SubSeq(w, k + 1, n)
    <2>1. k \in 1 .. n
      BY <1>2
    <2>2. Advanced(w, nr) = u
      BY <1>2 DEF Advanced
    <2> HIDE DEF k
    <2>3. k \in 0 .. n /\ k + 1 \in Int /\ n \in Int
      BY <1>0, <2>1
    <2>4. \A i \in k + 1 .. n : w[i] \in Packets
      BY <1>0, <2>1, ElementOfSeq
    <2>5. /\ Len(u) = (IF k + 1 <= n THEN n - (k + 1) + 1 ELSE 0)
          /\ \A i \in 1 .. n - (k + 1) + 1 : u[i] = w[(k + 1) + i - 1]
      BY <2>3, <2>4, SubSeqProperties
    <2> HIDE DEF u, n
    <2>6. Len(u) = n - k
      BY <1>0, <2>1, <2>5
    <2>7. \A i \in 1 .. n - k : i \in 1 .. n - (k + 1) + 1 /\ (k + 1) + i - 1 = i + k
      BY <1>0, <2>1
    <2>8. \A i \in 1 .. Len(u) : getSeqNr(u[i]) = getSeqNr(w[i + k])
      BY <2>5, <2>6, <2>7
    <2> QED BY <2>2, <2>3, <2>6, <2>8 DEF Forgets, n
  <1> QED BY <1>1, <1>2

\* Packets whose numbers are the same are forgotten in the same way.
LEMMA ForgetsSame ==
    ASSUME NEW w \in Seq(Packets), NEW v \in Seq(Packets), NEW u,
           Len(v) = Len(w), \A i \in 1 .. Len(w) : getSeqNr(v[i]) = getSeqNr(w[i]),
           Forgets(v, u)
    PROVE  Forgets(w, u)
  <1> DEFINE n == Len(w)
  <1>1. n \in Nat
    OBVIOUS
  <1>2. PICK k \in 0 .. Len(v) : /\ Len(u) = Len(v) - k
                                 /\ \A i \in 1 .. Len(u) : getSeqNr(u[i]) = getSeqNr(v[i + k])
    BY DEF Forgets
  <1> HIDE DEF n
  <1>3. k \in 0 .. n /\ Len(u) = n - k
    BY <1>2 DEF n
  <1>4. \A i \in 1 .. n - k : i + k \in 1 .. n
    BY <1>1, <1>3
  <1>5. \A i \in 1 .. Len(u) : getSeqNr(u[i]) = getSeqNr(w[i + k])
    BY <1>2, <1>3, <1>4 DEF n
  <1> QED BY <1>3, <1>5 DEF Forgets, n

\* A packet of the window is stamped.
LEMMA StampForgets ==
    ASSUME NEW w \in Seq(Packets), NEW i \in 1 .. Len(w), NEW p \in Packets, getSeqNr(p) = getSeqNr(w[i])
    PROVE  /\ [w EXCEPT ![i] = p] \in Seq(Packets)
           /\ Forgets(w, [w EXCEPT ![i] = p])
           /\ \A u : Forgets([w EXCEPT ![i] = p], u) => Forgets(w, u)
  <1> DEFINE v == [w EXCEPT ![i] = p]
  <1>1. /\ v \in Seq(Packets) /\ Len(v) = Len(w)
        /\ \A j \in 1 .. Len(w) : v[j] = IF j = i THEN p ELSE w[j]
    BY ExceptSeq
  <1> HIDE DEF v
  <1>2. \A j \in 1 .. Len(w) : getSeqNr(v[j]) = getSeqNr(w[j])
    BY <1>1
  <1>3. Forgets(v, v)
    <2> DEFINE n == Len(v)
    <2>1. n \in Nat
      BY <1>1
    <2>2. 0 \in 0 .. n /\ n = n - 0 /\ \A j \in 1 .. n : v[j] = v[j + 0]
      BY <2>1
    <2> QED BY <2>2 DEF Forgets
  <1>4. \A u : Forgets(v, u) => Forgets(w, u)
    BY <1>1, <1>2, ForgetsSame
  <1> QED BY <1>1, <1>3, <1>4 DEF v

\* Subtraction of numbers of two bytes, as long as it does not go round.
LEMMA OneAhead ==
    ASSUME NEW a \in 0 .. U16 - 1, NEW c \in 0 .. U16 - 1
    PROVE  /\ Minus16(a, c) \in 0 .. U16 - 1
           /\ Minus16(a, c) < U16 - 1 => Minus16((a + 1) % U16, c) = Minus16(a, c) + 1
           /\ 1 < U16 => Minus16((a + 1) % U16, a) = 1
  <1> DEFINE U == U16
             n == (a + 1) % U
  <1>1. U \in Nat \ {0} /\ a \in 0 .. U - 1 /\ c \in 0 .. U - 1
    BY Widths
  <1>2. /\ Minus16(a, c) = (a - c + U) % U
        /\ Minus16(n, c) = (n - c + U) % U /\ Minus16(n, a) = (n - a + U) % U
    BY DEF Minus16
  <1> HIDE DEF U
  <1>3. \A x \in 0 .. U - 1 : x % U = x /\ (x + U) % U = x
    <2> TAKE x \in 0 .. U - 1
    <2>1. x * 1 = x /\ (0 * U + x) % U = x /\ (1 * U + x) % U = x
      BY <1>1, Digits
    <2>2. 0 * U + x = x /\ 1 * U + x = x + U
      BY <1>1
    <2> QED BY <2>1, <2>2
  <1>4. n = IF a + 1 = U THEN 0 ELSE a + 1
    <2>1. CASE a + 1 = U
      <3>1. 0 \in 0 .. U - 1 /\ a + 1 = 0 + U
        BY <1>1, <2>1
      <3>2. (0 + U) % U = 0
        BY <1>3, <3>1
      <3> QED BY <2>1, <3>1, <3>2
    <2>2. CASE a + 1 # U
      <3>1. a + 1 \in 0 .. U - 1
        BY <1>1, <2>2
      <3> QED BY <1>3, <2>2, <3>1
    <2> QED BY <2>1, <2>2
  <1> HIDE DEF n
  <1>5. \A x, y \in 0 .. U - 1 : (x - y + U) % U = IF x >= y THEN x - y ELSE x - y + U
    <2> TAKE x, y \in 0 .. U - 1
    <2>1. CASE x >= y
      <3>1. x - y \in 0 .. U - 1
        BY <1>1, <2>1
      <3> QED BY <1>3, <2>1, <3>1
    <2>2. CASE ~(x >= y)
      <3>1. x - y + U \in 0 .. U - 1
        BY <1>1, <2>2
      <3> QED BY <1>3, <2>2, <3>1
    <2> QED BY <2>1, <2>2
  <1>6. n \in 0 .. U - 1
    BY <1>1, <1>4
  <1>7. /\ Minus16(a, c) = IF a >= c THEN a - c ELSE a - c + U
        /\ Minus16(n, c) = IF n >= c THEN n - c ELSE n - c + U
        /\ Minus16(n, a) = IF n >= a THEN n - a ELSE n - a + U
    BY <1>1, <1>2, <1>5, <1>6
  <1>8. /\ Minus16(a, c) \in 0 .. U - 1
        /\ Minus16(a, c) < U - 1 => Minus16(n, c) = Minus16(a, c) + 1
        /\ 1 < U => Minus16(n, a) = 1
    BY <1>1, <1>4, <1>7
  <1> QED BY <1>8 DEF U, n

\* The numbers of the window go up to seqNr, which none of them has yet: but for the
\* one number there is when a byte has only one value.
OrderInv ==
    /\ NumbersInOrder
    /\ \A i \in 1 .. Len(sendWdw) : 1 < U16 => Ahead(sendWdw[i]) >= 1

\* What forgets packets keeps them in order.
LEMMA ForgetsOrder ==
    ASSUME TypeOK, OrderInv, Forgets(sendWdw, sendWdw'), seqNr' = seqNr
    PROVE  OrderInv'
  <1> DEFINE n == Len(sendWdw)
             l == Len(sendWdw')
             dist(i) == Minus16(seqNr, getSeqNr(sendWdw[i]))
             left(i) == Minus16(seqNr, getSeqNr(sendWdw'[i]))
  <1>1. n \in Nat
    BY DEF TypeOK
  <1>2. PICK k \in 0 .. n : l = n - k /\ \A i \in 1 .. l : getSeqNr(sendWdw'[i]) = getSeqNr(sendWdw[i + k])
    BY DEF Forgets
  <1>3. /\ \A i, j \in 1 .. n : i < j => dist(i) > dist(j)
        /\ \A i \in 1 .. n : 1 < U16 => dist(i) >= 1
    BY DEF OrderInv, NumbersInOrder, Ahead
  <1>4. \A i \in 1 .. l : left(i) = dist(i + k)
    BY <1>2
  <1>5. /\ (\A i, j \in 1 .. l : i < j => left(i) > left(j)) /\ (\A i \in 1 .. l : 1 < U16 => left(i) >= 1)
           => OrderInv'
    BY DEF OrderInv, NumbersInOrder, Ahead
  <1> HIDE DEF n, l, dist, left
  <1>6. \A i \in 1 .. l : i + k \in 1 .. n
    BY <1>1, <1>2
  <1>7. \A i, j \in 1 .. l : i < j => i + k < j + k
    BY <1>1, <1>2
  <1>8. \A i, j \in 1 .. l : i < j => left(i) > left(j)
    BY <1>3, <1>4, <1>6, <1>7
  <1>9. \A i \in 1 .. l : 1 < U16 => left(i) >= 1
    BY <1>3, <1>4, <1>6
  <1> QED BY <1>5, <1>8, <1>9

\* A packet is written, and has the highest number.
LEMMA SendOrder ==
    ASSUME TypeOK, OrderInv, NEW ok \in BOOLEAN, Send(ok)
    PROVE  OrderInv'
  <1> DEFINE p == setConnID(setSeqNr(NewPacket, seqNr), senderConnID)
             q == Stamped(p)
             n == Len(sendWdw)
             l == Len(sendWdw')
             dist(i) == Minus16(seqNr, getSeqNr(sendWdw[i]))
             left(i) == Minus16(seqNr', getSeqNr(sendWdw'[i]))
  <1>1. n \in Nat /\ sendWdw \in Seq(Packets) /\ seqNr \in 0 .. U16 - 1
    BY DEF TypeOK
  <1>2. /\ \A i \in 1 .. n : dist(i) < MaxWindow
        /\ sendWdw' = IF ok THEN Append(sendWdw, q) ELSE sendWdw
        /\ seqNr' = (seqNr + 1) % U16
    BY <1>1 DEF Send
  <1>3. p \in Packets /\ getSeqNr(p) = seqNr
    BY NumberGiven
  <1> HIDE DEF p
  <1>4. q \in Packets /\ getSeqNr(q) = seqNr
    BY <1>3, StampedType, SameNumber
  <1> HIDE DEF q
  <1>5. /\ l \in {n, n + 1}
        /\ \A i \in 1 .. n : sendWdw'[i] = sendWdw[i]
        /\ l = n + 1 => sendWdw'[n + 1] = q
    BY <1>1, <1>2, <1>4, AppendProperties
  <1>6. U16 \in Nat \ {0} /\ MaxWindow \in 0 .. U16 - 1
    BY Widths, DelaysAssumption
  <1>7. /\ \A i, j \in 1 .. n : i < j => dist(i) > dist(j)
        /\ \A i \in 1 .. n : 1 < U16 => dist(i) >= 1
    BY DEF OrderInv, NumbersInOrder, Ahead
  <1>8. ASSUME NEW i \in 1 .. n
        PROVE  dist(i) \in Nat /\ left(i) = dist(i) + 1 /\ 1 < U16
    <2> DEFINE c == getSeqNr(sendWdw[i])
    <2>1. c \in 0 .. U16 - 1
      BY <1>1, ElementOfSeq, GettersType
    <2>2. dist(i) = Minus16(seqNr, c) /\ left(i) = Minus16((seqNr + 1) % U16, c)
      BY <1>2, <1>5
    <2>3. dist(i) < MaxWindow
      BY <1>2
    <2> HIDE DEF c, dist, left
    <2>4. dist(i) \in 0 .. U16 - 1
      BY <1>1, <2>1, <2>2, OneAhead
    <2>5. dist(i) < U16 - 1 /\ 1 < U16
      BY <1>6, <2>3, <2>4
    <2>6. left(i) = dist(i) + 1
      BY <1>1, <2>1, <2>2, <2>5, OneAhead
    <2> QED BY <2>4, <2>5, <2>6
  <1>9. l = n + 1 /\ 1 < U16 => left(n + 1) = 1
    BY <1>1, <1>2, <1>4, <1>5, OneAhead
  <1>10. (\A i, j \in 1 .. l : i < j => left(i) > left(j)) /\ (\A i \in 1 .. l : 1 < U16 => left(i) >= 1)
            => OrderInv'
    BY DEF OrderInv, NumbersInOrder, Ahead
  <1> HIDE DEF n, l, dist, left
  <1>11. ASSUME NEW i \in 1 .. l, NEW j \in 1 .. l, i < j
         PROVE  left(i) > left(j)
    <2>1. i \in 1 .. n /\ (j \in 1 .. n \/ (j = n + 1 /\ l = n + 1))
      BY <1>1, <1>5, <1>11
    <2>2. dist(i) \in Nat /\ left(i) = dist(i) + 1 /\ 1 < U16 /\ dist(i) >= 1
      BY <1>7, <1>8, <2>1
    <2>3. CASE j \in 1 .. n
      <3>1. dist(j) \in Nat /\ left(j) = dist(j) + 1
        BY <1>8, <2>3
      <3>2. dist(i) > dist(j)
        BY <1>7, <1>11, <2>1, <2>3
      <3> QED BY <2>2, <3>1, <3>2
    <2>4. CASE j = n + 1 /\ l = n + 1
      BY <1>9, <2>2, <2>4
    <2> QED BY <2>1, <2>3, <2>4
  <1>12. ASSUME NEW i \in 1 .. l, 1 < U16
         PROVE  left(i) >= 1
    <2>1. i \in 1 .. n \/ (i = n + 1 /\ l = n + 1)
      BY <1>1, <1>5
    <2>2. CASE i \in 1 .. n
      BY <1>8, <2>2
    <2>3. CASE i = n + 1 /\ l = n + 1
      BY <1>9, <1>12, <2>3
    <2> QED BY <2>1, <2>2, <2>3
  <1> QED BY <1>10, <1>11, <1>12

\* For every width of the numbers, and as long as seqNr does not get once round ahead
\* of a packet that is not acknowledged: packets keep the numbers SendTo gave them,
\* and the window has them in the order in which they were made.
THEOREM NumbersInOrderHolds == Spec => []NumbersInOrder
  <1>1. Init => OrderInv
    <2> SUFFICES ASSUME Init PROVE OrderInv
      OBVIOUS
    <2>1. Len(sendWdw) = 0
      BY DEF Init
    <2> QED BY <2>1 DEF OrderInv, NumbersInOrder
  <1>2. TypeOK /\ OrderInv /\ [Next]_vars => OrderInv'
    <2> SUFFICES ASSUME TypeOK, OrderInv, [Next]_vars PROVE OrderInv'
      OBVIOUS
    <2>1. sendWdw \in Seq(Packets) /\ \A i \in 1 .. Len(sendWdw) : sendWdw[i] \in Packets
      BY DEF TypeOK
    <2>2. ASSUME sendWdw' = sendWdw, seqNr' = seqNr PROVE OrderInv'
      BY <2>2 DEF OrderInv, NumbersInOrder, Ahead
    <2>3. ASSUME NEW ok \in BOOLEAN, Send(ok) PROVE OrderInv'
      BY <2>3, SendOrder
    <2>4. CASE Timeout
      <3> DEFINE q == setTimestamp(sendWdw[1], now)
      <3>1. 1 \in 1 .. Len(sendWdw) /\ sendWdw' = [sendWdw EXCEPT ![1] = q] /\ seqNr' = seqNr
        BY <2>1, <2>4, EmptySeq DEF Timeout, numbers
      <3>2. q \in Packets /\ getSeqNr(q) = getSeqNr(sendWdw[1])
        BY <2>1, <3>1, SettersType, SameNumber DEF TypeOK
      <3> HIDE DEF q
      <3>3. Forgets(sendWdw, sendWdw')
        BY <2>1, <3>1, <3>2, StampForgets
      <3> QED BY <3>1, <3>3, ForgetsOrder
    <2>5. CASE Resend
      <3>1. seqNr' = seqNr
        BY <2>5 DEF Resend, numbers
      <3>2. CASE Positions(Head(resends)) = {}
        <4>1. sendWdw' = Advanced(sendWdw, lastAcked)
          BY <2>5, <3>2 DEF Resend
        <4> QED BY <2>1, <3>1, <4>1, AdvancedForgets, ForgetsOrder
      <3>3. CASE Positions(Head(resends)) # {}
        <4> DEFINE i == CHOOSE i \in Positions(Head(resends)) : TRUE
                   q == Stamped(sendWdw[i])
                   v == [sendWdw EXCEPT ![i] = q]
        <4>1. i \in 1 .. Len(sendWdw)
          BY <3>3 DEF Positions
        <4>2. sendWdw' = Advanced(v, lastAcked)
          BY <2>5, <3>3 DEF Resend
        <4> HIDE DEF i
        <4>3. q \in Packets /\ getSeqNr(q) = getSeqNr(sendWdw[i])
          BY <2>1, <4>1, StampedType, SameNumber
        <4> HIDE DEF q
        <4>4. v \in Seq(Packets) /\ \A u : Forgets(v, u) => Forgets(sendWdw, u)
          BY <2>1, <4>1, <4>3, StampForgets
        <4> HIDE DEF v
        <4>5. Forgets(sendWdw, sendWdw')
          BY <4>2, <4>4, AdvancedForgets
        <4> QED BY <3>1, <4>5, ForgetsOrder
      <3> QED BY <3>2, <3>3
    <2>6. ASSUME NEW p \in Heard, NEW third \in BOOLEAN, HearState(p, third) PROVE OrderInv'
      <3>1. seqNr' = seqNr /\ (sendWdw' = sendWdw \/ sendWdw' = Advanced(sendWdw, getAckNr(p)))
        BY <2>6 DEF HearState
      <3>2. CASE sendWdw' = Advanced(sendWdw, getAckNr(p))
        BY <2>1, <3>1, <3>2, AdvancedForgets, ForgetsOrder
      <3> QED BY <2>2, <3>1, <3>2
    <2>7. ASSUME (\E d \in Ticks : Tick(d)) \/ (\E p \in Heard : HearSyn(p)) \/ UNCHANGED vars
          PROVE  OrderInv'
      <3>1. sendWdw' = sendWdw /\ seqNr' = seqNr
        BY <2>7 DEF Tick, HearSyn, vars, numbers
      <3> QED BY <2>2, <3>1
    <2> QED BY <2>3, <2>4, <2>5, <2>6, <2>7 DEF Next
  <1>3. OrderInv => NumbersInOrder
    BY DEF OrderInv
  <1> QED BY <1>1, <1>2, <1>3, TypeCorrect, PTL DEF Spec
=============================================================================
