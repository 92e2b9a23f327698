----------------------------- MODULE UtpDelays -----------------------------
(***************************************************************************)
(* The delays a connected UtpSocket measures (utp/socket.go): the stamps   *)
(* on its packets and replies, the base delays and current delays it       *)
(* samples when they are acknowledged, and its round-trip time.  When the  *)
(* socket waits and what it counts as in flight is UtpSocket's subject;    *)
(* here waiting is any time passing and any packet being read.             *)
(*                                                                         *)
(* The clock is nowMicroSecs: microseconds modulo U32.  epoch counts how   *)
(* often it has started again.                                             *)
(***************************************************************************)
EXTENDS UtpPacket, Sequences, FiniteSets

CONSTANTS
    M,             \* int32 is -M .. M - 1
    AGE,           \* MAX_BASE_DELAY_AGE
    BASE_HISTORY,
    RTT_UNIT,      \* what a unit of rtt is worth in updateCurrDelay; 100 in the code
    senderConnID,
    FirstNrs,      \* the random sequence numbers a connection starts with
    Ticks,         \* how far the clock goes at once
    Stamps, Nrs,   \* timestamps and numbers in the packets of the remote
    Rtts,          \* what a sample of the round-trip time may come to
    MaxEpoch,      \* bound: epochs
    MaxWindow,     \* bound: how far seqNr gets ahead of a packet not acknowledged
    MaxDepth,      \* bound: sendPackets active at once
    MaxMade,       \* bound: packets made
    MaxTaken       \* bound: delays measured

ASSUME DelaysAssumption ==
    /\ M \in Nat \ {0} /\ AGE \in Nat /\ RTT_UNIT \in Nat /\ BASE_HISTORY \in Nat \ {0}
    /\ senderConnID \in 0 .. U16 - 1
    /\ FirstNrs \subseteq 0 .. U16 - 1 /\ Nrs \subseteq 0 .. U16 - 1
    /\ Ticks \subseteq 1 .. U32 - 1 /\ Stamps \subseteq 0 .. U32 - 1
    /\ Rtts \subseteq 0 .. M - 1 /\ MaxWindow \in 0 .. U16 - 1

VARIABLES
    now, epoch,
    seqNr, lastAcked,
    sendWdw,        \* a sequence of packets
    resends,        \* numbers that active resendLostPackets send again, innermost first
    theirDelay,
    baseDelays, lastRollover,
    currentDelays,  \* samples: their difference and receivedAt; history: their epoch
    rtt,
    made, taken,    \* history: packets made, delays measured
    periods         \* history: for every base delay taken, when it was begun, when
                    \* it was last looked at, and the delays measured between

clock == <<now, epoch>>
numbers == <<seqNr, lastAcked>>
measures == <<baseDelays, lastRollover, currentDelays, rtt, periods, taken>>
vars == <<clock, numbers, sendWdw, resends, theirDelay, measures, made>>

-----------------------------------------------------------------------------

Smaller(a, b) == IF a > b THEN b ELSE a

absDiff(a, b) == IF a > b THEN a - b ELSE b - a

Int32(n) == ((n + M) % (2 * M)) - M

abs(n) == IF n < 0 THEN Int32(0 - n) ELSE n

Minus16(a, b) == (a - b + U16) % U16

\* distA > distB in sendPacket
AlreadyAcked(nr) == Minus16(nr, lastAcked) > Minus16(lastAcked, nr)

Positions(nr) == {i \in 1 .. Len(sendWdw) : getSeqNr(sendWdw[i]) = nr}

\* advanceSendWindow, which forgets the packets up to the one with the number nr.
Advanced(window, nr) ==
    LET found == {i \in 1 .. Len(window) : getSeqNr(window[i]) = nr}
    IN  IF found = {} THEN window ELSE SubSeq(window, (CHOOSE i \in found : TRUE) + 1, Len(window))

Init ==
    /\ now \in Stamps /\ epoch = 0
    /\ seqNr \in FirstNrs /\ lastAcked = 0
    /\ sendWdw = <<>> /\ resends = <<>>
    /\ theirDelay = 0
    /\ baseDelays = <<>> /\ lastRollover = 0 /\ currentDelays = <<>> /\ rtt = 0
    /\ periods = <<>>
    /\ made = 0 /\ taken = 0

Tick(d) ==
    /\ IF now + d < U32 THEN now' = now + d /\ epoch' = epoch
                        ELSE now' = now + d - U32 /\ epoch' = epoch + 1
    /\ epoch' <= MaxEpoch
    /\ UNCHANGED <<numbers, sendWdw, resends, theirDelay, measures, made>>

-----------------------------------------------------------------------------
(* Sending. *)

\* What sendPacket does to a packet, when there is room for it.
Stamped(p) ==
    IF AlreadyAcked(getSeqNr(p)) THEN p
                                 ELSE setTimespanDiff(setTimestamp(p, now), theirDelay)

\* SendTo and send: a packet made of a chunk gets the next number, and when there
\* is room it goes into the window, if it could be written.  (SendTo makes all its
\* packets first; what is read while one waits does not change them.)
Send(ok) ==
    /\ resends = <<>>
    /\ \A i \in DOMAIN sendWdw : Minus16(seqNr, getSeqNr(sendWdw[i])) < MaxWindow
    /\ LET p == setConnID(setSeqNr(NewPacket, seqNr), senderConnID) IN
         sendWdw' = IF ok THEN Append(sendWdw, Stamped(p)) ELSE sendWdw
    /\ seqNr' = (seqNr + 1) % U16
    /\ made < MaxMade /\ made' = made + 1
    /\ UNCHANGED <<clock, lastAcked, resends, theirDelay, measures>>

\* handleRecieveTimeout sends the first packet of the window again, with no delay
\* in it.
Timeout ==
    /\ sendWdw # <<>>
    /\ sendWdw' = [sendWdw EXCEPT ![1] = setTimestamp(@, now)]
    /\ UNCHANGED <<clock, numbers, resends, theirDelay, measures, made>>

\* The innermost resendLostPacket has room; its packet may have left the window
\* meanwhile.  It was handleStatePacket that called it, which ends.
Resend ==
    /\ resends # <<>>
    /\ sendWdw' = Advanced(IF Positions(Head(resends)) = {} THEN sendWdw
                           ELSE [sendWdw EXCEPT ![CHOOSE i \in Positions(Head(resends)) : TRUE] = Stamped(@)],
                           lastAcked)
    /\ resends' = Tail(resends)
    /\ UNCHANGED <<clock, numbers, theirDelay, measures, made>>

-----------------------------------------------------------------------------
(* Measuring. *)

Moment == [now |-> now, epoch |-> epoch]

\* Slip: the difference is taken the other way round.
MinuteOverSwapped == baseDelays = <<>> \/ lastRollover - now > AGE

MinuteOver == baseDelays = <<>> \/ now - lastRollover > AGE

\* Slip: the comparison is turned round.
LowerHigher(d, was) == IF d > was THEN d ELSE was

Lower(d, was) == IF d < was THEN d ELSE was

\* A base delay for every minute in which something was measured, of the last
\* BASE_HISTORY; the minute is over when the clock says so.
updateBaseDelay(d) ==
    IF MinuteOver
      THEN /\ lastRollover' = now
           /\ baseDelays' = Append(IF Len(baseDelays) = BASE_HISTORY THEN Tail(baseDelays) ELSE baseDelays, d)
           /\ periods' = Append(periods, [begun |-> Moment, last |-> Moment, delays |-> {d}])
      ELSE /\ baseDelays' = [baseDelays EXCEPT ![Len(baseDelays)] = Lower(d, @)]
           /\ periods' = [periods EXCEPT ![Len(periods)] =
                            [begun |-> @.begun, last |-> Moment, delays |-> @.delays \cup {d}]]
           /\ UNCHANGED lastRollover

Sample(d) == [receivedAt |-> now, difference |-> d, epoch |-> epoch]

\* Is the sample more than one rtt old?
Old(s) == now - s.receivedAt > rtt * RTT_UNIT

\* Slip: one sample at most is removed.
updateCurrDelayOnce(d) ==
    \E k \in 0 .. 1 :
        /\ k <= Len(currentDelays)
        /\ k = 1 <=> currentDelays # <<>> /\ Old(Head(currentDelays))
        /\ currentDelays' = Append(SubSeq(currentDelays, k + 1, Len(currentDelays)), Sample(d))

\* The loop removes samples, k of them, until the first is not old.
updateCurrDelay(d) ==
    \E k \in 0 .. Len(currentDelays) :
        /\ \A j \in 1 .. k : Old(currentDelays[j])
        /\ k < Len(currentDelays) => ~Old(currentDelays[k + 1])
        /\ currentDelays' = Append(SubSeq(currentDelays, k + 1, Len(currentDelays)), Sample(d))

\* rttVariance stays 0, and rtt is moved by the size of what it is off, never
\* down, except that it is an int32.
updateCongestionTimeOut(currDelay) ==
    rtt' = Int32(rtt + (abs(Int32(rtt - currDelay)) \div 4))

\* handleStatePacket, when the acknowledged packet is in the window at i.  What
\* the round-trip time comes to depends on an average in floating point.
Measure(i) ==
    LET ourDelay == (now - timestamp(sendWdw[i]) + U32) % U32
    IN  /\ updateBaseDelay(ourDelay)
        /\ updateCurrDelay(ourDelay)
        /\ taken' = taken + 1
        /\ \E currDelay \in Rtts : updateCongestionTimeOut(currDelay)

-----------------------------------------------------------------------------
(* Reading. *)

\* A packet of a remote, of twenty bytes or with extensions that fit.
PacketOf(t, x, ack, at, id) ==
    setConnID(setTimestamp(setAckNr([NewPacket EXCEPT !.type = t, !.ver = 1, !.extension = x], ack),
                           at), id)

Heard ==
    {PacketOf(t, x, ack, at, id) : t \in {State, Syn}, x \in None .. SelectiveAck, ack \in Nrs,
                                   at \in Stamps, id \in {senderConnID, (senderConnID + 2) % U16}}

\* rcvrConnID is the number after senderConnID.
OfThisConnection(p) == getConnId(p) \in {senderConnID, (senderConnID + 1) % U16}

\* A packet that passes; of another connection only a Syn gets past handlePacket's
\* first test.
Hears(p) ==
    /\ PacketFromBytes(p)
    /\ OfThisConnection(p) \/ getType(p) = Syn

\* A Syn is answered with a Reset and leaves its delay behind.  (A Fin and a Reset
\* end the connection, and data panics.)
HearSyn(p) ==
    /\ Hears(p) /\ getType(p) = Syn
    /\ theirDelay' = absDiff(now, timestamp(p))
    /\ UNCHANGED <<clock, numbers, sendWdw, resends, measures, made>>

\* An acknowledgement.  The packet after the acknowledged one is sent again if it
\* is in the window, but for the third acknowledgement of a kind.  (The loop over a
\* selective acknowledgement is left out: chectExts lets none in.)
HearState(p, third) ==
    /\ Hears(p) /\ getType(p) = State
    /\ theirDelay' = absDiff(now, timestamp(p))
    /\ lastAcked' = getAckNr(p)
    /\ IF Positions(getAckNr(p)) = {} THEN UNCHANGED measures
         ELSE \E i \in Positions(getAckNr(p)) : Measure(i)
    /\ IF ~third /\ Positions((getAckNr(p) + 1) % U16) # {}
         THEN /\ Len(resends) < MaxDepth
              /\ resends' = <<(getAckNr(p) + 1) % U16>> \o resends
              /\ UNCHANGED sendWdw
         ELSE /\ sendWdw' = Advanced(sendWdw, getAckNr(p))
              /\ UNCHANGED resends
    /\ taken' <= MaxTaken
    /\ UNCHANGED <<clock, seqNr, made>>

Next == \/ \E d \in Ticks : Tick(d)
        \/ Timeout \/ Resend
        \/ \E ok \in BOOLEAN : Send(ok)
        \/ \E p \in Heard : \/ HearSyn(p)
                            \/ \E third \in BOOLEAN : HearState(p, third)

Spec == Init /\ [][Next]_vars

-----------------------------------------------------------------------------

Moments == [now : 0 .. U32 - 1, epoch : Nat]

Packets ==
    [type : Data .. Invalid, ver : 0 .. 1, extension : None .. InvalidExt,
     connectionId : 0 .. U16 - 1, timestamp : 0 .. U32 - 1, timestampDiff : 0 .. U32 - 1,
     wndSize : 0 .. U32 - 1, seqNr : 0 .. U16 - 1, ackNr : 0 .. U16 - 1]

TypeOK ==
    /\ now \in 0 .. U32 - 1 /\ epoch \in Nat
    /\ {seqNr, lastAcked} \subseteq 0 .. U16 - 1
    /\ sendWdw \in Seq(Packets)
    /\ resends \in Seq(0 .. U16 - 1) /\ theirDelay \in 0 .. U32 - 1
    /\ baseDelays \in Seq(0 .. U32 - 1) /\ lastRollover \in 0 .. U32 - 1
    /\ currentDelays \in Seq([receivedAt : 0 .. U32 - 1, difference : 0 .. U32 - 1, epoch : Nat])
    /\ rtt \in -M .. M - 1
    /\ made \in Nat /\ taken \in Nat
    /\ periods \in Seq([begun : Moments, last : Moments, delays : SUBSET (0 .. U32 - 1)])

\* socket.go:944, "The base delay list contains at most BASE_HISTORY samples, each
\* sample is the minimum measured over a period": it has the minima of the last
\* periods there were, and of no fewer than there is room for.
BaseDelaysAreMinima ==
    /\ Len(baseDelays) = Smaller(Len(periods), BASE_HISTORY)
    /\ \A i \in 1 .. Len(baseDelays) :
         LET measured == periods[Len(periods) - Len(baseDelays) + i].delays
         IN  baseDelays[i] \in measured /\ \A d \in measured : baseDelays[i] <= d

\* The whole clock, of which nowMicroSecs keeps four bytes.
Time(moment) == moment.epoch * U32 + moment.now

\* Base delays are begun more than MAX_BASE_DELAY_AGE apart, and what is measured
\* so long after one was begun never goes into it: unless, in between, the four
\* bytes of the clock have started again from zero, after which the age of a
\* base delay is negative.
PeriodsOfAMinute ==
    \A i \in 1 .. Len(periods) :
        /\ periods[i].last.epoch = periods[i].begun.epoch =>
             Time(periods[i].last) - Time(periods[i].begun) <= AGE
        /\ i > 1 => Time(periods[i].begun) - Time(periods[i - 1].begun) > AGE

\* updateCurrDelay, "after removing samples older than one RTT": whatever rtt and
\* the clock have done between, it removes those and no others, as far as a sample
\* from before the clock last started again does not come before them.
SamplesOfOneRtt ==
    [][currentDelays' # currentDelays =>
         LET removed == Len(currentDelays) - (Len(currentDelays') - 1)
         IN  /\ removed >= 0
             /\ \A i \in 1 .. Len(currentDelays) :
                  (\A j \in 1 .. i : currentDelays[j].epoch = epoch) =>
                    (i <= removed <=> Old(currentDelays[i]))]_vars

\* A packet keeps the number SendTo gave it, whatever is stamped on it how often:
\* those in the window are told apart by their numbers, which go up to seqNr in the
\* order they were made.
NumbersInOrder ==
    \A i, j \in 1 .. Len(sendWdw) :
        i < j => Minus16(seqNr, getSeqNr(sendWdw[i])) > Minus16(seqNr, getSeqNr(sendWdw[j]))
=============================================================================
