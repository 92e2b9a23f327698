---------------------------- MODULE TrackerProofs ----------------------------
(***************************************************************************)
(* Theorems about Tracker, whatever the order in which trials, their       *)
(* deferred calls and the tracker's replies come.                          *)
(***************************************************************************)
EXTENDS Tracker, TLAPS

\* The trial counter has room for the trial that is about to count itself.
CounterInRange ==
    /\ n \in 1 .. 9
    /\ main = "req" => n <= 8
    /\ trial = "start" => n <= 8

\* The request is in the buffer or has been sent in this phase, not both; a
\* trial that reads has found the buffer drained.
BufferIsRequest ==
    /\ phase \in {"dial", "connect"} => sent["announce"] = 0
    /\ phase = "dial" => sent["connect"] = 0 /\ full
    /\ Trying => sent[phase] = (IF full THEN 0 ELSE 1)
    /\ trial = "read" \/ heard \/ buff # Zeros => ~full
    /\ buff # Zeros => heard

\* An Announce that has been answered never hears of it.
AnsweredAnnounceWaits ==
    phase = "announce" /\ heard => main = "select" /\ done = <<>> /\ trial = "none"

\* Inductive strengthening of the properties of the run.
Inv ==
    /\ TypeOK
    /\ DeadlineComesOff
    /\ OneTrialAtATime
    /\ CounterInRange
    /\ BufferIsRequest
    /\ AnsweredAnnounceWaits
    /\ trial \in {"send", "read"} => resets < MaxResets
    /\ phase = "dial" => main = "req" /\ trial = "none" /\ done = <<>>

LEMMA OneReport ==
    ASSUME NEW e
    PROVE  Append(<<>>, e) = <<e>> /\ <<e>> # <<>>
  OBVIOUS

\* main is waiting, and has no report yet, while a trial runs.
LEMMA Waiting ==
    ASSUME Inv, Trying, trial # "none"
    PROVE  main = "select" /\ done = <<>>
  BY DEF Inv, TypeOK, OneTrialAtATime

LEMMA InitInv == Init => Inv
  <1> SUFFICES ASSUME Init PROVE Inv
    OBVIOUS
  <1>1. /\ phase = "dial" /\ main = "req" /\ err = "nil"
        /\ trial = "none" /\ done = <<>> /\ n = 1
        /\ deadline = "none" /\ resets = 0 /\ full = TRUE
        /\ inbox = {} /\ buff = Zeros /\ heard = FALSE
    BY DEF Init
  <1>2. /\ sent \in [{"connect", "announce"} -> 0 .. 1]
        /\ sent["connect"] = 0 /\ sent["announce"] = 0
    BY DEF Init
  <1>3. TypeOK
    <2>1. resets \in 0 .. MaxResets /\ n \in 1 .. 9
      BY <1>1, TrackerAssumption
    <2> QED
      BY <1>1, <1>2, <2>1 DEF TypeOK
  <1>4. DeadlineComesOff /\ OneTrialAtATime /\ CounterInRange /\ BufferIsRequest
        /\ AnsweredAnnounceWaits
    BY <1>1, <1>2 DEF DeadlineComesOff, OneTrialAtATime, CounterInRange, BufferIsRequest, AnsweredAnnounceWaits, Trying
  <1> QED
    BY <1>1, <1>3, <1>4 DEF Inv

LEMMA Step == Inv /\ [Next]_vars => Inv'
  <1> SUFFICES ASSUME Inv, [Next]_vars PROVE Inv'
    OBVIOUS
  <1> USE TrackerAssumption
  <1>1. ASSUME NEW ok \in BOOLEAN, Dial(ok)
        PROVE  Inv'
    BY <1>1 DEF Dial, Inv, TypeOK, DeadlineComesOff, OneTrialAtATime, CounterInRange,
                BufferIsRequest, AnsweredAnnounceWaits, Trying
  <1>2. CASE Req
    BY <1>2 DEF Req, Inv, TypeOK, DeadlineComesOff, OneTrialAtATime, CounterInRange,
                BufferIsRequest, AnsweredAnnounceWaits, Trying, Signals
  <1>3. CASE SetDeadline
    <2>1. deadline' \in {"armed", "past"}
      BY <1>3 DEF SetDeadline
    <2> QED
      BY <1>3, <2>1 DEF SetDeadline, Inv, TypeOK, DeadlineComesOff, OneTrialAtATime,
                CounterInRange, BufferIsRequest, AnsweredAnnounceWaits, Trying, Signals
  <1>4. CASE Send
    <2>1. sent' \in [{"connect", "announce"} -> 0 .. 1] /\ sent'[phase] = 1
          /\ (phase = "connect" => sent'["announce"] = 0)
      BY <1>4 DEF Send, Inv, TypeOK, BufferIsRequest, AnsweredAnnounceWaits, Trying
    <2> QED
      BY <1>4, <2>1 DEF Send, Inv, TypeOK, DeadlineComesOff, OneTrialAtATime,
                CounterInRange, BufferIsRequest, AnsweredAnnounceWaits, Trying, Signals
  <1>5. CASE SendFails
    <2>1. done = <<>> /\ main = "select"
      BY <1>5, Waiting DEF SendFails
    <2>2. done' = <<"error">> /\ done' # <<>>
      BY <1>5, <2>1, OneReport DEF SendFails, Report
    <2>3. trial' = "none" /\ resets' = resets + 1
      BY <1>5 DEF SendFails, Report
    <2> QED
      BY <1>5, <2>1, <2>2, <2>3 DEF SendFails, Inv, TypeOK, DeadlineComesOff, OneTrialAtATime,
                CounterInRange, BufferIsRequest, AnsweredAnnounceWaits, Trying, Signals
  <1>6. CASE ReadFails
    <2>1. done = <<>> /\ main = "select"
      BY <1>6, Waiting DEF ReadFails
    <2>2. done' = <<"error">> /\ done' # <<>>
      BY <1>6, <2>1, OneReport DEF ReadFails, Report
    <2>3. trial' = "none" /\ resets' = resets + 1
      BY <1>6 DEF ReadFails, Report
    <2> QED
      BY <1>6, <2>1, <2>2, <2>3 DEF ReadFails, Inv, TypeOK, DeadlineComesOff, OneTrialAtATime,
                CounterInRange, BufferIsRequest, AnsweredAnnounceWaits, Trying, Signals
  <1>7. ASSUME NEW r \in Replies, NEW duplicated \in BOOLEAN, Read(r, duplicated)
        PROVE  Inv'
    <2>0. done = <<>> /\ main = "select"
      BY <1>7, Waiting DEF Read
    <2>1. /\ Signals(phase) => done' = <<"nil">> /\ done' # <<>>
          /\ ~Signals(phase) => done' = <<>>
      BY <1>7, <2>0, OneReport DEF Read, Report
    <2>2. inbox' \subseteq Replies /\ resets' = resets + 1 /\ trial' = "none"
      BY <1>7 DEF Read, Report, Inv, TypeOK
    <2>3. r # Zeros
      BY DEF Replies, Zeros
    <2> QED
      BY <1>7, <2>0, <2>1, <2>2, <2>3 DEF Read, Inv, TypeOK, DeadlineComesOff, OneTrialAtATime,
                CounterInRange, BufferIsRequest, AnsweredAnnounceWaits, Trying, Signals
  <1>8. CASE TakeDeadlineOff
    BY <1>8 DEF TakeDeadlineOff, Inv, TypeOK, DeadlineComesOff, OneTrialAtATime, CounterInRange,
                BufferIsRequest, AnsweredAnnounceWaits, Trying, Signals
  <1>9. CASE Elapse
    BY <1>9 DEF Elapse, Inv, TypeOK, DeadlineComesOff, OneTrialAtATime, CounterInRange,
                BufferIsRequest, AnsweredAnnounceWaits, Trying, Signals
  <1>10. ASSUME NEW ph \in {"connect", "announce"}, NEW kind \in {"good", "bad"}, Answer(ph, kind)
         PROVE  Inv'
    BY <1>10 DEF Answer, Replies, Inv, TypeOK, DeadlineComesOff, OneTrialAtATime, CounterInRange,
                BufferIsRequest, AnsweredAnnounceWaits, Trying, Signals
  <1>11. CASE Select
    <2>1. err' \in {"nil", "error"} /\ done' = <<>>
      BY <1>11 DEF Select, Inv, TypeOK
    <2> QED
      BY <1>11, <2>1 DEF Select, Inv, TypeOK, DeadlineComesOff, OneTrialAtATime, CounterInRange,
                BufferIsRequest, AnsweredAnnounceWaits, Trying, Signals
  <1>12. CASE GiveUp
    BY <1>12 DEF GiveUp, Inv, TypeOK, DeadlineComesOff, OneTrialAtATime, CounterInRange,
                BufferIsRequest, AnsweredAnnounceWaits, Trying
  <1>13. CASE TryAgain
    BY <1>13 DEF TryAgain, Exhausted, Inv, TypeOK, DeadlineComesOff, OneTrialAtATime, CounterInRange,
                BufferIsRequest, AnsweredAnnounceWaits, Trying
  <1>14. CASE ConnectReturns
    <2>1. done = <<>> /\ trial = "none"
      BY <1>14 DEF ConnectReturns, Inv, OneTrialAtATime, Trying
    <2>2. CASE Accepted(buff)
      <3>1. /\ phase' = "announce" /\ main' = "req" /\ n' = 1 /\ full' = TRUE
            /\ buff' = Zeros /\ heard' = FALSE
            /\ UNCHANGED <<err, trial, done, deadline, resets, sent, inbox>>
        BY <1>14, <2>2 DEF ConnectReturns
      <3>2. sent["announce"] = 0
        BY <1>14 DEF ConnectReturns, Inv, BufferIsRequest
      <3>3. TypeOK'
        <4>1. /\ n' \in 1 .. 9
              /\ phase' \in {"dial", "connect", "announce", "panicked", "failed", "timeout"}
              /\ main' \in {"req", "select", "test"}
              /\ buff' \in Replies \cup {Zeros}
          BY <3>1
        <4>2. full' \in BOOLEAN /\ heard' \in BOOLEAN
          BY <3>1
        <4> QED
          BY <3>1, <4>1, <4>2 DEF Inv, TypeOK
      <3>4. DeadlineComesOff' /\ OneTrialAtATime' /\ AnsweredAnnounceWaits'
        BY <2>1, <3>1 DEF Inv, DeadlineComesOff, OneTrialAtATime, AnsweredAnnounceWaits
      <3>5. CounterInRange' /\ BufferIsRequest'
        BY <2>1, <3>1, <3>2 DEF Inv, CounterInRange, BufferIsRequest, Trying
      <3> QED
        BY <2>1, <3>1, <3>3, <3>4, <3>5 DEF Inv
    <2>3. CASE ~Accepted(buff)
      <3>1. phase' = "failed" /\ UNCHANGED <<main, n, full, buff, heard>>
            /\ UNCHANGED <<err, trial, done, deadline, resets, sent, inbox>>
        BY <1>14, <2>3 DEF ConnectReturns
      <3> QED
        BY <2>1, <3>1 DEF Inv, TypeOK, DeadlineComesOff, OneTrialAtATime,
                CounterInRange, BufferIsRequest, AnsweredAnnounceWaits, Trying
    <2> QED
      BY <2>2, <2>3
  <1>15. CASE SetDeadlineFails
    <2>1. done = <<>> /\ main = "select"
      BY <1>15, Waiting DEF SetDeadlineFails
    <2>2. done' = <<"error">> /\ done' # <<>>
      BY <1>15, <2>1, OneReport DEF SetDeadlineFails
    <2> QED
      BY <1>15, <2>1, <2>2 DEF SetDeadlineFails, Inv, TypeOK, DeadlineComesOff, OneTrialAtATime,
                CounterInRange, BufferIsRequest, AnsweredAnnounceWaits, Trying, Signals
  <1>16. CASE UNCHANGED vars
    BY <1>16 DEF vars, Inv, TypeOK, DeadlineComesOff, OneTrialAtATime, CounterInRange,
                BufferIsRequest, AnsweredAnnounceWaits, Trying
  <1> QED
    BY <1>1, <1>2, <1>3, <1>4, <1>5, <1>6, <1>7, <1>8, <1>9, <1>10, <1>11, <1>12, <1>13,
       <1>14, <1>15, <1>16 DEF Next

\* However trials and deferred calls interleave, a deadline on the socket always
\* has a deferred call to come that takes it off (udpt.go:78).
THEOREM DeadlineComesOffHolds == Spec => []DeadlineComesOff
  <1>1. Inv => DeadlineComesOff
    BY DEF Inv
  <1> QED
    BY <1>1, InitInv, Step, PTL DEF Spec

\* A trial's report is never lost, blocked or taken for another trial's.
THEOREM OneTrialAtATimeHolds == Spec => [](TypeOK /\ OneTrialAtATime)
  <1>1. Inv => TypeOK /\ OneTrialAtATime
    BY DEF Inv
  <1> QED
    BY <1>1, InitInv, Step, PTL DEF Spec

\* Announce never starts from anything but the reply to Connect's one request.
THEOREM AnnounceFollowsReplyHolds == Spec => AnnounceFollowsReply
  <1>1. Inv /\ [Next]_vars =>
          (phase' = "announce" /\ phase = "connect" =>
             heard /\ sent["connect"] = 1 /\ buff = <<"connect", "good">>)
    <2> SUFFICES ASSUME Inv, [Next]_vars, phase' = "announce", phase = "connect"
                 PROVE  heard /\ sent["connect"] = 1 /\ buff = <<"connect", "good">>
      OBVIOUS
    <2>1. ConnectReturns
      BY DEF Next, vars, Dial, Req, Select, GiveUp, TryAgain, SetDeadline, SetDeadlineFails, Send, SendFails,
             ReadFails, TakeDeadlineOff, Read, Elapse, Answer, Report
    <2>2. buff = <<"connect", "good">>
      BY <2>1 DEF ConnectReturns, Accepted
    <2>3. buff # Zeros
      BY <2>2 DEF Zeros
    <2> QED
      BY <2>2, <2>3 DEF Inv, BufferIsRequest, Trying
  <1> QED
    BY <1>1, InitInv, Step, PTL DEF Spec, AnnounceFollowsReply
=============================================================================
