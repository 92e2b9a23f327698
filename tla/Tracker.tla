------------------------------- MODULE Tracker -------------------------------
(***************************************************************************)
(* GetPeers (udpt.go): Connect to a UDP tracker, then Announce.  Each      *)
(* sends one request and waits for its reply in a series of trials; a      *)
(* trial is a goroutine that sets the socket's deadline, sends, reads,     *)
(* reports on the channel done and, as its deferred call, takes the        *)
(* deadline off again.                                                     *)
(*                                                                         *)
(* The goroutine reports BEFORE it runs its deferred call, so that the     *)
(* next trial can set its deadline first and lose it to the old one's.     *)
(*                                                                         *)
(* The context is context.TODO() (driver.go), which is never cancelled.    *)
(* ParseAnnounceResp is not here: no execution of Announce reaches it.     *)
(***************************************************************************)
EXTENDS Integers, Sequences

CONSTANTS
    BufferMade,    \* is the buffer Connect writes its request to allocated?  It
                   \* is not: var b *bytes.Buffer is nil.  TRUE shows what the
                   \* code behind that line does.
    MaxResets      \* bound: deferred calls outstanding

ASSUME TrackerAssumption == /\ BufferMade \in BOOLEAN
                            /\ MaxResets \in Nat \ {0}

VARIABLES
    phase,     \* "dial", "connect", "announce", or how it ended: "panicked",
               \* "failed" (an error or a bad reply), "timeout" (TimeoutError)
    main,      \* "req": about to start a trial; "select": waiting on done;
               \* "test": back from req()
    err,       \* the variable err, as main finds it
    trial,     \* the goroutine of the trial: "none", "start", "send", "read"
    done,      \* the channel done, of capacity 1
    n,         \* the trial counter, from 1
    deadline,  \* of the socket: "none", "armed", "past"
    resets,    \* deferred SetDeadline(time.Time{}) calls yet to run
    full,      \* the buffer with the request has not been drained
    sent,      \* history: requests sent in each phase
    inbox,     \* replies that have reached the socket
    buff,      \* the reply last read, or Zeros
    heard      \* history: a trial of this phase has read a reply

vars == <<phase, main, err, trial, done, n, deadline, resets, full, sent, inbox, buff, heard>>

-----------------------------------------------------------------------------

Trying == phase \in {"connect", "announce"}

\* A reply to either request; "good" if it has the action and transaction id
\* of the request.
Replies == {"connect", "announce"} \X {"good", "bad"}

\* The response buffer before anything is read into it.
Zeros == <<>>

\* Seconds a trial waits: 15 * (2^n), where ^ is Go's exclusive or.
Duration(k) == 15 * (IF (k \div 2) % 2 = 1 THEN k - 2 ELSE k + 2)

\* Slip: no trial reports a success, Announce's behaviour.
SignalsNever(ph) == FALSE

\* Only Connect ends a successful trial with done <- nil.
Signals(ph) == ph = "connect"

\* Slip: a reply of any kind will do.
AcceptedUnchecked(r) == TRUE

\* The checks of action and transaction id behind Connect's loop.
Accepted(r) == r = <<"connect", "good">>

\* if n > 8, tested after every trial
Exhausted == n > 8

-----------------------------------------------------------------------------

Init ==
    /\ phase = "dial" /\ main = "req" /\ err = "nil"
    /\ trial = "none" /\ done = <<>> /\ n = 1
    /\ deadline = "none" /\ resets = 0
    /\ full = TRUE /\ sent = [ph \in {"connect", "announce"} |-> 0]
    /\ inbox = {} /\ buff = Zeros /\ heard = FALSE

\* ResolveUDPAddr, DialUDP, and the writes of the request into the buffer.
Dial(ok) ==
    /\ phase = "dial"
    /\ phase' = CASE ~ok -> "failed"
                  [] ok /\ ~BufferMade -> "panicked"
                  [] ok /\ BufferMade -> "connect"
    /\ UNCHANGED <<main, err, trial, done, n, deadline, resets, full, sent, inbox, buff, heard>>

\* req(): start the goroutine and wait for it.
Req ==
    /\ Trying /\ main = "req"
    /\ trial' = "start"
    /\ main' = "select"
    /\ UNCHANGED <<phase, err, done, n, deadline, resets, full, sent, inbox, buff, heard>>

\* c.SetDeadline(time.Now().Add(duration)); n += 1.  A duration of zero is past
\* at once.
SetDeadline ==
    /\ Trying /\ trial = "start"
    /\ resets < MaxResets
    /\ deadline' = IF Duration(n) = 0 THEN "past" ELSE "armed"
    /\ n' = n + 1
    /\ trial' = "send"
    /\ UNCHANGED <<phase, main, err, done, resets, full, sent, inbox, buff, heard>>

\* c.SetDeadline fails: reported, with no deferred call to come.
SetDeadlineFails ==
    /\ Trying /\ trial = "start"
    /\ n' = n + 1
    /\ done' = Append(done, "error")
    /\ trial' = "none"
    /\ UNCHANGED <<phase, main, err, deadline, resets, full, sent, inbox, buff, heard>>

\* Slip: the goroutine does not take the deadline off.
ReportWithoutDefer(e) ==
    /\ done' = Append(done, e)
    /\ trial' = "none"
    /\ UNCHANGED resets

\* The goroutine sends e on done, returns, and owes its deferred call.
Report(e) ==
    /\ done' = Append(done, e)
    /\ trial' = "none"
    /\ resets' = resets + 1

\* io.Copy(c, b) drains the buffer; of an empty one it sends nothing.
Send ==
    /\ Trying /\ trial = "send"
    /\ full => deadline # "past"
    /\ full' = FALSE
    /\ sent' = IF full THEN [sent EXCEPT ![phase] = @ + 1] ELSE sent
    /\ trial' = "read"
    /\ UNCHANGED <<phase, main, err, done, n, deadline, resets, inbox, buff, heard>>

\* The datagram is not sent: the network refuses, or the deadline is past.
SendFails ==
    /\ Trying /\ trial = "send" /\ full
    /\ Report("error")
    /\ UNCHANGED <<phase, main, err, n, deadline, full, sent, inbox, buff, heard>>

\* c.ReadFromUDP returns a reply, which the network may have duplicated.
Read(r, duplicated) ==
    /\ Trying /\ trial = "read" /\ deadline # "past"
    /\ r \in inbox
    /\ inbox' = IF duplicated THEN inbox ELSE inbox \ {r}
    /\ buff' = r
    /\ heard' = TRUE
    /\ IF Signals(phase) THEN Report("nil")
                         ELSE /\ trial' = "none"
                              /\ resets' = resets + 1
                              /\ UNCHANGED done
    /\ UNCHANGED <<phase, main, err, n, deadline, full, sent>>

\* Slip: a trial that times out does not report.
ReadFailsSilently ==
    /\ Trying /\ trial = "read"
    /\ deadline = "past" \/ sent[phase] > 0
    /\ trial' = "none"
    /\ resets' = resets + 1
    /\ UNCHANGED <<phase, main, err, done, n, deadline, full, sent, inbox, buff, heard>>

\* The deadline is past, or the tracker's host has refused what was sent.
ReadFails ==
    /\ Trying /\ trial = "read"
    /\ deadline = "past" \/ sent[phase] > 0
    /\ Report("error")
    /\ UNCHANGED <<phase, main, err, n, deadline, full, sent, inbox, buff, heard>>

\* The deferred call of a trial that has reported.
TakeDeadlineOff ==
    /\ resets > 0
    /\ resets' = resets - 1
    /\ deadline' = "none"
    /\ UNCHANGED <<phase, main, err, trial, done, n, full, sent, inbox, buff, heard>>

Elapse ==
    /\ deadline = "armed"
    /\ deadline' = "past"
    /\ UNCHANGED <<phase, main, err, trial, done, n, resets, full, sent, inbox, buff, heard>>

\* The tracker has received a request and its reply arrives.
Answer(ph, kind) ==
    /\ Trying /\ sent[ph] > 0
    /\ inbox' = inbox \cup {<<ph, kind>>}
    /\ UNCHANGED <<phase, main, err, trial, done, n, deadline, resets, full, sent, buff, heard>>

\* err = <-done
Select ==
    /\ Trying /\ main = "select" /\ done # <<>>
    /\ err' = Head(done)
    /\ done' = Tail(done)
    /\ main' = "test"
    /\ UNCHANGED <<phase, trial, n, deadline, resets, full, sent, inbox, buff, heard>>

\* TimeoutError, whatever the trial brought.
GiveUp ==
    /\ Trying /\ main = "test" /\ Exhausted
    /\ phase' = "timeout"
    /\ UNCHANGED <<main, err, trial, done, n, deadline, resets, full, sent, inbox, buff, heard>>

\* Slip: the next trial while the last one runs.
TryAgainWithoutWaiting ==
    /\ Trying /\ main \in {"select", "test"} /\ ~Exhausted /\ err # "nil"
    /\ main' = "req"
    /\ UNCHANGED <<phase, err, trial, done, n, deadline, resets, full, sent, inbox, buff, heard>>

\* for err != nil
TryAgain ==
    /\ Trying /\ main = "test" /\ ~Exhausted /\ err # "nil"
    /\ main' = "req"
    /\ UNCHANGED <<phase, err, trial, done, n, deadline, resets, full, sent, inbox, buff, heard>>

\* Connect returns: an error, or the connection id, and then Announce has an n,
\* a done and a request of its own on the same socket.
ConnectReturns ==
    /\ phase = "connect" /\ main = "test" /\ ~Exhausted /\ err = "nil"
    /\ IF Accepted(buff)
         THEN /\ phase' = "announce"
              /\ main' = "req" /\ n' = 1 /\ full' = TRUE /\ buff' = Zeros /\ heard' = FALSE
         ELSE /\ phase' = "failed"
              /\ UNCHANGED <<main, n, full, buff, heard>>
    /\ UNCHANGED <<err, trial, done, deadline, resets, sent, inbox>>

Next ==
    \/ \E ok \in BOOLEAN : Dial(ok)
    \/ Req \/ Select \/ GiveUp \/ TryAgain \/ ConnectReturns
    \/ SetDeadline \/ SetDeadlineFails \/ Send \/ SendFails \/ ReadFails \/ TakeDeadlineOff
    \/ \E r \in Replies, duplicated \in BOOLEAN : Read(r, duplicated)
    \/ Elapse
    \/ \E ph \in {"connect", "announce"}, kind \in {"good", "bad"} : Answer(ph, kind)

Spec == Init /\ [][Next]_vars

\* Goroutines that can run do run, time passes, and a socket with a datagram is
\* read.  The tracker need not answer.
Fairness ==
    /\ WF_vars(\E ok \in BOOLEAN : Dial(ok))
    /\ WF_vars(Req \/ Select \/ GiveUp \/ TryAgain \/ ConnectReturns)
    /\ WF_vars(SetDeadline)
    /\ WF_vars(Send \/ (SendFails /\ deadline = "past"))
    /\ WF_vars(ReadFails /\ deadline = "past")
    /\ WF_vars(\E r \in Replies, duplicated \in BOOLEAN : Read(r, duplicated))
    /\ WF_vars(TakeDeadlineOff)
    /\ WF_vars(Elapse)

FairSpec == Spec /\ Fairness

-----------------------------------------------------------------------------

TypeOK ==
    /\ phase \in {"dial", "connect", "announce", "panicked", "failed", "timeout"}
    /\ main \in {"req", "select", "test"}
    /\ err \in {"nil", "error"}
    /\ trial \in {"none", "start", "send", "read"}
    /\ done \in {<<>>, <<"nil">>, <<"error">>}
    /\ n \in 1 .. 9
    /\ deadline \in {"none", "armed", "past"}
    /\ resets \in 0 .. MaxResets
    /\ full \in BOOLEAN
    /\ sent \in [{"connect", "announce"} -> 0 .. 1]
    /\ inbox \subseteq Replies
    /\ buff \in Replies \cup {Zeros}
    /\ heard \in BOOLEAN

\* udpt.go:78, "disable deadline by setting it to zero, else the deadline will
\* apply to all I/O on this connection": whatever the order in which old and new
\* trials touch the one deadline of the socket, none is left on it for good.
DeadlineComesOff ==
    deadline # "none" => resets > 0 \/ trial \in {"send", "read"}

\* A trial reports at most once and only when main listens: a goroutine never
\* blocks on done, and a report of one trial is never taken for the next one's.
OneTrialAtATime ==
    Trying => CASE main = "select" -> trial = "none" <=> (done # <<>> \/ (heard /\ ~Signals(phase)))
                [] OTHER -> trial = "none" /\ done = <<>>

\* Announce is called only with a connection id out of a reply to the request
\* that Connect sent, although a timed-out trial leaves the buffer as it was.
AnnounceFollowsReply ==
    [][phase' = "announce" /\ phase = "connect" =>
         heard /\ sent["connect"] = 1 /\ buff = <<"connect", "good">>]_vars

\* When a reply to Connect has arrived, Connect returns, also if the race has
\* left the trial without a deadline.
AnsweredConnectEnds == (phase = "connect" /\ inbox # {}) ~> phase # "connect"

\* Nobody need answer for Connect to end, except where a deferred call that came
\* late has taken the deadline off a trial that reads.
ConnectEndsUnlessRaced ==
    <>(phase \notin {"dial", "connect"} \/ (trial = "read" /\ deadline = "none"))

\* udpt.go:112, "break out after 8 trials": Connect returns though nobody
\* answers.  (As the code stands BufferMade is FALSE and Connect panics before
\* the first trial: this is about the code behind it.)
ConnectEnds == <>(phase \notin {"dial", "connect"})
=============================================================================
