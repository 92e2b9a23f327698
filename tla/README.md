# odor in TLA+

odor is a BitTorrent client in Go. This directory holds TLA+ models of the parts of it that keep state, share state
between goroutines or compute positions in the file, the TLC runs that check them, and proofs that the TLA+ proof
system checks. It is meant to be read with the repository open: every definition stands for the lines that
`PROJECT.json` names under `map`, and comments quote the code where the model follows something surprising.

## 1. The system and its parts

    main -> driver.Drive -> NewTorrent -> bencode decoder, GetInfoHash, GetPeers (tracker client)
                         -> Torrent.Start -> one goroutine per peer: downloadPiece
                                               Connect: NewConn, Shake, ReqBitFields
                                               loop over the channel of piece requests
                                          -> collects pieces, writes them with an errgroup

Beside that chain the repository holds code that nothing calls yet: `DownloadPiece`, `ReqPiece` with its `Queue` and
`PiecesState`, `verifyPiece`, the uTP socket, and every parser but one. Where a part without callers is modelled, its callers are an
environment that does whatever its signature allows, and the module says so.

| part | state | operations | interacts with |
|---|---|---|---|
| Geometry (`formats/metainfo.go`) | none | `PieceLen`, `PieceBounds`, `NumBlocksInPiece`, `BlockLen` | called by everything that names a piece or a block |
| Block requests (`pieces.go`, `queue.go`, `PeerConn.ReqPiece`) | flags `Reqd`, `Recvd` shared by all connections; one queue each | `enq`, `deq`, `needed`, `assertReqd`, `assertRecvd`, `isDone`, `ReqPiece` | shared flags; requests and answers on the wire |
| Start and workers (`torrent.go`, `pwp.go`) | `Torrent.clients`, three channels, one goroutine per peer | `Start`, `Connect`, `downloadPiece` | channels, the unlocked `clients`, peers |
| Download of one piece (`PeerConn.DownloadPiece`, `handleMsg`) | connection, its state, bitfield, offset | the loop, `RequestBlock`, `ReadMessage`, `handleMsg` | a peer, `errchan`, the deadline |
| Piece writer (second half of `Start`) | file, errgroup, counter | receive, write, wait | senders of pieces, the file system |
| Tracker client (`udpt.go`) | socket and its deadline, trial counter, channel `done` | `Connect`, `Announce`, a goroutine per trial | the tracker over UDP |
| uTP socket (`utp/socket.go`) | sequence numbers, send window, reordering buffer, congestion control | `connect`, `SendTo`, `RecvFrom`, `Close`, `Flush` | the remote socket, through a network that loses and reorders |
| uTP packets and delays (`utp/packet.go`, second half of `utp/socket.go`) | base delays, current delays, round-trip time; the packets in the window | setters and getters, `PacketFromBytes`, `updateBaseDelay`, `updateCurrDelay`, `updateCongestionTimeOut` | a clock of four bytes, `handleStatePacket`, `sendPacket` |
| Parser combinators, bencode (`parsec/`, `formats/`) | an input that shares a reader | combinators, decoder, encoder | `NewTorrent`, whose decoder is still a stub |
| Message and handshake codecs | the bytes of a connection, a bitfield | `Marshall`, `ReadMessage`, `ParsePieceMsg`, `Set`, `Has`, `ParseHandShake` | connections, geometry |
| Command line, selection, byte parser | none to speak of | | |

What is hard about them, and what makes each correct:

- *Geometry.* Two functions decide independently which piece is the last and how long it is, two more do it for
  blocks, and `DownloadPiece` does it again by hand. They have to agree when the sizes are multiples of each other.
- *Block requests.* Late answers, failed writes and the endgame reset (when every block has been requested, `Reqd`
  becomes a copy of `Recvd`) meet in shared flags. No block may be forgotten, and a block that has come should not
  be asked for again.
- *Start and workers.* Workers receive from and send to one buffered channel; two other channels have no second end.
  No request may be lost or doubled, nobody may block on the channel everybody empties, and the list of
  connections should hold the connections.
- *Download of one piece.* The peer mixes its messages as it likes, chokes, hangs up or falls silent. The loop must
  ask for exactly the blocks of the piece and end.
- *Piece writer.* Pieces in any order, writes that overlap and fail, a return while goroutines still write.
- *Tracker client.* Retries over a lossy network, one deadline that successive goroutines set and clear.
- *uTP socket.* Handling an acknowledgement may send a packet again, which may wait for room by receiving, which handles
  further acknowledgements: the send window changes under the loop that reads it. Sequence numbers wrap, and
  acknowledgements come late, twice and in any order, one of them perhaps for the reply to the Syn, which has the number of the
  first packet. No packet may leave the window unacknowledged, and each call must end when the remote is silent.
- *uTP delays.* The clock starts again from zero every 71 minutes, in the middle of differences and ages; packets are
  stamped again when they are sent again, by setters that turn numbers round and one that writes to a field not its own.
- *Messages.* A writer that for some messages writes nothing, refuses, or writes something else than it was given, and
  a reader that only has lengths to find the next message by, on a connection that ends anywhere. The bitfield is
  counted from the highest bit of bytes that the torrent does not fill.
- *Parsers.* A parser that fails in the middle should leave the input to the next alternative; on a `BencInput` it
  cannot, since all inputs share one reader. Ends of input, zero, and the many ways to repeat.

The lines where these hazards bite are listed under `hazards` in `PROJECT.json`, each with its properties.

## 2. The modules

| module | models | proofs |
|---|---|---|
| `Geometry` | the arithmetic of `MetaInfo`, as operators of the three sizes | `GeometryProofs` |
| `BlockRequests` (extends `Geometry`) | `PiecesState`, `Queue`, `ReqPiece` | `BlockRequestsProofs` |
| `Pieces` | the pieces both halves of `Start` count by | |
| `WorkPool` | abstract: a pool of work items shared by workers | |
| `Swarm` (extends `Pieces`, implements `WorkPool`) | `Start` and its workers | `StartProofs` |
| `PeerDownload` (extends `Geometry`) | `DownloadPiece`, `handleMsg` | `PeerConnProofs` |
| `PieceWriter` (extends `Pieces`) | the collecting half of `Start` | `StartProofs` |
| `Tracker` | `GetPeers`, `Connect`, `Announce` | `TrackerProofs` |
| `UtpSocket` | `connect`, `SendTo`, `RecvFrom`, `Flush`, `Close` and what they call, on the sending side | `UtpSocketProofs` |
| `UtpPacket` | headers, their setters and getters, and which packets are let through | |
| `UtpDelays` (extends `UtpPacket`) | stamps, base and current delays, round-trip time | `UtpDelaysProofs` |
| `MessageChannel` | abstract: messages come out whole and in order | |
| `Wire` (extends `Geometry`, implements `MessageChannel`) | `Marshall`, `ReadMessage`, `ReqBitFields`, `handleMsg`, `Bitfield` on bytes | `PeerConnProofs` |
| `MCWire` (extends `Wire`) | a file of which no two bytes are alike | |
| `Parsec` | the combinators, as functions from positions to results | `BencodeProofs` |
| `Bencode` (extends `Parsec`) | `BencStr`, `BencInt`, and laws of the combinators | `BencodeProofs` |
| `BencEnc` | `Encode` and `marshall` | `BencodeProofs` |
| `BencCodec` (extends `Bencode`, uses `BencEnc`) | encoder and parsers on one stream: what is encoded, whole or cut short, and bytes nobody encoded, for both kinds of input | `BencodeProofs` |
| `MCBencode` (extends `BencCodec`) | the structs that are run | |

The other modules are checked directly. Definitions marked "Slip" in a comment are no part of the model: each is a
plausible mistake in the definition after it, and replacing that definition by the slip must make a named property
fail (`mutants` in `PROJECT.json`).

### Geometry

Operators of the constants `Size`, `InfoPieceLen`, `BLOCK_LEN`, named as in the code. `NumPieces` is the length of
`PiecesHash` in a well-formed torrent. The single-file case: `MetaInfo.Size` with a list of files takes the lengths
from it, and everything after it is the same. TLC sees these operators at work in `BlockRequests`, `PeerDownload` and `Wire`; that pieces
and blocks tile is proved.

### BlockRequests

`reqd` and `recvd` are the sets of blocks whose flags are set. `ReqPiece` takes the queue and the flags by value: what
it takes off the queue is back when it returns, while its writes to the flags reach the shared arrays; the model
therefore never shortens a queue. `needed` is not a query, since it resets `Reqd` when all is requested; that
reset is part of the action that calls it (`ReqdAfterNeeded`). The error of the write is dropped in the code, so that a
request may be marked and not sent (`written`). Calls are atomic: the types have no lock, and no caller exists that
would interleave them. `inFlight`, `asked` and `overtaken` are not in the code; they are the wire and two
history variables.

### Swarm and WorkPool

One process per peer with the program counter of `downloadPiece`, and `Start`. The append to `Torrent.clients` is two
steps, a read and a write of the slice, because nothing holds `Torrent.mu` (`overlapped`, a history variable, has the workers whose two steps
were not alone); torn slice headers are not modelled, and
two appends into one backing array lose an element as two that allocate do. Nothing sends on `pChan` and nothing
receives from `errChan`, so that a worker with an error, and `Start` once it collects, wait for ever. What then becomes of the
program is not modelled; `AllAsleepOnlyWhenServed` says of the workers that they do not bring one another to a halt over the
channel of requests while any of these is unserved.

The constant `HandshakeParses` needs a word. `ParseHandShake` calls `binary.Read` with a `uint8` instead of a pointer,
which always returns an error; behind it, it reads to the end of the stream and then writes through a nil pointer. As
the code stands no worker gets past it. The constant says whether a handshake can succeed: FALSE is today's
program, whose behaviours (every worker fails, reports, and waits) are among those with TRUE, since there too any
handshake may fail. The runs set it to TRUE, to check with them the code that will run once those lines are repaired; the
theorems hold for both.

`WorkPool` is what the channel of requests promises: an item is in the pool, in one worker's hands, or taken on. `Swarm`
maps the pool to the elements of `reqChan`, what is assigned to `held`, and what is taken on to `dropped`, the requests
for pieces the peer has, with which the loop does nothing.

### PeerDownload

One call of `DownloadPiece`. The connection states of the code are combined with a bitwise and, and the model keeps
their numbers: `ChkdIntd`, `UnChkdIntd` and `Chkd` are all 0. A connection is open, past its deadline, or closed by a
`Choke`. A failed read is reported and then handled as a nil message, which panics (`pc = "panicked"`). Reporting is a send on
`errchan`, for which somebody must receive: `Report` may happen and need not, since the channel the repository makes has no receiver.

### PieceWriter

`writing` holds the goroutines of the errgroup with the place each writes to; `file` what is at each piece's offset.
Bytes are "good" or "bad", since nothing but a hash could tell more, and the hash is never computed. On a short piece
`Start` returns while goroutines still run. Its deferred `Close` makes the writes fail that have not begun; those inside their
system call (`begun`) finish, so that the file may change after the return.

### Tracker

`main` is the caller of `req()`, `trial` the goroutine it started, and `resets` counts the deferred
`SetDeadline(time.Time{})` calls of goroutines that have reported and not run them. `deadline` is that of the one
socket. The same actions serve `Connect` and `Announce`, which share the code but for two things: the buffer
`Connect` writes to is nil (`BufferMade`), and a successful trial of `Announce` reports nothing (`Signals`). Time is
abstract: an armed deadline may pass at any moment, except that a duration of zero has passed when it is set; `Duration`
is kept exactly, since `2^n` in Go is an exclusive or. A deferred call may come as late as the scheduler likes; a run
in which it comes after the next trial's `SetDeadline` is what `ConnectEndsUnlessRaced` excepts and `connect_hangs` shows.

### UtpSocket

One socket, from `connect` or accepted by `NewSocketFromRaw` (`conn`: "dialed" or "listening"; `WriteToUDP` fails on the
first kind, `Write` on the second, and the code calls both). `stack` holds the `sendPacket`s that are active inside one
another, each with its packet, its `maxInFlight`, and the `pktLossDetected` of the `handleStatePacket` around it. Only the
innermost reads from the network; `at` says whether it tests its loop condition or is in a read. When it returns, the
`handleStatePacket` around it runs to its end (`EndOfState`), in the same step, since nothing else happens in between.

Packets have absolute numbers, 0 being the first after connecting, and the sequence number of packet n is
`Nr(n)` = (`base` + n) mod `W`. The code sees sequence numbers only, and the properties tell packets apart by
their own. The remote is honest: it acknowledges numbers it has received, in whatever packet it was that had them, and any such
acknowledgement, old or new, may be the next packet read, any number of times. A number may be in two packets (`Numbered`): the reply of an
accepting socket to a Syn has the number of packet 0 (`socket.go:650`, `:710`), and a remote like this code acknowledges it in all
that it sends from then on (`:655`). Packet 0 may therefore leave the window, and `Flush` return nil, although it was lost; `UnackedKept` and `FlushMeansAcked` are
about the numbers acknowledged. The remote may also send junk, Resets, Syns and Fins.

It is assumed of the caller that it sends on a socket that is connected, or was. `SendTo` itself refuses only a closed one (`socket.go:506`);
nobody has a socket in `SynSent`, since `connect` has not returned it, and one in `New` has no address to send to.

The constant `Waits` needs a word, as `HandshakeParses` does. `recv` sets its deadline to
`Duration(t).Milliseconds()` from now, with t the timeout as a plain number: t nanoseconds in whole milliseconds, which is 0
(`socket.go:359`). So after the handshake no read hears anything, and `Waits` is FALSE of today's code. With TRUE the
model shows what is behind the read, and contains every behaviour of FALSE. The theorems hold for both.

A first data packet panics (`insertIntoBuffer` indexes the last element of an empty buffer), so the receiving side ends
in "panicked"; a packet with an extension fails `chectExts`, so that selective acknowledgements have no effect. Sizes are in
units of a segment. Round-trip times only choose timeouts, and a timeout may come at any time; what they are is `UtpDelays`'
subject. Data with the number of the last packet dropped is not inserted, and does not panic: it is answered (`RepliesToData`).

### UtpPacket and UtpDelays

A packet is the record of its header. The code turns numbers round in every setter and back in every getter; the digits of a number
have base `D`, 256 in the code, so that a small `D` keeps what `invEndUint32` does. `setTimespanDiff` sets the timestamp, and so overwrites
what `setTimestamp` wrote before it: a packet sent carries the delay of the remote as its timestamp, and a delay measured from it is
a difference of two unlike things. The model does the same, and the properties are about what is done with the values, not about
what they mean. A setter rewrites the whole header with one field changed, which is a record with one field changed.

`UtpDelays` is a connected socket on which packets are made, stamped, sent again and acknowledged, and the clock runs. Waiting for
room, timeouts and what is counted are `UtpSocket`'s; here they are time passing and packets being read, with the active
`resendLostPacket`s on a stack (`resends`). `epoch` counts how often the clock has started again and `periods` what was measured for which
base delay: both are history. The average over samples (`ewma`, floating point) only decides what the round-trip time is measured to be,
which is any number of `Rtts`; `rttVariance` stays 0 in the code, so that `rtt` grows by a quarter of what it is off, up to
its overflow. `chectExts` walks over the extensions without ever reading their types, so that it refuses every packet that
has one; the loop over a selective acknowledgement behind it, which would not end, is not modelled.

### Wire and MessageChannel

One direction of a connection: bytes. `Write` is any message this client can construct, marshalled as `Marshall` does it; `WriteForeign` the
messages other clients write and this one does not. `Break` cuts the connection and with it up to `MaxLost` bytes; `ReadBreaks` is a read
that finds the end or its deadline, at any point. `ReadMessage` is two steps, a length and a body, since bytes may arrive in
between. Each message read is handled: the first by `ReqBitFields`, which wants a bitfield, those after it by `handleMsg`.
The pieces sent are those of `Geometry`, in its blocks, with the bytes of `File`. `Shares` is what the remote has, `HavePieces` what it may
announce beside that, pieces past the end among them. `WireAssumption` is what the format takes for granted: bytes are bytes, the pieces shared
are pieces, and numbers of pieces and lengths of messages fit into their four bytes.

`MessageChannel` is what both ends count on. `Wire` implements it with `channel` mapped to the messages written and not yet read, as `Arrives`
says they arrive: a request has three numbers and a port two bytes, whatever the payload was.

### Parsec and Bencode

A parser is a function from the position where it starts to its `PResult`: error kind, result, position of `Rem`.
`shared` tells the two kinds of `ParserInput` apart. On copies (`TestInput`, and what `parsec.go:22` describes) a parser
that fails gives its caller the position it was called with. On a `BencInput` the copy is the same reader, so that
whatever is returned is where the last byte was read. `Kept` is that difference and the only place that knows it.
A parser that calls `Car` at the end of the input panics, and one that repeats a parser that takes nothing does not
return; both are kinds of results in the model, and pass through every parser around. A result may be nil without an error (`Nil`), as
`Number`'s is for a zero at the end of the input; the type assertion in the folds panics on it (`Asserted`).

An int is at most `MaxInt`. `Number` multiplies and adds in ints, which wrap (`Wrap`, `IntOf`): a length that does not fit is taken for
another, or for zero and so for no number, and behind a minus sign it may come out positive. `BencInt` calls `strconv.ParseInt` and drops its
error, which leaves the largest int for what is larger (`ParseInt`). `NumbersFit` says of an input that no number in it is too large; what
`StringsAsWritten` and the choice in `InputsAgree` promise is promised of such inputs, by the first but for the empty string, of
which code and comment disagree (`EmptyStringParsed`), while `IntsAsWritten`, `CombinatorsAgree` and
`FailureKeepsInput` hold of all.

`BencList` and `BenDict` are left out with a reason: each calls the other's constructor when it is constructed, before any
byte is read, so that a call of either overflows the stack. `manyInt` and `manyStr` are the lists `BencList` would try first.

`BencEnc` is the encoder: a value is its kind and what reflection finds in it, and encoding gives the bytes that were written,
also those before an error. `marshall` calls itself on what is in a value; in the model it is a recursive function over depths up to
`Nest`, in which what is nested deeper counts as not supported. `WithParts` is one call of it, given what the calls inside it wrote.

`BencCodec` puts both on one stream. It starts from what is encoded of a struct, or from any beginning of it, and lets any bytes be
added to an input that is not a whole encoding. `EncodedIsParsed` asks the parsers for each field where it was written. They read it, with
these exceptions: a negative integer is written and refused; the empty string is left to `EmptyStringParsed`; an unsigned integer too large for an int is read as
the largest int (`ReadAs`, the error `bencode_parser.go:116` drops); and of the `e` and the space that end a slice (`benc_enc.go:65`) the
space is left on a shared reader, and both on copies. Of a map the values are written and no keys (`benc_enc.go:70`); no dictionary
can be parsed to compare that with, nor a slice of anything but integers or strings.

## 3. The runs

| run | question and answer | bounds |
|---|---|---|
| `block_requests` | Do indices stay in range? Is a received block asked for again only when a reset overtook its answer? Are requests spread evenly? Is the torrent completed, failed writes and resets notwithstanding? Yes. | two connections, three blocks in two pieces, the last short; queues of 4, so that a piece can be queued twice or all blocks once; one in flight on each, so that two peers hold requests at a reset; counts to 2, so that an endgame round fits |
| `swarm` | Is the request channel a pool, and never full for a worker that puts back? Is a request that all can serve taken? When the workers halt, is all served (unless none got as far as the loop)? Is a connection missing from `Torrent.clients` only if its append overlapped with another? Yes. | two workers, so that one acts while the other races; three pieces, so that the order in the channel matters; every bitfield |
| `peer_download` | Are the requests the blocks of the piece, one ahead of the reads, all made on return, none after a choke? Does the loop end, with everything asked for or an error to report? Yes. | a piece of four blocks with a short last one; bitfield of two bits, and a Have past its end; four reads |
| `piece_writer` | Does nil mean complete? Does `Start` return when all pieces have come? Yes. | three pieces |
| `tracker` | Is the deadline always taken off in the end? Do trials not overlap? Does `Announce` follow a reply? Does an answered `Connect` end, and an unanswered one unless the race took a deadline off? Yes. | the eight trials of the code; two deferred calls outstanding |
| `connect_hangs` | finding 1: the race | as above; `BufferMade` = TRUE, not today's code |
| `utp_socket` | Is what is in flight counted, in order, and kept until its number is acknowledged? Does a `Flush` without error mean acknowledged? Do calls end? Yes. | sequence numbers modulo 6 with three packets, so that old acknowledgements and the number before the first are all distinct from the packets but wrap; an accepting socket draws 0, 3 or 5 for its first number (`FirstNrs`): the initial `lastAcked` itself, the other side of the circle, and one that wraps at the second packet; a remote window of 3, so that the window fills at 2 or 3 packets; four packets heard, so that three duplicates trigger a resend whose wait hears one more; two active `sendPacket`s |
| `never_written` | finding 2: packets in the window that were never written | the code's `Waits` = FALSE; two packets, modulo 8, any first number |
| `wire` | Are messages read whole, in order and as written, wherever the connection breaks? Do blocks land where they were cut from the file? Is the bitfield the set of announced pieces? Yes. | a file of 4 bytes in pieces of 3, blocks of 2: a short block in the middle of the file, and a short last piece; what depends on the sizes otherwise is proved for all of them; two messages on the way, so that one can be taken for the end of another; Haves for a piece without its bit and for one past the last byte; breaks that take up to 2 bytes |
| `utp_delays` | Are base delays the minima of their periods, and periods as long as they should be? Are exactly the old samples removed? Do packets keep their numbers? Yes. | digits of base 2, so a clock of 16 ticks that starts again once; steps of 3, against an age of 4 and a history of 2; two packets, three measurements: enough for a second period, a minimum that is not the first, a dropped base delay, and a sample from before the restart |
| `parsers` | Are strings and integers parsed as written? Do shared readers and copies agree on them? Is a failing parser's input kept, on copies? Do the combinators agree with each other (`CombinatorsAgree`: five ways to repeat, guards, literals, numbers)? Is what the encoder writes read as what it was? Yes, but for the exceptions named in `EncodedIsParsed`. | every input of at most four of the bytes `-` `0` `1` `3` `:` `i` `e`, of both kinds, with 15 as the largest int: signs, leading zeros, lengths beyond the end, missing terminators, and numbers of two digits and more on either side of the largest int; and the encodings of all structs of up to two of thirteen fields, a struct and slices among them, whole and cut short anywhere: one value after the other, and failures in the middle of the second |
| `empty_string` | finding 3: a string the parser has a branch for is refused | as `parsers` |

`FirstNrs`, `MaxQueue`, `MaxInFlight`, `MaxAsked`, `MaxRead`, `MaxResets`, `MaxMade`, `MaxHeard`, `MaxDepth`, `MaxPending`, `MaxLost`, `MaxEpoch`,
`MaxWindow`, `MaxTaken`, `MaxLen` and `Nest` are bounds of
the models and not of the code. `MaxMade` + 1 < `W` is an assumption: a socket that has made 65535 packets numbers them anew,
and the window of the code, which never holds more than a few, is then all that keeps them apart.
`asked` and `nread` saturate at theirs, and the properties about them hold up to it. No run uses symmetry. Deadlock is not checked
where the program stops (a returned call, a full download, a connection nobody reads any more).

No run has a type invariant: it is proved, which is the stronger statement. Every property that is run is about something that can go wrong.

### Findings

Each is a run of one property that a line of the repository states, and that the code breaks. The first two are latent: other
faults stop today's program before it gets there, as said with each.

1. `udpt.go:78`: a late deferred call takes the deadline off the next trial (`connect_hangs`). Today `Connect` panics before its first
   trial (`udpt.go:57`); the trace is of the code with the buffer allocated (`BufferMade` = TRUE).
2. `utp/socket.go:644`: an accepting socket draws its sequence number at random and leaves `lastAcked` at 0, so that for half
   of the numbers `sendPacket` takes every packet for acknowledged, writes none, and all are put in the window (`never_written`).
   The trace has everything as it stands (`Waits` = FALSE) but the regular expression of `socket.go:14`, on which the package panics when it is
   initialised.
3. `parsec.go:665`: zero is no number, so that the string `0:`, for which `bencode_parser.go:76` has a branch, is refused (`empty_string`).

What else was seen, and is in the models as the code has it, without a run of its own:

- `torrent.go:106`: two appends to `Torrent.clients` that overlap lose a connection; `ClientsLostOnlyInRace` says that this is the only way.
  Today no handshake succeeds (`handshake.go:57`), and the append is not reached.
- `utp/socket.go:650`: the reply to a Syn has the number of the first packet. The acknowledgement of the reply empties the window of that
  packet, and `Flush` returns nil although the packet was lost: the Syn is heard and replied to, packet 0 is written and lost, and the remote
  acknowledges the reply.
- `bencode_parser.go:32`: a parser that fails on a `BencInput` has taken what it read from the one reader, while `parsec.go:35` has the input
  unchanged.
- `parsec.go:792`, `:862`, `:849`: `Count` and `AndThen` return the remainder from before one of their parsers, and `ThenDiscard` that of
  the first, while `parsec.go:34` has the matched bytes removed.
- `pieces.go:96`: the endgame copy forgets the requests in flight; a block whose answer comes after it is received, counts as
  not requested and is asked for again. `OnlyOvertakenAskedAgain` says that this is the only way.
- `torrent.go:139`: a request for a piece the peer has is dropped; `hows/protocol.md:73` has the piece requested.
- `pwp.go:24`, `pwp.go:116`: the state awaited before a request is also that of a choked connection, so that requests go out
  before any Unchoke.
- `queue.go:14`: `make([]formats.Ibl, 1)` puts a zero request at the head of each queue.
- `formats/message.go:129`: `Choke`, `Unchoke` and `Interested` are never written, since the ids of their case are or-ed into one.
- `torrent.go:178`: pieces are not verified; a nil from `Start` says where pieces are, not what they hold.
- `udpt.go:57`: `Connect` writes to a nil buffer (`BufferMade = FALSE`: the model ends in "panicked" at once).
- `udpt.go:71`: `2^n` is an exclusive or: the waits are 45, 0, 15, 90, 105, 60, 75 and 150 seconds.
- `udpt.go:80`: the first trial drains the buffer, and later ones send no request.
- `udpt.go:112`: a success in the eighth trial is thrown away.
- `udpt.go:189`: a successful trial of `Announce` reports nothing, so that an answered `Announce` waits for ever.
- `utp/socket.go:465`: a timeout with an empty window sends a FIN in any state; the comment before it promises a resend request.
- `utp/socket.go:826`: the next packet is sent again on every acknowledgement but the third duplicate.
- `utp/socket.go:286`: the FIN has the sequence number of the next packet of data; data read while `SendTo`, `Flush` or
  `Close` waits is not kept for the caller; a closed socket becomes "ResetReceived" on a late Reset.
- `utp/socket.go:14`: the regular expression compiled at package initialisation is malformed, and that panics.
- `utp/packet.go`: headers are written with version 0, which the parser refuses.
- `utp/packet.go:264`: `setTimespanDiff` overwrites the timestamp that was set on the line before it is called (`socket.go:897`).
- `utp/packet.go:426`: no packet with an extension is let through; `utp/bitstream.go:38`: were one, reading its bits would not end.
- `utp/socket.go:958`, `:985`: after the clock has started again the running base delay and older samples have negative ages:
  the base delay is kept for the whole of the next 71 minutes, and old samples stay. `PeriodsOfAMinute` and `SamplesOfOneRtt` except just that.
- `utp/socket.go:1071`: the minimum of the base delays starts at zero, so that it is always zero.
- `utp/socket.go:1034`: the round-trip time moves by the size of the error, never down.
- `formats/message.go:286`: `NewHave` does not put its index into the message, which `Marshall` then refuses; `:143`: and the index would be
  written over the id.
- `formats/message.go:344`, `:349`: a piece message has the id of a request, and its block is written over its index and offset.
- `utp/socket.go:623`: what another connection's packet carries is acknowledged, before its connection id is looked at.
- `pwp.go:61`: no deadline is set for the handshake; `pwp.go:131`: the message that could not be read is handled, and is nil.
- `utp/socket.go:359`, `:427`: the deadline that is over at once, and the buffer indexed when empty (see `UtpSocket` above).
- Behind `bencode_parser.go:32`: on a `BencInput` the list body `i1eie` is taken for a list of one, the broken element being swallowed. `InputsAgree` says
  what holds in spite of it, of a choice that tries integers first.
- `parsec.go:457`: `TakeWhile` panics when the input ends in what it takes, so that `BencInt` panics on `i12`.
- `parsec.go:653`: a length too large for an int is taken for another, without an error; `bencode_parser.go:116` drops the error of `ParseInt`.
- Behind finding 3: a zero at the end of the input is a nil without an error, on which `FoldMany0` and `FoldMany1` of `Number` panic
  (`parsec.go:988`, `:1010`); `Number().Many0()` on copies that end in zeros does not return.
- `bencode_parser.go:175`: `errors.Is(err, UnmatchedErr())` compares with a new pointer and is never true.

### Fairness, and why the code justifies it

Goroutines that can run do run: weak fairness on their steps. Beyond that:

- `BlockRequests`: a connection is unchoked again and again, its answers come, and a write does not fail for ever
  (strong fairness on sending each block, because choking and the reset disable it in between). These are assumptions
  about peers and network, without which no download completes.
- `Swarm`: dialling and the bitfield have a timeout of five seconds and so end one way or the other. The handshake has
  none, and has no fairness: a silent peer holds its worker, and the liveness properties say what is promised in spite
  of that.
- `PeerDownload`: the deadline passes, after which reads fail; the peer owes nothing, and nobody need receive from
  `errchan`. `LoopEnds` therefore says that the loop comes to its end or to an error to report, not that the call returns.
- `PieceWriter`: writes begin, and succeed or fail. Pieces need not come.
- `Tracker`: deadlines pass, a read with a datagram on the socket returns; the tracker owes nothing.
- `UtpSocket`: the caller's goroutine runs, and deadlines pass; the remote owes nothing. A socket nobody has connected to
  waits for good, which `CallEnds` excepts.
- `Wire` and `UtpDelays` state no fairness: whether bytes arrive is up to the network, and the waits are `UtpSocket`'s.

## 4. What is proved

For all values of the constants, from the assumptions named in the modules (sizes positive, at least one piece, sets of connections finite).

- `PiecesTileHolds`, `BlocksTileHolds`. From one lemma on quotient and remainder (`DivMod`) and its uniqueness: a piece
  is either full or the last, and in both cases the two computations agree; the same again for blocks.
- `TypeCorrect`, `OnlyOvertakenAskedAgainHolds`, `BalancedRequestsHolds` (`BlockRequests`). The balance needs the
  strengthening that `asked` is the same number r for all missing blocks whose flag is clear and r + 1 for the others,
  saturation apart; the overtaking property that a block in flight is requested or was overtaken.
- `Invariance`, `PutBackNeverBlocksHolds`, `AllAsleepOnlyWhenServedHolds`, `ClientsLostOnlyInRaceHolds`, `Refinement` (`Swarm`). `reqChan` has no duplicates and shares none with the
  workers' hands, so that with a request in a hand fewer than `NumPieces` are in the channel. The same invariant makes
  each step of `Swarm` one of `WorkPool` or a stutter. For the list of connections the strengthening (`ClientsInv`) is that a connection whose append
  was alone is also in every copy an append under way is about to write, and that of two appends under way both have overlapped.
- `RequestsAreBlocksHolds`, `ReturnMeansAllRequestedHolds` (`PeerDownload`). The k-th request begins at
  (k - 1) `BLOCK_LEN`, and `begin` is cut to the piece only by the last; rests on the lemmas of `GeometryProofs`.
- `OneRequestAheadHolds`, `NothingAfterChokeHolds` (`PeerDownload`). Requests and reads are counted against where the loop stands;
  a Choke closes the connection for good, and a write to a closed connection is an error and no request.
- `NilMeansCompleteHolds` (`PieceWriter`). Pieces received are accounted for: in place, being
  written to their own place, or lost with an error kept; and `got` is the number of pieces no longer unsent, so that
  `got = NumPieces` means all.
- `DeadlineComesOffHolds`, `OneTrialAtATimeHolds`, `AnnounceFollowsReplyHolds` (`Tracker`). The request is either in the
  buffer or sent once; a trial that sends or reads has room for its deferred call; an answered `Announce` waits for
  good, which is needed because a trial after it would break the accounting of reports.

- `TypeCorrect`, `InFlightCountedHolds`, `WindowInOrderHolds`, `UnackedKeptHolds`, `FlushMeansAckedHolds` (`UtpSocket`), for every
  modulus, set of remote windows and depth of nested `sendPacket`s. The hard step is the end of a `handleStatePacket` whose
  window other acknowledgements have changed since it began: it looks for `lastAcked`, which is no longer the number it was
  called with. The invariant says that `lastAcked` is then still one the remote has sent (`LastAckedHeard`), and numbers that are
  less than `W` apart differ modulo `W` (`NumbersDiffer`), so that what is found in the window, if anything, is acknowledged.
  That what is acknowledged was written, as a packet of data or as another with its number, is an invariant of its own
  (`AckedCarried`): the remote has received every number up to `acked`, and nothing that was written is forgotten.
  `Control` and `Fresh` say which `sendPacket`s can be active in which call and that an unconnected socket has sent nothing.
  The assumption `MaxMade` + 1 < `W` carries this, as said above.

- `BaseDelaysAreMinimaHolds`, `PeriodsOfAMinuteHolds`, `SamplesOfOneRttHolds` (`UtpDelays`), for every base of digits, and
  with it every width of the clock, every history and every age. The first says of each period that the base delay is an element of what was
  measured and a lower bound of it, and follows the two lists as one grows and the other is shifted. The second needs that
  `lastRollover` is the moment the last period was begun, and that time (epoch and clock together) never goes back: within an epoch the
  comparison of clocks is one of times, and across a restart no new period begins before its age is over, a negative age being
  no age. The third is about one step: the samples of the current epoch behind one that is kept are kept.

- `WireInvariant`, `WireImplementsChannel`, `BitfieldIsSetHolds`, `BytesInPlaceHolds` (`Wire`), for every file, cut of the torrent,
  bitfield and number of messages on the way. Nothing in the state says where a message begins, so the invariant has to: `Aligned(at, ...)` is
  that there are positions `at` of the stream, one for each message pending and one more for the end, between which the bytes are those
  of the messages, and the reader is at the first, or behind the length of the message that begins there. Writing appends a position
  (`Marshall` never writes a length other than that of what follows: `CodeOf...` per message, and a `Have` of the wrong length or a
  `Choke` writes nothing at all), a break takes bytes and leaves the positions before it where they are, and a read of a length or of a body
  moves all of them back by what was read (`Shifted`). From it a step that delivers a message delivers the first one pending, which is
  the refinement of `MessageChannel`. `BitsInv` ties the bitfield to the pieces announced byte by byte: a
  byte is the sum of the weights of its bits, of which `Set` adds one that is not in it. `BlocksInv` says of each
  block what was cut for it; that it lies where it belongs, beside the others, and that a byte of the file is in one of them, are divisions of its place by
  the length of pieces and by that of blocks (`PlaceDivides`, `PlaceExists`), on the lemmas of `GeometryProofs`.
- `NumbersInOrderHolds` (`UtpDelays`). Sequence numbers wrap at `D` squared, so that order is order of distances: `OrderInv` says how far
  `seqNr` is ahead of each packet of the window, at least 1 and less from packet to packet. The guard on the length of the window keeps the
  first from being overtaken. That stamping leaves a number alone is `StampForgets`: the digits are turned round twice
  (`Inv16Twice`), for every base of digits.

- `StringsAsWrittenHolds`, `IntsAsWrittenHolds`, `FailureKeepsInputHolds`, `InputsAgreeHolds`, `CombinatorsAgreeHolds` (`Parsec` and `Bencode`), for
  every input, on copies and on a shared reader, for every set of bytes and every largest int. Each is of the form
  `TypeOK` => property, where `TypeOK` only says that the input is a sequence of bytes; `ParsersHold` states all five as invariants of
  `BencCodec`. Of each parser a lemma says what it
  returns, and that it keeps the contracts the ones around it need: `IsParser` (it returns a result at a position not before its start),
  `WantsInput` (it fails at the end of the input), `KeepsInput` (on copies it leaves the input when it refuses it). The combinators
  preserve them for any parser, so that the parsers of bencode inherit them.
  What a repetition, a fold of digits or a literal computes is recursion over the input. The induction is over a set instead of an operator:
  `AllNumbers` (a set of numbers that has 0 and every successor is `Nat`) and `AllPositions` (from the end of the input backwards), both from
  the well-foundedness of <, are cited with the set of positions where the claim holds. In `InputsAgreeHolds` the case that needs work is a
  `BencInt` that fails late on a shared reader, after which `BencStr` must not find a string in the middle of it.
- `RepeatsAgreeAlways`. The law behind `AllRepeatsAgree`, for any parser with `IsParser` and `WantsInput` and not only for the ten that are run:
  the elements that `Many1`, `FoldMany1`, `Count` and `AndThen` take are those of `Many0`, except that `FoldMany1` panics when one of
  them is nil, and only then (`AssertedMany`). The elements of `Many0` form a chain of results
  (`MatchesChain`), each begun where the one before it ended. `WantsInput` is needed: `Many0` looks for the end of the input first, and `Count` does not.

- `EncodedIsParsedHolds` (`BencCodec`), for every set of values, of any depth, and on both kinds of input. The assumption `CodecAssumption`
  says what a value is, that the bytes the encoder writes are bytes, and that the length of a string is an int, as `len` is in Go. The invariant
  `EncodedInv` says that the input is what is written of `encoded`, or that nothing was encoded whole. The argument has three parts.
  - What is written. That `marshall` is the function its definition asks for is shown depth by depth, with `AllNumbers`. A value that
    is written without an error at one depth is written alike when there is more (`DeeperSame`), so that `marshall` of a value is `WithParts` of the `marshall`s of what is in
    it (`MarshallIs`), and depth disappears from the rest.
  - What is read of one field. From where the bytes of a field stand in any input: `IntStands`, `NegativeStands` and `StringStands`, on what
    `StringsAsWrittenHolds` and `IntsAsWrittenHolds` rest on, and the digits of `FormatInt`, which are those of the number (no leading zero,
    hence a length that can be read). For a list, `ManyStands` follows the elements, `ElementsStand` says that each stands where the one before
    it ended, and `ListIs` that `manyInt` refuses a list of strings so that `manyStr` is tried: on a shared reader it must do so without having moved.
  - Where a field stands. `MatchesRow`: of bytes written one after the other, the k-th part stands where `StartOf` says.

Only model-checked: all liveness (`EverythingArrives`, `CommonPieceTaken`, `LoopEnds`, `CallEnds`,
`ReturnsWhenDelivered`, `AnsweredConnectEnds`, `ConnectEndsUnlessRaced`), which rests on fairness and is out of the prover's reach.
Every invariant and every action property of a passing run is proved.

## 5. What is not modelled

- In `utp/`: the reordering buffer behind its panic; selective acknowledgements, those read behind the check
  that refuses them (`ExtIter`), those sent behind the buffer that stays empty (`buildSelectiveAck`, `setSack`); `stream.go`, which passes calls on to a socket; payloads; the averages in
  floating point.
- The layout of the handshake: `ParseHandShake` returns an error before it has parsed a field. That it fails, or some day may not, is `Swarm`'s
  `HandshakeParses`.
- Lists and dictionaries of bencode, which cannot be constructed; `Decode`, a stub; the hash of the metainfo, for which `Encode` is
  given a struct and not a pointer, and panics (`metainfo.go:55`, `benc_enc.go:22`).
- `ParseAnnounceResp`: no execution reaches it, since `Announce` never leaves its loop with a reply. It would return a response without peers.
- Context cancellation: `driver.go` passes `context.TODO()`.
- `Piece selection` (empty functions), `parser.go` (unused), command line and torrent loading (straight-line I/O).
- Memory effects of data races beyond lost updates, contents of files other than in `Wire`.

## 6. Plan

Done: the modules of section 2, in the order of their rows. What is left, the most important first:

1. Composition of `PeerDownload` with `PieceWriter` through `pChan`, as the code will have it once pieces are sent, with the
   abstract specification "a piece on the file is one a peer has delivered in full".
2. The receiving side of the socket as written behind its panic: a module of its own with the buffer given a first
   element, checked for order and for no duplicates, against an abstract stream (prefix delivery).
3. Two `UtpSocket`s and the network between them, so that the remote is the code itself.
