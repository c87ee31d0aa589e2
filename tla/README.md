# async-stomp: a verification project

TLA+ models of async-stomp, an asynchronous STOMP 1.2 client in Rust, with the
TLC runs that check them and the TLAPS proofs of their main properties. All
line numbers refer to `src/src/client.rs` unless another file is named.

## 1. The system

| Part | State it keeps | Operations | Modelled by |
|---|---|---|---|
| Write pump and its caller (l.41-128, 322-410) | the mpsc channel and its open flag, `Pump.pending`, the oneshot acks, the write half | `send`, `feed`, `send_heartbeat`, `flush`, `close`, drop; `write_pump`'s loop | `WritePump`, `Outbox`, `Pipe` |
| Supervision of the server (l.189-204, 268-320, 412-447) | `supervise` (ticker and tolerance), `Monitored.last_read`, the read buffer | `poll_next`, `poll_server_timeout`, `Monitored::poll_read` | `Supervision` |
| Handshake and wiring (l.784-965) | the settings, the wiring of the socket, the negotiated intervals | `connect`, `establish`, `accept_connected`, `negotiate`, `ClientTransport::new` | `Handshake` |
| Direct transport (l.51-76, 322-362) | the write buffer of `Framed` | the same `Sink` without a task | `Direct`, `Pipe` |
| Timing of our own beats (l.379-389) | the timeout around `rx.next()` | when a beat is sent | `KeepAlive` (time), `WritePump` (order) |
| Codec and parser (l.1229-1316, `frame.rs`) | the read buffer and the size bound | `decode`, `encode`, `parse_frame` | `Frame`, `Codec` |
| Escaping and conversion (`frame.rs`, `lib.rs`) | none | `to_frame`, `to_client_msg`, `to_server_msg`, header escaping | `Frame`, `Messages`, run by `Codec` and `Outbound` |
| Graceful disconnect (l.991-1021) | none of its own | send DISCONNECT, wait for the receipt, close | `Disconnect`, over `Pipe` |
| Builders (l.598-759, 861-880, 1038-1155) | the settings | setters, `subscribe`, `msg` | `Outbound`; also the initial states of `Handshake` |
| TLS and sockets (l.467-534) | tokio, rustls | delegation | external: the socket of `WritePump` and `Direct`, the inputs of the others; which name TLS verifies is in `Handshake` |

How they interact. `connect` opens the socket, performs the handshake and
builds a `ClientTransport`. When the connection may beat by itself the socket is
split: the read half stays with the transport, the write half moves into the
task `write_pump`. The application reaches the task through a channel of
(item, oneshot) pairs and learns the result of a write from the oneshot. The
task beats when the channel has been silent for the negotiated interval. On the
reading side the transport stamps every successful read and, on a ticker,
compares the stamp with twice the incoming interval. Any other connection keeps
one framed socket, which the application's own futures read and write.
`disconnect` works through either, by `send`, `next` and `close`.

What is hard about it. The application may drop any future at any await point,
with a write half way through the task. The peer may take part of a frame and
stall, or reset, or close. The task's end and a new item can cross. The decision
to split the socket is taken before the server has said whether it wants
heart-beats. The application may stay away from the stream for longer than the
tolerance while heart-beats pile up in the socket. `PROJECT.json` lists these
hazards one by one, at the line where each bites, with the properties that would
catch it going wrong.

## 2. The modules

### `Outbox`: the promise

One variable, the verdict of each item accepted. An item is accepted when all
the earlier ones are settled; it is delivered only behind items that were
delivered; a verdict stands. It is what the documentation of `ClientTransport`
promises of `send` (l.137-138) and what the comment in `establish` (l.915-916)
says of the sink.

### `Pipe`: what both transports promise

Frames reach the socket in the order they were accepted, none skipped, none
twice; how many may be on their way is left open. It is weaker than `Outbox`,
which only a connection with a pump implements, because a direct one buffers.
`WritePump` and `Direct` are both shown to implement it (`PipeSpec`), and
`Disconnect` uses its actions as its `Sink`, so that it need not be checked over
each transport in turn. What has arrived is the subsequence of the items whose
last piece is on the wire; `Selection` defines it, for both transports.

### `WritePump`: the task, its channel and its caller

| Model | Code |
|---|---|
| `op`, `ret` | the caller's current future and how the last one ended |
| `pending`, `ack[n]` | `Pump.pending` and the oneshot behind it |
| `queue`, `open` | the `futures` mpsc channel of one slot and its open flag |
| `pump` | `write_pump`: waiting on the channel, writing, closing, done |
| `wire`, `unread`, `sock` | the chunks the socket took, those in the kernel, the write direction |
| `Call`, `Cancel`, `Drop` | creating a future, dropping it at an await point, dropping the transport |
| `PollReady`, `StartSend`, `PollFlush`, `PollClose` | `Pump::poll_ready`, `start_send`, `poll_flush`, the `Sink`'s `poll_close` |
| `Recv`, `RecvNone`, `Timeout` | the three outcomes of the `timeout` around `rx.next()` |
| `Write`, `WriteDone`, `WriteFail`, `Exit` | `writer.send(item).await`, the ack, the `break`, `writer.close()` and the drop of the receiver |
| `PeerRead`, `PeerReset` | external: the other end of the socket |

`poll_ready` and `start_send` are two actions although one poll of `send` runs
both, because a user of the bare `Sink` may stop between them; whatever the pump
does in between is harmless to what the second finds, and the model shows it.
A frame takes `FrameChunks` writes; a heart-beat is one byte and takes one.
`items`, `seen` and `wire` are history variables.

The receiver's drop is atomic with the end of the task in `Exit`. An item handed
over while the task awaits the close of the writer is therefore in `queue` when
the receiver is dropped, and its oneshot is cancelled there.

### `Direct`: the same calls without a task

| Model | Code |
|---|---|
| `op`, `ret` | the caller's current future and how the last one ended |
| `buffer` | `Framed`'s write buffer (external, tokio_util) |
| `wire`, `unread`, `sock` | as in `WritePump` |
| `PollReady`, `Drained` | the Direct arm of `poll_ready`: a buffer at the boundary is flushed first |
| `StartSend` | the Direct arm of `start_send`: the item is encoded behind what the buffer holds |
| `Write`, `WriteFail`, `Flushed`, `Closed` | `poll_flush` and `poll_close`, down to the socket through `Monitored` and `TransportStream` |

A future that is dropped leaves its bytes in the buffer, part of a frame
perhaps, and the next call carries on with them: this is what the properties are
about. The buffer may exceed the boundary by one frame and no more.

### `KeepAlive`: when the pump beats

The loop of `write_pump` in discrete time: `deadline` is that of the `timeout`
around `rx.next()`, armed in every pass. A write takes up to `MaxWrite`, and
what was written reaches the broker within `MaxDelay`, in order. `framed` and
`heard` are what the two promises about heart-beats are measured against. The
channel, the acks and the socket are in `WritePump`; here an item handed over is
in the one slot or in the hands of the task.

### `Supervision`: watching the server

Discrete time. `inbox` holds what arrived unread (a beat, or the bytes that
complete a frame), `last` is `Monitored.last_read`, `tick` the ticker, `reader`
tells whether the application is parked in `next()`, and `out` what the poll
made in this step returned. `Incoming` is the negotiated interval;
`ServerSends` fills the inbox, and `TimePasses` moves the clock of `Clock`, which
`KeepAlive` shares. `Poll` is the whole of `poll_next`: a frame still in the
read buffer, a read that completes one, the end of the stream, or `Pending`, and
only then `poll_server_timeout`.

What makes a read `Pending` is tokio, and external. It asks the kernel only when
its I/O driver has reported the socket readable (`readiness`, set by `Driver`),
and a read that empties the socket clears this. An application that kept its
thread busy may poll before the driver has run: nothing is read, whatever the
kernel has, and l.285-286 judge the old stamp in the same call (`PollPending`).
When the task's cooperative budget is used up the same happens with a socket
that was reported, and the ticker is put off as well (`PollExhausted`, `spent`);
tokio then wakes the task at once, but the verdict has been given. `reported` is
history: when the driver last reported anything, which is what the alarm is
measured against, independently of the stamp.

### `Handshake`: from the settings to a transport

All settings and all answers, over a small set of intervals. `beats` is the
decision of l.840, taken before the answer; `SendConnect` splits or frames the
socket; `ReadReply` reads the answer together with any number of the frames
behind it, checks it and, through `Established`, negotiates, spawns the pump and
sets up supervision. `DropConnect` drops the future anywhere on the way. The
server answers what it likes, goes on sending, and closes. `OpenTcp` and
`OpenTls` open the socket; `verified` is the name that rustls was given, which
`server_name` takes from the settings or from the connected socket.

### `Disconnect`: ending a session

`disconnect` over `Pipe`: `SendDisconnect` and `Flushed` are its `send`,
`NextFrame`, `NextNone`, `NextTimeout` and `FalseAlarm` what `next` may yield, `Close` its
`close`, which on a beating connection leaves the socket to the task
(`Shutdown`). The server handles frames in order, answers the ones with a
receipt, refuses one with an ERROR and closes, pushes MESSAGEs, closes, or goes
mute. `Cancel` drops the future at any await point, and the application may call
again, under the same id or another. `NextTimeout` reports a mute server, which
a fair `disconnect` comes to; `FalseAlarm` is the error that `Supervision` shows
possible while the server beats, and no fairness makes it happen.

Two assumptions on the application are in the model, and the properties need
both: it follows STOMP in sending nothing behind a DISCONNECT but another one,
and it does not give `disconnect` an id that it also uses for other frames.

### `Frame`, `Codec`: from bytes to messages

`parse_frame`, `parse_header`, `get_content_length`, `to_server_msg` and
`serialize` are the operators of `Frame`. `Codec` runs `decode` over them, under
the loop of `FramedRead` (external: read, decode until nothing is complete, read
again; an error ends the stream). A byte
string is a sequence of symbols: the bytes that mean something to the parser,
and runs of bytes that do not. A cut inside a run leaves the parser where a cut
behind it does, so cutting between symbols is cutting anywhere. The server's
frames are encoded with `Serialize`, with either line ending, and what the
stream yields is compared with the frames before they were encoded. winnow's
combinators are written out as what they do on partial input: `More` is
`ErrMode::Incomplete`, `Bad` a failure; `repeat` stops at a header that fails
and leaves its line to `line_ending`.

Header names are escaped by `serialize` but not unescaped by `to_server_msg`;
the frames of the run have names that need no escape. Values in
`extra_headers` stay as they came, escaped, while the same values in a MESSAGE's
`headers` are unescaped; the model has both. `Legible` says which frames a server
may send: names that need no escape, in CONNECTED values that stay on their line,
and a content-length that, where it is there and a number, is that of the body.
Junk is anything the parser rejects at its last symbol and not before, which is
how the model knows where a bad item begins. The numerals of the model go to 4,
so a content-length covers up to four symbols; a body without one, and with no
NUL in it, is of any length. What a program gets that goes on
polling a stream that has ended with an error is not modelled.

### `Messages`, `Outbound`: from a builder to the server

`Messages` adds the client's own messages: the headers of every kind of
`ToServer` in the order `to_frame` writes them (`Layout`), the fields that are
not text (`TextOf`, `ValueOf`, `parse_heartbeat`), `add_extra_headers`, and
`to_client_msg` for the way back. `Outbound` is the application: it calls the
setters of a `Subscriber` or a `Connector` in any order and repeatedly, or
writes a message out by hand; the message is encoded, and the bytes are read
back with the parser and `to_client_msg`. What was meant is computed from the
history of the calls (`Meant`), not from the builder. `server`, `virtualhost`,
`destination` and `id` are written field by field, as in the code, because there
lies the risk: they rebuild the builder under another type.

`Writable` says which messages the property is about. Texts are any strings,
except that those of a CONNECT, which has no escapes, stay on their line; names
of headers need no escape, since nobody unescapes them; a header that bears the
name of a field can stand for one (an `ack` that is no ack mode makes the server
refuse the frame, and rightly); a content-length comes with a body and is its
length; a body with a NUL has at most four symbols, as far as the numerals go.

Definitions whose comment begins with "Fault:" are not part of a specification:
each is a plausible mistake in the definition after it, and shows that the
property named in `PROJECT.json` would notice it.

## 3. The runs

| Run | Expects | What it shows |
|---|---|---|
| `pump` | pass | no write result is lost or misreported, frames reach the wire whole and in order, the first failed write is the last one tried, every future that is polled ends, a closed or dropped transport ends the task and shuts the socket down, the pump implements `Outbox` and `Pipe` |
| `pump_feed` | violation | `feed` returns before its message is written |
| `pump_stalled_peer` | violation | a peer that stops reading keeps a dropped transport's task and socket alive |
| `direct` | pass | the same without a task: dropped futures tear, lose and repeat nothing, the buffer is bounded, results are honest, futures end, also on a broken socket, `Pipe` is implemented |
| `keep_alive` | pass | the broker hears from us in time, and no beat follows a message within an interval |
| `supervision` | pass | silence is reported only when the I/O driver has reported nothing within the tolerance or the budget kept the stream from reading; a waiting reader hears of silence within three intervals |
| `handshake` | pass | the wiring suits the outcome, both ends agree, failures leave no task, nothing sent behind the answer is lost, with TLS nothing is sent before the server is verified, `connect` ends |
| `handshake_custom_header` | violation | a custom heart-beat header is offered to the server but not negotiated against |
| `handshake_tls_name` | violation | without `tls_server_name` the certificate is verified against the peer's address, not the host in `server` |
| `disconnect` | pass | Ok, and the shutdown of the socket, mean that the server processed everything sent; a reported refusal was made; `disconnect` ends whatever the server does |
| `codec` | pass | however the bytes are cut, the messages sent are the messages read, each as soon as it is complete; only what is no frame, no message or cut off makes the stream fail |
| `outbound` | pass | no setter disturbs another, and the server reads every message as it was meant |

The four violations are disagreements between the code and a sentence of its
documentation, comments or tests; `PROJECT.json` quotes each sentence, and the
trace TLC prints shows what the code does instead. Five more sentences say
a little more than the code does, where a property of a passing run has the
exact statement:

- A server that is quiet for more than twice the interval need not be reported:
  the check is made on ticks, so only one of three intervals always is
  (`SilenceIsNoticed`).
- The stream may also fail with "No data from server" for a server that beats
  (l.266-267 have it fail "if the server has been quiet"): an application that
  comes back after more than twice the interval and polls before tokio's driver
  has run, or with its budget used up, gets the error with the beats unread in
  the kernel. What the driver has reported in time does count
  (`ReportedIsHeard`).
- A frame over `max_frame_size` is handed out when the read that takes it over
  the bound also completes it; what is bounded is the buffer of a stream that
  waits (`BoundIsFair`).
- A connection whose server declined our heart-beats does not beat, and still
  writes through the task and the channel, since the socket was split before the
  answer (`AutomaticIsHonoured` has what does hold).
- `add_extra_headers` looks up the names that exist before it adds the first, so
  an extra header given twice is written twice; a reader takes the first
  (`ReadAsMeant`).

**Bounds, and why they are enough.** `pump` has three items, so that a
cancelled send, the send that inherits its result and a third one coexist; two
automatic beats; frames of two chunks and a kernel buffer of two, so that the
pump can be stopped inside a frame, which is the only place where being stopped
differs. `supervision` runs for seven intervals of two units: past the tolerance twice,
with even and odd offsets between reads and ticks; three unread arrivals allow a
beat before and behind a frame, reported or not. `handshake` has the intervals 0, 1 and 2 (off
and two different ones) in all four places, and two frames behind the answer.
`codec` has every sequence of up to three items out of nine frames, two
heart-beats and four malformed items, which puts a heart-beat between two frames
and every pair next to each other; the size bound lies between the sizes of the
frames, so that a frame over it is met complete, incomplete, and behind others.
`direct` has four items and a boundary that falls inside the second
frame, so that `poll_ready` meets a buffer below, at and above it with part of a
frame written. `keep_alive` runs for five intervals, with writes and a network
that each take up to two thirds of one, so that beats, messages and arrivals
overlap in every order. `disconnect` has two frames before it and three calls
under two ids: a dropped call, one that finds its late receipt, and another.
`outbound` has five calls of setters, enough for both required fields with
others before, between and behind them and one repeated, and messages of every
kind with texts that need escaping, look escaped or are empty.
The proofs remove the bounds on items, beats, chunks, buffers, boundaries,
intervals, time, frames, calls, cuts and the length of texts, headers and bodies,
for every safety property of every run.

**Fairness.** `CodeFairness` in `WritePump` is weak fairness of the caller's
polls and of the task: tokio polls a task that was woken, and every waiting
point of this code registers a waker (the channel, the oneshot, the socket).
Nothing obliges the caller to start a call, cancel or drop. `FairSpec` adds that
the peer reads on; `StallSpec` leaves that out, and is the difference between
`ClosedIsShutDown` and `DropClosesConnection`. In `Handshake` the client's steps are fair and the
server answers or closes: `connect` has no timeout. In `Supervision` the clock
does not move while a woken reader waits to be polled (`Woken`, `TimePasses`): this
timely executor, which also runs the I/O driver while the reader is parked, is
what makes a bound in time meaningful. An application that is
merely slow is `reader = "away"`, which lasts as long as it likes, the driver
being as late as it likes meanwhile. `ReportedIsHeard` does not rest on this
assumption; `SilenceIsNoticed` does. `KeepAlive`
makes the same assumption of the task, and that a write ends within `MaxWrite`:
while the peer takes nothing no bound holds. `FairSpec` of `Direct` is that of
`WritePump` without a task: the caller's polls and a peer that reads on. In
`Disconnect` the client's polls, the `Sink` and a server that stays up are fair;
nothing makes the server close or go mute. There `Supervised` is TRUE: without
an incoming interval a server that goes mute keeps `disconnect` waiting for
ever, and nothing in the code promises otherwise.

`CHECK_DEADLOCK FALSE` is set throughout because each of these systems really
stops: a dropped transport, a finished handshake, or the bound on the clock.

## 4. The proofs

`WritePumpProofs` proves, for all values of the constants that satisfy
`PumpAssumption`, the safety properties of `pump` (`TypeCorrect`, `OneWrite`, `NoneUnseen`, `SendHonest`,
`FlushHonest`, `FramesStayIntact`, `WireOrdered`, `FailureEndsTheLoop`) and
`Refinement`, that `Spec` implements `Outbox`.

The inductive invariant `Inv` is needed because none of these is inductive by
itself. Its key part, `InFlightInv`, ties an open oneshot to the one place where
its item can be: in the channel, or in the hands of the task; and it says that
only the newest item can be open, and that it is then `pending` unless the
transport is gone. From it follow the single write in flight and, with
`FailedInv` (after a failure the task has left its loop), that nothing is
written behind a torn frame. `WrittenInv` ties "ok" to the last chunk on the wire and back;
`StartedInv` and `LastChunkInv` say which items have left chunks on the wire and
that the last chunk is where the task says it is, which makes `FramesIntact` and
`WireInOrder` inductive. `ReportInv` carries a verdict from the oneshot to what
the future returned. `FailureEndsTheLoop` adds `FinalInv`, that an item is
cancelled only with the channel closed for good: the item that slips in behind a
failure is the last. For the refinement every action is mapped: `StartSend`
to `Accept`, `WriteDone` to `Deliver`, `WriteFail` and `Exit` to `GiveUp`, the
rest to stuttering; that `Exit` gives up at most one item is `OneWriteInFlight`.

`HeartbeatProofs` is about time, on both sides. Of `Supervision` it proves
`WatchTypeCorrect`, `ReportsAreHeard` and `SilenceBounded` for every
interval and without a bound on time or on the inbox. The invariant adds to the
types that nothing was reported later than the stamp once the readiness is
cleared, or the socket empty (`ReadInv`), and that a parked reader was judged
when it parked (`TickerInv`): the stamp was at most the tolerance old at a moment
no earlier than one interval before the ticker's next tick, or just now if the
reader's budget had run out.

`PipeRefinement` needs more: `PipeInv` adds that an item is on the wire exactly
when it is among the first so many (`ArrivedInv`), which turns the subsequence
that `Pipe` sees into a prefix.

**Induction.** `Lemmas` carries the proofs about recursive functions. The
library's induction rule takes a predicate, which the provers do not
instantiate; here it is stated with a set in its place (the set of the numbers
for which the claim holds), and follows from the well-foundedness of `<`. A
recursive function is, to the prover, a choice among the solutions of its
equation, so that the lemmas show first that there is a solution, step by step,
then that a solution has the values claimed. `Selected`, `FlattenSeq`,
`Unescape` and `ParseHeaders` are reasoned about in this way.

`DirectProofs` proves `BufferIsBounded`, `StreamIsWhole`, `ResultsTellTheTruth` and
`Refinement` (of `Pipe`) for every frame length, boundary and socket buffer. The
invariant speaks of one stream, the pieces on the wire followed by those in the
buffer: it holds every item encoded so far, to its end, in order, no piece twice
(`StreamInv`). A dropped future leaves the stream as it is, a write only moves
the border inside it. `OpInv` says how far each future can have come, which
bounds the buffer: an item is encoded only behind the test of the boundary.

Of `KeepAlive`, `HeartbeatProofs` proves `BeatsOnlyWhenIdle` and `ConnectionStaysAlive` for every
interval, every bound on a write and on the network, and without a bound on
time. `PumpInv` ties the deadline to the last thing written: at most one interval
after it, with no message within an interval before it. `NetInv` is about what is
in flight: neighbours are at most an interval and a write apart, the first
as far from what the broker heard last, and none is overdue.

`HandshakeProofs` proves `ChoiceSuits`, `TaskHasTransport`, `BehindIsKept` and
`PasscodeIsCovered` for any set of intervals and any number of frames behind the
answer, and `EndsComeToAgree`, that both ends agree, when no custom heart-beat
header is given. That hypothesis cannot be dropped: `handshake_custom_header`
is the counterexample. `AgreeAsRequested` says exactly where the line is: the
ends agree whenever what was offered is what was negotiated against, and the
proof has the lemma that `negotiate`, which tests each side for zero, is the rule
of STOMP. The invariant records, for each point of `connect`, which of socket,
name, wiring, answer and task exist (`PhaseInv`, `TlsInv`), and that unread bytes
and read buffer together are the answer and what came behind it (`ArrivalInv`).

`DisconnectProofs` proves `DisconnectIsHonest` for any number of frames, calls,
ids and pushes. `AnswerIsTrue` is not inductive because the receipt of a dropped
call may arrive for a later call with the same id. `OrderInv` (no SEND behind a
DISCONNECT) makes such a receipt good enough, and `InboxInv` keeps for every
receipt and every ERROR on its way what the server had done when it sent it. The
two assumptions on the application in section 2 are used here, the one on ids as
`AppReceipts \cap Byes = {}`.

**The parser.** `Lemmas` proves about it what both directions need, for frames
with any number of headers and texts of any length. `EscapedIsOneField` and
`EscapeRoundTrip`: an escaped text has no line ending and no colon, and reads
back as it was. `ParserIsStable`: once the parser has found a frame, or failed,
bytes behind do not change its mind, except for the line ending it takes along
behind the NUL. `ParseSerialize`: what `serialize` writes is parsed to the last
byte, as the frame it was. `FrameInStream` puts these together: of a frame in a
stream every proper part makes the parser ask for more, and the whole makes it
find that frame, whatever follows. `ReadBack` is the conversion behind it. The
argument goes line by line: `Lines` says where each header stands in the bytes,
and the induction runs over the headers from the last one up, which is how
`ParseHeaders` is defined.

`CodecProofs` proves the four properties of `Codec` from `Inv`. Its part
`StreamInv` says that what was read and what is in transit are the bytes of the
script; `DecodeInv` that some first items were dealt with and what was yielded
are their messages, that the buffer is a slice of the bytes behind them, and that
only line endings lie in between (`Holding` while decoding, `Waits` when nothing
in the buffer is complete, `Stopped` at the first bad item);
`BufferInv` relates the buffer to the size bound and to the end of the stream.
`CutsAreInvisible` is not inductive because it compares what was yielded with
what has arrived, and says nothing of where in the buffer the next frame
begins: this is what `DecodeInv` adds. The line ending that may follow a frame,
and may be a heart-beat, is the hard case, since a cut can fall before it, after
it, or in the middle.

`OutboundProofs` proves `SettersAreIndependent`, for any values and any sequence
of calls, from `BuilderInv`, which relates every field of the builder to the
history of the calls, and `ReadsAsMeant`. For the latter `MessageReadBack` does
the work, for one message: `AllHeaders` is what `to_frame` writes, and the lemmas
say which names it has and which value a reader fetches for each (`AllIs`); the
frame can be sent and its body ends where it should (`FrameFits`), so
`ParseSerialize` gives it back; then fields, other headers and body are compared
one by one (`GivenIs`, `ExtraRead`, `NamesRead`, `BodyRead`). `MeantInv` carries
it to the specification: what is built is what the calls asked for, it is
writable, and the wire is its encoding.

The attempt corrected the statement. It had judged a header by the type of a
field of that name even in a message of another kind, so that a SEND with a
header `ack: x` would have counted as misread; `Given` now has the text there,
and the run has such a message.

The assumptions on the constants are those of the modules: counts and bounds are
natural numbers, a frame has at least one piece, an interval is positive where
beats are timed, 0 ("off") is an interval of the handshake, and the tables of
values have the setters as their fields; those of `Codec` and `Outbound` are in
section 2. That "1.2" is a string is among them because the provers do not know
it. Every run evaluates them.

Only model-checked are the liveness properties (`CallsSettle` of `WritePump` and
of `Direct`, `ClosedIsShutDown`, `ConnectSettles`, `DisconnectSettles`), since
fairness is out of the prover's reach.

## 5. What the models leave out

- The text of frames, except in `Frame`, `Messages` and `Outbound`. There a run
  of bytes without meaning to the parser is one symbol, commands are upper-case,
  and UTF-8, which text has to be, is left out.
- TLS: a step that succeeds, for a name, or fails. The close-notify alert that precedes the
  shutdown of a TLS socket is part of `Exit`, and a peer that does not read is
  assumed not to block it.
- tokio's cooperative budget on the writing side, where a poll that is pending
  although there is room is repeated at once and nothing is judged meanwhile.
- The millisecond granularity of timers. `Supervision` measures in units.
- Widths: intervals are `u32` milliseconds and are only compared and doubled as
  a `Duration`, which does not overflow.
- When a reset socket is noticed by the reading side: `Supervision` has the
  clean end of the stream only, since an error ends it in the same way.

- Bytes that are no frame while `disconnect` waits: `next` then yields an error,
  as it does for a mute server.
- The examples and the integration tests: read as documentation, not modelled.
- That `connect` has no timeout is a hazard without a property: the code promises
  no bound, and `ConnectSettles` assumes that the server answers or closes.

## 6. The plan

Done, in this order: `Outbox` and `WritePump`, its proofs, `Supervision`, its
proofs, `Handshake`, `Codec`, then `Pipe`, `Direct`, `Disconnect`, `KeepAlive`,
`Frame` and `Messages` split from `Codec`, `Outbound`, TLS in `Handshake`, the
proofs of all these, and last those of the parser, of `Codec` and of `Outbound`.
Every operation of the library that changes state is an action of some module,
and every safety property and refinement that a run checks is proved, without
the run's bounds; the four runs that expect a violation excepted.

What could come next: header names that need an escape, which the code writes
escaped and reads raw; UTF-8; and numerals beyond 4, digit by digit.
