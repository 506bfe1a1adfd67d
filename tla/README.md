# A TLA+ model of wsx

wsx is a WebSocket client library in C++23: a synchronous `Client`, an
asynchronous `AsyncClient` for the `arc` scheduler, and below both a codec that
works on two growing ring buffers. This directory holds TLA+ modules for its
core logic, the configurations that model-check them with TLC, and proofs
checked with TLAPS. Paths below are those of the repository.

## 1. The system

| Component | Source | State | Operations |
|---|---|---|---|
| CircularByteBuffer | `src/CircularByteBuffer.cpp` | `m_data`, `m_start`, `m_end`, `m_endAlloc`, `m_size` | write, writeWindow + advanceWrite, read, peek, skip, clear, reserve, reserveUntil, copy, move; `WrappedRead::skip` |
| UTF-8 validation | `src/utf8/core.h`, `isValidUtf8` | none | find_invalid |
| Frame reader | `src/Internal.cpp` `_readOneMessage`, `_readAndReassembleMessage`, `reassemble`, `Message::validate` | `m_rbuf`, `m_fragments` | readFromBuffer |
| Frame writer | `src/Internal.cpp` `_writeMessage`, `makeCloseFrame` | `m_wbuf` | write of one message |
| Client | `src/Client.cpp` | `m_transport`, `m_rbuf`, `m_wbuf`, `m_fragments` | send, ping, write, flush, recv, close, closeNoAck |
| AsyncClient | `src/AsyncClient.cpp` | the same | the same with awaits; tryFlush, closeSync |
| Read window | `ClientBase::rwindow` | capacity of `m_rbuf` | one window per receive |
| Handshake | `generateRequest`, `parseResponse`, both `doHandshake` | `m_rbuf` | connect |
| URLs, options | `src/UrlParser.hpp`, `fromUrl` | none | parseUrl |
| Transports | `src/SyncTransports.*`, `src/AsyncTransports.*` | a socket | send, receive, trySend |
| SHA-1, random bytes | `src/sha1.hpp`, `_genrandom` | none | once per handshake |

How they interact. The application calls a client; a client writes frames with
the frame writer into `m_wbuf` and drains it into the transport (`flush`: peek,
send, skip, until empty). `recv` asks the frame reader for a message from
`m_rbuf`; when there is none it opens a window in `m_rbuf`, lets the transport
fill a part of it, and asks again. `recv` also sends: a Pong for a Ping, a Close
for a Close, a Close with a code for a violation, each followed by the same
`flush`. `close` writes a Close and then calls `recv` until the server's comes.
Every failure is a returned `Result`; only the ring buffer and `rwindow` throw.

Where it is hard:

* ring arithmetic with equal pointers for empty and full, and relocation on
  growth;
* a stream cut anywhere by the network, control frames between fragments, text
  that is valid only when its fragments are joined, and the right close code
  for each violation;
* short sends, sends and receives that fail half-way, at any point of a
  close that may itself be interleaved with pings, data and violations;
* a response that arrives in parts, with the first frames in its last one, in
  the buffer that the reader goes on with; an accept key that is a hash over
  two blocks;
* in `AsyncClient`, other tasks running while one is suspended in the
  transport: they share `m_wbuf` and `m_transport`. The header says that `send`
  and `recv` may be called concurrently.

What makes each part correct:

* ring: seen from outside it is an unbounded byte queue; windows never overlap
  unread bytes; reserve opens the window it promises;
* validation: exactly well-formed UTF-8 is accepted;
* reader: for every way of cutting the stream the caller gets the messages that
  were sent, in order, up to the first offence, which earns the code the
  protocol says; nothing complete is left waiting;
* client: bytes go out in order, once; no data follows a Close; pings are
  answered; a close that says it was orderly was, and every close disconnects
  and ends;
* connecting: the request goes where the URL says; only an answer to this
  client's key opens the connection, and a right one is not refused; a response
  cut anywhere is read to its end, and what follows it in the same read is
  kept; the buffer does not outgrow its limit;
* async client: with one task, the synchronous client; with a sender and a
  receiver, the same as long as the receiver has nothing to send.

The list of hazards with their lines is in `PROJECT.json`.

## 2. The modules

### Ring buffer: `RingOps`, `CircularByteBuffer`, `ByteQueue`

`RingOps` has one operator per member function, on a record of the five
members; pointers are offsets from `m_data`, memory from `new uint8_t[]` holds
`Uninit`. Growth copies as `growTo` does, with `m_end` left at `m_endAlloc`
where the code leaves it. `CircularByteBuffer` is the object under any sequence
of calls (constructor, write, window + advanceWrite, read, too long a read,
clear, reserve, reserveUntil, going on with a copy, with the buffer it was
moved to, or with the one it was moved from). `ByteQueue` is what it promises;
the refinement maps `queue` to the live bytes (`Contents`). `SkipView` is
`WrappedRead::skip`, a public member that nothing in the library calls. Not
modelled: `advanceWrite` past its window (a caller's error), overflow of
`size_t`.

### Validation: `Utf8`

`find_invalid` and what it calls (with the masks and shifts of
`get_sequence_x`), beside the Unicode table of well-formed sequences, as the
bounds of the bytes of each of its rows. It reports only how far the decoder
gets; which error stopped it is not looked at by the library.

### Frame reader: `Frames`, `FrameReader`, `MessageStream`

`Frames` are the pure parts, on byte sequences: header checks in the order in
which bytes become available, lengths, the front message, `validate`,
`reassemble`, the choice of the close code. `FrameReader` is the loop of
`recv` around them with the fragments and the network: one action per way a
turn of `_readAndReassembleMessage` may end. `m_rbuf` is a byte sequence here,
which is what the ring's refinement allows. `pc` holds the close code once the
stream has failed. Errors carry only what `handleProtocolError` tells apart.
`MessageStream` is the promise, stated on frames without any buffer. The
masking key that a masked frame carries is never read: such frames are refused.
A frame's payload is at most `MAX_BUFFER_SIZE` (128 MiB), in any of the three
length forms: a longer one never gets into the buffer whole, since `rwindow`
throws first (`ReadWindow`). What an announced length near 2^64 does is modelled
in `Handshake`.

### Frame writer: `FrameWriter`

`_writeMessage` on the ring of `RingOps`, byte for byte: header with one of
three length forms and a key, the payload masked in blocks of the scratch array
(`ScratchSize`, 1024 in the code), one `write` each; `makeCloseFrame` in front
of it, and the turns of `flush` that drain the ring span by span. A message
that does not validate leaves everything as it was. The promise is stated from
the other side: `FramesOf` is a server that cuts the byte stream into frames
after RFC 6455 and unmasks them. `m_wbuf` starts without memory and is never
reserved, so it grows from `DefaultCap` (64 in the code) by doubling. The blocks
of a payload are a function defined by recursion, as the loop over them is.
`RoomAssumption` says that the model's bound on the capacity leaves room for
`MaxMessages` frames: it belongs to the model, since in the code the ring is
bounded by memory alone.

### Clients: `Connection`, `Client`, `AsyncClient`

A byte is its position in the stream of all bytes ever written, and all frames
have `FrameSize` bytes: what matters is which bytes go out, in which order.
Incoming messages are those of `MessageStream`: data, ping, pong, close, or the
reader's error (`"Bad"`).

`Client`: below a public function sits one of two loops, that of `recv` or that
of `flush` entered for one of six reasons; `pc` names it, `call` the public
function, `result` what it returned. So `close` waiting in its inner `recv`,
answering a ping, is `call = "close"`, `pc = "pong"`. The transport may send
any part, deliver any part, or fail at any turn. `CallSendInvalid` and
`CallCloseInvalid` are the calls whose message does not validate (the second
also stands for a reason that `makeCloseFrame` has cut inside a character).
The application leaves Close frames to `close`; the library does not enforce
that, but its documentation gives them to `close`.

`Connection` is the promise of the sending half: frames accepted one by one,
bytes transmitted in order, no data after a Close, nothing after a disconnect.

`AsyncClient`: the same loops per task. `Uses` says which functions
each task may call. A task keeps the processor
(`running`) until it is suspended in the transport's `send` or `receive`
(`awaiting`); `span` is what `peek` gave to the pending `send`. After the await
the task skips what was sent, from whatever `m_wbuf` holds by then. Three
things that C++ leaves open are in the model: a span over memory that another
task has written to or reallocated may be sent as it was or as `Garbage`; a
skip of more bytes than there are throws (`fault = "out_of_range"`); a task
whose transport was reset resumes in a destroyed object (`fault = "destroyed
transport"`, an end of the program). `peek` returns up to two spans and `flush`
sends the first; the model gives the transport the whole buffer, of which it
may take any first part, so the shorter span is included. A `receive` that
returns 0 is not modelled: what the transports return at the end of a stream is
decided outside this repository.

### Connecting: `Url`, `HttpUpgrade`, `Sha1`, `ReadWindow`, `Handshake`, `Opening`

`Handshake` goes from the argument of `connect` to the first frames. `phase` is
how far the attempt is: the URL or the given options, the transport, the
request, the response (the loop of `doHandshake`), its parsing, and then
`"open"`, where the loop of `recv` takes frames from the same `m_rbuf`; or how
it ended. `waiting` separates the window from the receive that fills it. One
`Receive` is `receive`, `advanceWrite` and what the loop does with the bytes:
go on, or read the response out of the buffer. `View` is the `string_view` that
`doHandshake` builds from the start of the first span with the length of both.
Both clients have this code; that of `AsyncClient` suspends in between, but no
other task has the client yet.

A text is a sequence of tokens: a header name, a value, `": "`, and `"CR"` and
`"LF"` apart, so that a read may end between any two. The tokens are the bytes
of the ring. A frame is a head and as many tokens as the head announces, and
`FrameLen` is computed modulo `SizeMod` as `size_t` is: a length near the top
gets past the comparison with the buffer and ends in `LengthError`, the
exception of the payload's vector. Frame headers proper are in `Frames`.

* `Url`: `parseUrl` and `fromUrl`. What qsox's address parsers, `from_chars`
  and the resolver make of a text are functions given as constants.
* `HttpUpgrade`: the fields of `generateRequest`, and `parseResponse` by lines.
  Its checks come in one conjunction, because only "headers" or "error" is told
  apart by `doHandshake`.
* `Sha1`: `sha1.hpp` with its unrolled rounds, its sixteen-word schedule and its
  incremental buffer, beside the definition of FIPS 180-4. Words are pairs of
  16-bit halves, because TLC's integers are signed. The characters of the key
  and the GUID are spelled out in `MCHandshake`, where `AcceptKey` is the hash
  that the client computes; base64 is a name for each digest.
* `ReadWindow`: `rwindow` on the ring.
* `Opening` is the promise: an offer that is acceptable opens, anything else
  fails, and an open connection delivers the frames behind the answer. Its
  `Spec` is the safety part; `Settles` and `Delivers` say what must happen in
  the end.

## 3. The runs

`PROJECT.json` names a mutant (a plausible bug in one mapped definition) for
every property of a passing run; with it TLC finds the property violated.

| Run | Question and bounds |
|---|---|
| `ring` | Queue refinement, peeks, windows. Capacity up to 6, chunks up to 3 bytes, two byte values: all layouts (start before, after, at end; full; empty; two windows) and relocations out of each occur. |
| `utf8` | All strings up to 4 bytes over 21 bytes: the two sides of every comparison of the decoder, and a lead byte of every row of the table; four is the longest character, so every row and every truncation occurs. Every string of bytes is the theorem `DecoderExact`. |
| `reader` | Up to three frames of 19 kinds (fragments of one character, all three length forms, control frames, one frame per kind of violation), cut into reads in every way. Three frames are needed for a control frame between fragments. |
| `writer` | Two frames of eight kinds with two keys, and five kinds that are refused, drained five bytes or a span at a time: payloads around the sixteen bytes of the scratch array, one of the second length form, closes with a reason that is cut, also inside a character. The ring starts with four bytes, so it wraps and grows in the middle of frames. Lengths on both sides of 126, 256 and 65536 are read back by the formulas alone, since such frames are too long to explore. |
| `client` | Two application frames, three messages from the server, frames of two bytes (so that sends may be short): pings in the middle of unflushed data, a Close from either side first, failures everywhere. |
| `async_solo` | One task using every function, two frames and messages from the server: it does what `Client` does, with two functions added (tryFlush, closeSync); the stream stays intact, Ok means sent, and close ends. |
| `async_any` | A sender (send, tryFlush) and a receiver; one frame, two incoming messages. Safe until recv has to answer; the sender does not starve the receiver. Deadlock checking is off, because a crash ends the model. |

| `handshake` | Thirteen URLs (those of the table in `Client.hpp`, ports out of range, with a trailing letter or zero, no host, an unknown name) or given options; two nonces; twelve answers (accepted in another case and order, with frames behind, too long a frame, a wrong key alone or beside the right one, a header missing or broken, other codes, one that never ends), cut into reads at every token the window allows. The window is 4 tokens and the limit 32, so that the buffer grows from nothing through three doublings, wraps when frames have been taken, and meets the limit. The nonce of RFC 6455 is one of the two, and its accept key is checked. |

Deadlock checking is off where the model really stops: `reader` (all frames
sent and delivered, or the stream failed), `writer` (`MaxMessages` written and
drained), `async_any` and `handshake` (an attempt that failed, or a connection
whose server has sent all it had), and `window_limit`, which has the
specification of `handshake`.

Runs that show a disagreement between the code and what it says (the trace is
TLC's counterexample):

| Run | Finding |
|---|---|
| `client_recv_error` | "The error is fatal and the client will be disconnected": after a transport error in `recv` the client still has its transport. |
| `async_ping` | With one task in `send` and a Ping for the one in `recv`, both send the same bytes and both skip: bytes go out twice. |
| `async_reset` | With one task in `send` and a Close for the one in `recv`, the transport is destroyed under the sender. |
| `window_limit` | "Received data exceeds maximum buffer size": `rwindow` grows the buffer whenever the contiguous window is short, so the capacity reaches the limit and the exception comes with three bytes unread. |

Smaller ones have no run. `peek(0)` on a buffer that owns no memory fails its
debug assertion (no client does this). `closeSync` with an invalid reason leaves
the client connected, unlike `closeNoAck`. `writeWindow`'s comments take an
empty window for a full buffer, but after `reserve(0)` on a full buffer and a
read there is room and no window (no client does this either). A Close that the application builds itself with a
one-byte payload and gives to `send` or `write` makes `validate` read past the
payload (`src/Internal.cpp:562`): only received frames are checked before
(`CloseCodeReadable`), and `FrameWriterAssumption` excludes it. `tryFlush`
returns an error after it has sent a part, although its documentation promises
"an error if no data can be sent".

### Fairness

* `FrameReader`: weak fairness of parsing and of receiving. The caller goes on
  calling `recv`, and the network delivers in the end. Only
  `ReaderDelivers` uses it.
* `Client`: weak fairness of `Progress`: a running call goes on, since
  the loops have no other exit. The failures are not fair (a transport need not
  fail), nor are the calls (nothing obliges the application). A server that has
  read a Close answers it (`ServerAck`): without that `close` may wait for
  ever, as its documentation says.
* `AsyncClient`: strong fairness of each task's `Progress`. A scheduler gives
  every task that can go on its turn, but other tasks take the processor in
  between, so that `Progress(t)` is enabled again and again and not all the
  time.

* `Handshake`: weak fairness of `Progress`: the loops of `doHandshake` and
  `recv` go on, and bytes that are on the way arrive. Failures are not fair,
  and neither is the server: it need not answer, and does not if part of the
  request was never sent. What `Opening` promises in the end are leads-to
  formulas, and under this fairness the run checks them of the handshake:
  `HandshakeEnds` is `Settles`, `FramesDelivered` is `Delivers`.

## 4. The proofs

Each holds for every value of the constants, under the ASSUMEs of the modules,
which TLC evaluates in the runs. Where a theorem needs more than they say, the
hypothesis is named below.

`CircularByteBufferProofs`, for any byte values, chunks and capacities (from
`RingAssumption` and `ChunkAssumption`): `TypeCorrect`, `PeeksCorrect`,
`WindowsFree`, `ReservesOpen`, `SecondWindowsSuffice`, `ViewsSkip`, and
`RingRefinesQueue`, that the ring implements the byte queue. The inductive invariant is `RingOK`
itself: start, size and capacity determine `m_end` up to the one case in which
it stays at `m_endAlloc`, which is why it has two forms. Around it there is one
lemma per operation that says what becomes of `Contents`: writing appends,
skipping drops, growing keeps (in all four layouts). These lemmas are in
`RingProofs`, about the operators alone, so that other modules that keep a ring
can use them.

`FrameReaderProofs`, for any set of frames of bytes that fit the read buffer (from
`FrameAssumption`):
`TypeCorrect`, `FragmentsCorrect`, `CloseCodesReadable`, `NothingStranded`. `TypeOK` is not
inductive: the type of a reassembled message is that of its first fragment, so
the invariant adds `FragmentsWellFormed`. It needs the byte arithmetic of the
headers, since a frame in the buffer may be any bytes. For `NothingStranded` the
invariant is `InPlace`: what the reader holds, followed by what is on its way,
is a sequence of whole frames of those that were sent, and while it waits its
buffer ends inside the first of them. A step that takes a frame has to take exactly the
one at the front, which is where the length that `_readOneMessage` computes
meets the length the sender gave.

`ReaderRefinesStream` builds on it: the safety part of the refinement of
`MessageStream`, for the same frames. `FrontContent` reads header and payload back
from the bytes of a frame; `BelongingMessage` says, without the CHOOSE of
`MessageStream`, which message a frame belongs to, and `SameVerdict` that
`validate` refuses it where the stream does and with the same code (by
`DecoderIsExact`, since the stream judges text by the Unicode table). The
invariant `Standpoint` says which frames the bytes not parsed yet are (`Standing`)
and that those before them are accepted, that each one which completes a message
has led to a delivery, and that `m_fragments` joins to the pieces of the message
left unfinished, with its type, or is empty if there is none (`Caught`). Then
each action is one of the stream's or none: reading and keeping a fragment are
stutters, a message returned is the next delivery, an error the failure of
exactly that frame. `JoinedAppend` and `FlattenAppend` are about the folds
behind `JoinedData` and `FlattenSeq`, by induction over sets.

`FrameWriterProofs`, for any messages but a Close of one byte, any closes, keys,
scratch array, capacities and cuts of `flush` (from `FrameWriterAssumption` and
`RoomAssumption`): `TypeCorrect`, `MessagesReadBack`, `LengthsRead`, `LongReasons`. The invariant
`WInv` says that the wire followed by the ring's contents is the frames of the
accepted messages, one behind another (`FrameStream`). It is kept by
`RingProofs` (each `write` appends, each `skip` moves bytes from the ring to the
wire), by `FrameIsWritten` (the blocks of the scratch array join to the masked
payload, by induction over the blocks) and by the arithmetic of the three length
forms. `FrameIsRead` is the other direction: at the start of such a frame the
server finds its length, its key, and, because masking twice is the identity bit
by bit, its payload; an induction from the last frame back gives the list that
`FramesOf` computes. `LongReasons` assumes that no message that is written as it
is is a Close: such a message need not have gone through `makeCloseFrame`, and
the library gives closes to `close`. Its invariants are `RefusedInv` (what was
refused is a message or a close the application gave) and `RefusedForCause`
(`validate` refused it); that an ASCII reason is valid is the next theorem.

`DecoderExact`, in the same module since `Validate` rests on it: for byte
strings of every length, `find_invalid` accepts exactly the sequences of
characters of the Unicode table. Its lemmas are in `StreamLemmas`. First each
form is decoded where it stands: `ValidateNext` advances by one to four bytes if
and only if they are a row of the table (`CharShape`, `StepsOverCharacters`),
which is where the comparisons for surrogates, overlong forms and the last code
point are needed. Then an induction on the suffixes of the text, for the
recursion of `find_invalid` and for `WellFormedText` at once. It assumes that
the bytes which `MCUtf8` chooses are bytes, as its configuration does.

`ClientProofs`, for any frame size and number of messages (from
`ClientAssumption`): `TypeCorrect`, `ClosesDisconnect`, `OrderlyEndsFlushed`,
`PingsAnswered` and `ClientRefinesConnection`. The inductive invariant says where the bytes are
(`BytesInOrder`: the wire and then `m_wbuf` are the bytes 1, 2, ... up to the end
of the last frame written), which function runs which loop (`LoopOfCall`), that
inside a closing flush the Close is the last frame (`ClosePending`), and that
while the client is up a Close has been written only by a call that is still
running and will not give control back with the client up (`CloseIsLast`). The
last part is what excludes data after a Close: it relates the history of frames
to the loop a call is in, and neither part is inductive alone. `PingsAnswered`
adds `PongInv`: the Pongs written are the Pings taken, in order, and outside the
flush that sends one no Pong is left in the buffer. `Tags` is a recursive function
for its sake.

`AsyncClientProofs`, for any set of tasks, functions they call, frame size and
number of messages (from `AsyncAssumption`):

* `TypeCorrect`, if at most one task calls `recv` or `close`. Two receivers
  could both have been waiting when the first message comes, and the second
  would resume with a buffer that `TypeOK` says is empty; the documentation
  allows one.
* `AloneStreamIntact`, `AloneOkMeansSent`, `AloneNoFault` and
  `AloneImplementsClient`, if there is one task. The invariant `Stream` says
  besides the order of the bytes that a suspended task's transport is there and
  its span is still the whole of `m_wbuf` (`Live`): this is what an await may
  lose to another task, and what the runs `async_ping` and `async_reset` show
  lost. The refinement goes step by step: each step of the task is one of the
  synchronous client's, one of the functions added here, or, for a suspension,
  a stutter.
* `SafeInDocumentedUse`, for any number of tasks, if one at most writes or sends
  and the others call `recv` only, as the header allows. As long as the server
  sends data and Pongs only, a receiving task never writes, and `Stream` holds:
  `SafeInvariant` adds that nothing which must be answered is in the buffer or on
  its way, and that every loop is that of `recv` or of the sender (`QuietUse`).

`HandshakeProofs`, for any window and limit, URLs, keys and servers (from
`WindowAssumption`, `HeadAssumption`, `TextAssumption`, `AnswerAssumption` and
`DocumentedAssumption`), has four parts.

* The buffer: `TypeCorrect`, `ViewsInBounds`, `CapacitiesBounded`. The second is
  why `doHandshake` may read the length of both spans from the start of the
  first: the invariant adds to `TypeOK` that the buffer holds only received bytes
  (`HoldsBytes`), and that until the response is read they begin at offset 0
  (`AtFront`), which windows and growth keep. The third says that `m_rbuf` never
  outgrows `MAX_BUFFER_SIZE`, although `rwindow` tests the capacity only before it
  doubles: it holds because the limit is itself a doubling of the first capacity
  and twice the window fits it (`LimitAssumption`, true of 64, 4096 and 128 MiB),
  and its invariant `WithinLimit` says that the limit is always some doublings
  away. `PowersAssumption` states the arithmetic of powers of two that the
  provers do not compute.
* The answer: `RefusesRightly` and `ConnectingIsOpening`. The invariant `Story`
  says that what is in the buffer, followed by what is on its way, is the answer's
  bytes, that the blank line has not been seen while the loop goes on, and that
  afterwards it is the frames not taken yet and a part of one. A lemma on
  flattened lines says that the first CRLF CRLF of such a text is the one that
  ends its head, whatever the lines are, and another that splitting the head at
  CRLF gives the lines back; so `parseResponse` looks at exactly the lines that
  were sent. `FrameLen` finds a whole frame exactly when the front one is there.
  Then each step of `Handshake` is one of `Opening` or a stutter. `AnswerAssumption`
  is what a head is: no line has a CRLF in it, no header is empty, a frame is as
  long as it announces.
* The URL: `UrlsAreFollowed`. Its invariant `UrlInv` follows the parsed URL into
  the options and from there into the request. What a documented URL means is a
  constant, and `DocumentedAssumption` ties it to its text: the scheme, what is
  before the last colon, what is behind it, the path.
* The hash: `HashIsSha1`, for every message of less than 2^32 bits. It starts at
  the bits: the code's choice and majority functions are not the formulas of the
  standard, and agree with them bit by bit, so nibble by nibble, half by half and
  word by word. `SameState` relates the registers that the unrolled rounds name
  in rotation to those that the standard moves, and the sixteen words of the
  block that are overwritten in place to the schedule that grows; `RoundIsFips`
  keeps it, eighty times. `AbsorbedIsFips` is the same for blocks. The end has two
  cases, as `final` has: the length fits behind the marker (`OneBlockLeft`) or
  takes a block of its own (`TwoBlocksLeft`), and in both the last blocks are those
  of the padded message. The two theorems about the answer use it: their
  hypothesis `KeysAreHashed` only says that the accept keys are the base64 of two
  digests of the same sixty bytes, the client's by `sha1.hpp` and the server's by
  the standard, which is how `MCHandshake` computes them.

`StreamLemmas` has what several of these need: sequences of consecutive
positions (`Run`, `InOrder`), texts, sequences of anything and their flattening,
and induction. The library states induction for
an operator, which the provers cannot instantiate; `InductionOverSet` states it
for a set of numbers that holds 0 and is closed under successor, and a property
is used as the set of the numbers that have it. That a recursive function exists
is proved the same way, before its definition (a CHOOSE) may be unfolded.

Only model-checked: liveness (`ReaderDelivers`, `CloseReturns`,
`ReceiverNotStarved`, `HandshakeEnds`, `FramesDelivered`, and the fairness in the
refinements), since the prover has no rule for ENABLED that its backends here
support. Every invariant and every safety refinement that a passing run checks
is stated by a theorem.

## 5. Not modelled

Transports are the environment of the clients: their actions are in the models,
their forwarding and error texts are not. What a transport returns at the end
of a stream is decided outside the repository. Examples and build files call the
library; `utf8/checked.h`, `utf8/unchecked.h` and `utf8/cpp*.h` are not used by
it. Wording of errors, logging and the splitting of a digest into bytes and
base64 are left out. Lifetimes of the views that `ClientConnectOptions` holds are
the caller's.

## 6. Plan

In order of importance; all nine are here.

1. `CircularByteBuffer` with `ByteQueue` and its proofs.
2. `FrameReader` with `MessageStream`, `Utf8` and its proofs.
3. `Client` with `Connection` and its proofs.
4. `AsyncClient`, refining `Client` for one task.
5. `FrameWriter` over the ring, and the server that reads it.
6. `ReadWindow`, `Url`, `HttpUpgrade`, `Sha1` and `Handshake` with `Opening`, and
   the proofs about its buffer.
7. Copying and moving of the ring, `WrappedRead::skip`.
8. Proofs: `NoBytesStranded`, `PongsAnswerPings`, the frames of `FrameWriter`,
   the exactness of the decoder, the reader's refinement of `MessageStream`,
   `AsyncClient` alone and in its documented use.
9. Proofs: the safety part of the handshake's refinement, `RefusedRightly`,
   `ConnectsWhereUrlSays`, and that the hash is SHA-1.
