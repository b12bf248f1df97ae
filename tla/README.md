# A verification of libevent-async

libevent-async wraps libevent in C++20 coroutines. This directory holds TLA+
models of its parts, the TLC configurations that check them on small instances,
and TLAPS proofs. Paths are relative to the repository: `Task.hh` is
`src/Task.hh`.

Everything in the library runs on one thread. What makes it hard is that
`coroutine_handle::resume()` is an ordinary call. Whoever completes something (a
task that ends, `Future::set_result`, `Channel::write`, a libevent callback) runs
the waiting coroutine on top of its own stack frame, and that coroutine may use
the same objects before the call returns. The models therefore keep an explicit
stack of resumed coroutines, and let every coroutine do every legal thing at
every point. In the protocol clients and the HTTP server it is the other side:
answers come in pieces, connections fail between any two of them, and what one
call leaves unread the next one takes for its own.

## Inventory

| Part | State | What is hard |
|---|---|---|
| `Task<T>`, `AnyAwaiter`, `multi`, `all`, `any`, `all_limit` (`Task.hh`) | `started`, the promise's `awaiting_coro`, the combinators' locals | nested resumption, stale links, lost wakeups, the limit of `all_limit` |
| `Channel` (`Channel.hh`) | queue, list of waiting readers, kept list iterator | `write` resumes a reader inside the call; the iterator dangles |
| `Future` (`Future.hh`), `DeferredFuture` (`Base.hh`) | value, list of waiting coroutines, kept iterator, scheduled callbacks | coroutines resumed by the loop use the future |
| `Base::read`, `write` (`Base.cc`) | pointer, size, event, flags | partial reads and writes, one-shot events, end of stream |
| `Base::accept`, `recvfrom` (`Base.cc`) | event, result, error | several coroutines on one socket, transient errors, empty and long datagrams |
| `Buffer`'s awaiters (`Buffer.cc`) | an evbuffer, the awaiter's counters | partial writes while others add data |
| `DetachedTask` (`Task.cc`), `sleep`, `connect`, `once`, event awaiters, DNS lookups, HTTP client requests | callbacks that libevent holds, frames, who owns a request | cancelling while callbacks hold addresses, answers before they are awaited, a DNSBase that goes away |
| Memcache client | one connection | bodies of error answers, many answers to `stats`, connections that fail after the request was sent |
| MySQL client, `ProtocolBuffer` | connection, sequence number, state of the binlog stream | paths of the handshake, several result sets, sequence wrap, checksums |
| `BinlogProcessor` and the two programs that use it | file, position, table maps; the bytes of a transaction | layouts of columns, table ids mapped again, artificial events, rotations |
| HTTP server, websockets, URL parameters | request, frame and message in progress | lifetime of the request, fragments with pings among them, sizes at which headers change, decoding in place |

`PROJECT.json` lists the parts with what is modelled of each, the hazards at the
lines where they bite, and for every definition the source lines it stands for.

## Modules

| Module | Models | Checked by |
|---|---|---|
| `Task` | `Task.hh`, `Task.cc` | `MCTask`; proofs in `TaskProofs` |
| `Channel` | `Channel.hh` | `Awaitables` |
| `Future` | `Future.hh`, `DeferredFuture` | `Awaitables` |
| `Awaitables` | coroutines that use a channel and a future on one stack | itself; proofs in `AwaitablesProofs` |
| `StreamIO` | `Base::ReadAwaiter`, `Base::WriteAwaiter` | `Awaiters`, itself |
| `SharedSocket` | `Base::AcceptAwaiter`, `Base::RecvFromAwaiter` | `Awaiters`, itself |
| `BufferIO` | the awaiters of `Buffer` | `Awaiters`, itself |
| `Callbacks` | detached coroutines and the callbacks that resume them: `Task.cc`, `Event.cc`, `DNSBase.cc`, `Base::once`, `HTTP/Connection.cc`, `HTTP/Request.cc` | `Awaiters`; proofs in `CallbacksProofs` |
| `Awaiters` | one of the previous four in each behaviour | itself; proofs in `AwaitersProofs` |
| `KeyValue` | what a Memcache client promises: an abstract store | `Memcache` implements it |
| `Memcache` | `Memcache/Client.cc` and a server | itself; proofs in `MemcacheProofs` |
| `MySQLClient` | `MySQL/Client.cc`, the framing of `ProtocolBuffer.cc`, and a server | itself; proofs in `MySQLClientProofs` |
| `MySQLCodec` | integers, bitmasks, times, dates, column layouts and cells of `ProtocolBuffer.cc` and `BinlogProcessor.cc`, as functions | `Binlog`; proofs in `BinlogProofs` |
| `Binlog` | `BinlogProcessor.cc`, `MySQLBinlogStats.cc`, `MySQLBinlogReader.cc` | itself; proofs in `BinlogProofs` |
| `UrlParams` | `Request::parse_url_params`, as functions | `HTTPServer` |
| `HTTPServer` | `HTTP/Server.cc` with the handler of `HTTPWebsocketServer.cc` | `MCHTTPServer`; proofs in `HTTPServerProofs` |

Operators whose comment begins with "Mutation of" are variants of the following
definition with a plausible bug in it. They belong to no specification. Each
property is checked to be violated when one of them takes the place of its
definition.

### Task

`started`, `awaiting` and `finished` are `TaskBase::started`,
`TaskPromise::awaiting_coro` and `coro.done()`. `stack` is the call stack of
resumed coroutines, `pc[c]` is where coroutine `c` is. A combinator is itself a
`Task<void>`, but it is awaited as soon as it is made and control goes straight
from caller to combinator and back, so `fr[c]` is the frame of the combinator
inside `c`: the range `lo..hi`, the iterator `it`, the tasks `aw` of the
`AnyAwaiter`, the limit `lim`. `fresh` is history: the tasks of the range that
were not started at the call.

`start`, `FinalAwaiter`, `AwaiterBase`, `AnyAwait`, `AnyResume` are the functions
of the same or similar names. The body of a coroutine may call a `DetachedTask`
(`Spawn`), start one of its tasks (`Start`), suspend for an event, a future or a
channel (`Block`, ended by `Wake`), await one task or a combinator (`Call`), or
end (`Finish`). `AnyAwaiter` iterates over an unordered set, so which of several
finished tasks `any` returns, and whether `await_ready` sees a finished or an
unstarted task first, is a choice.

Left out: results and exceptions, which no decision of this code depends on;
moving and destroying tasks (a task outlives its use); `DetachedTask::cancel`,
which is in `Callbacks`; two coroutines that await one task (each task has one
owner, which alone starts and awaits it).

### Channel, Future, Awaitables

The waiting coroutines are a `std::forward_list` that is extended behind an
iterator kept from the previous insertion. `insert_it` says what that iterator
points to. `pop_front` of the only node leaves it dangling; inserting behind a
freed node is undefined behaviour, modelled by what the build can do: the new
node is not reachable from the list's head, or the process ends (Channel).
`write` and `set` resume coroutines on top of the caller. A `Future` may be
constructed with a value, which leaves the iterator uninitialized.
`schedule_awaiters` and `resume_coro` are `DeferredFuture::resume_awaiters` and
its callbacks; whether the future is a `DeferredFuture` is chosen at the start.
`Awaitables` puts the two on one stack, so that a coroutine resumed by `write`
may resolve the future, whose awaiters may read or write the channel, and so on:
`Channel` is extended, `Future` is an instance that shares `stack` and `pc`.
`since`, `clock`, `sent`, `got`, `began`, `resumed` and `outcome` are history.

### StreamIO, SharedSocket, BufferIO

The kernel's side is external: what `read`, `write`, `accept`, `recvfrom`,
`evbuffer_read` and `evbuffer_write_atmost` may return. Bytes are numbered, so
that a lost, repeated or misplaced byte is visible. A callback runs when its
event is added, and it may find nothing to do. A coroutine whose call has thrown
gives up in `StreamIO` and `BufferIO`, and may try again in `SharedSocket`.
`SharedSocket` chooses at the start whether the socket listens or receives
datagrams; the two awaiters share the race of several callbacks for one arrival.

### Callbacks, Awaiters

Every awaiter that is not about bytes has the same shape: libevent is given an
address, and calls back with it. `pending` is what libevent holds, one record for
each event, lookup, `once` callback and request. `running` and `pc` say which
coroutine runs, waits or has ended; `destroyed` is
`DetachedTaskCoroutine::destroyed` and `destroys` counts destructions of the
frame. `http` is who owns the `evhttp_request`. `Cancel` may come whenever the
coroutine does not run. `Kept` is what libevent still holds after that: events
are freed with their awaiters and a `Connection` with its requests, but nothing
withdraws a lookup or a `once` callback. When something is used that is gone
`undefined` names the operation, and the behaviour ends, since the code says
nothing more.

`Awaiters` extends `Callbacks`, has instances of the other three, and chooses
with `part` which of them moves; they share no state.

### KeyValue, Memcache

`KeyValue` is the abstract specification: a call is invoked, takes effect at one
moment, and returns the result it had then; a call whose connection fails
throws, and takes effect at most once, maybe later (`orphans`). In `Memcache` a
method puts its request on the connection, reads a header, then the body that the
header announces, and decides from the status and the codes it expects. A header
and each part of a body are one unit of the stream, so reading too much or too
little leaves the next call out of step. The refinement mapping reads the call's
phase off the concrete state: a call is effective once the server has handled
its request. What the server does with a request is external; `KeyValue` states
it and `Memcache` uses those operators, so what the refinement shows is the
client's part: requests, error codes, results, and the pairing of answers with
calls.

### MySQLClient

`call` is the method in progress: which command it waits for and its locals.
`read_command` is one step that checks the buffer, the end of the stream and the
sequence number, and hands the command to the code that waits for it. The server
is external: it greets, asks for more authentication or not, runs scripts of
statements of which each gives an OK, an error, rows, or rows that end in an
error, and sends a binlog. It sends one command at a time: `job` is what it is
doing (which statement of the script, which column or row, which event), `seq`
the number of its next command, and every command on the connection carries the
job that it was sent for, which only the properties and the proofs look at.
`unread` is history: after `read_command` has thrown
because the last OK had more in it than was read, the rest of the answer stays on
the connection, and what later calls do is not judged.

### MySQLCodec, Binlog

A body of an event is a sequence of fields, each a value with a number of bytes;
a reader that does not take a whole field is out of step. Numbers in a row are
sequences of bytes in the order in which they are sent (`Digits`, `Reversed`), so
that signs, widths, byte order and multiplications modulo 2^64 are those of the
code. `Held` is what a column can hold and `Written` what the server makes of it;
`read_cell_data` makes a `Value` of that again. One step of `Binlog` is an event
that the server writes, and that the processor parses and both programs account
for. `Columns` has every type of column with the sizes at which its layout
changes. Rows may leave columns out, refer to a table that was mapped before the
reader started, or carry the table id 0xFFFFFF, for all of which
`parse_rows_event` throws. `srv` is where the server really is in its log, `trx`
what it wrote since `BEGIN`, and the properties compare.

Not everything that a cell held can be told from its `Value`. `Tells` says what
can, for a reader who knows the columns:

- Integers come without their sign, as the bytes that the server sent; a `YEAR`
  is the byte that was sent, a `TIMESTAMP` a number of microseconds.
- `TIMESTAMP2` is read with its bytes in the wrong order and without its fraction
  (`BinlogProcessor.cc:185` has a TODO for the fraction). The seconds can be
  told after turning the bytes round, the fraction is lost.
- The fraction of a negative `TIME2`, and a `DATETIME2` in the month 0, are wrong,
  and `Tells` leaves them out.

### UrlParams, HTTPServer

`pc` is the field of a frame that `read()` waits for or what `write()` was called
for. Fields are the tokens of the streams in both directions; a token has its
number of bytes, and the payload of a frame has its number and its mask's key.
`Answers` says from the frames that were sent what the peer should get.
`req_obj` is the `Request` on the stack of `dispatch_handle_request`, which ends
when the handler first suspends. An exception that leaves the handler terminates
the process, as `DetachedTaskPromise::unhandled_exception` does.

## Runs

| Run | Shows |
|---|---|
| `task` | two detached tasks, one owning two tasks, one of which owns another: no re-entry, no stale link, no lost wakeup, no `logic_error`, the limit of `all_limit`, combinators return only when they may, every `co_await` ends if what blocked coroutines wait for happens |
| `awaitables` | three coroutines with a channel and a future: first in first out, a resumed reader has its item and nobody overtakes it, the readers that wait are linked in the order in which they came until the list runs empty; awaiters of the future are resumed in order, with the one outcome (or `bad_variant_access` after an explicit `resume_awaiters` of a `DeferredFuture`), and all of them |
| `io` | every byte once and in place, no mutual wait; every connection and message has one owner, the loser of a race waits on; what `Buffer` has moved when it returns, and that the end of the stream is reported; frames destroyed once, callbacks use what exists, whoever waits has exactly one callback and is resumed |
| `memcache` | two clients on one server, with every method, refused requests and failing connections: the client implements `KeyValue`, nothing of an answer is left for the next call, every call ends |
| `mysql` | every path of the handshake, scripts, a database change and binlog streams, with failing connections: results are complete, answers are in step and in sequence, checksums are taken off exactly where they are, methods end |
| `binlog` | from the rows that `parse_rows_event` returns what the server wrote can be told, as far as `Tells` says, for columns of every type, and it throws for what it does not support; the processor's position is where the next event begins, the places that the programs print are true, the bytes of a transaction are those from its `BEGIN` on |
| `http` | plain requests, upgrades with every subset of the conditions, fragmented messages with pings among them, ends and breaks of the connection anywhere: every answer is right and comes, a request is answered or freed once and not used after its end, the process ends only for the reasons that `ValidInputSurvives` names, parameters are decoded |

The other runs find a disagreement between the code and what the repository says
of it; `PROJECT.json` quotes both sides.

| Run | Disagreement |
|---|---|
| `channel_lost_reader` | a reader that waits after the list has run empty is never resumed |
| `deferred_not_deferred` | `set_result` of a `DeferredFuture` resumes inside the call |
| `stream_end` | `base.read` at the end of the stream never returns |
| `socket_errors` | a `base.accept` that waits never returns once `accept(2)` has failed with anything but EAGAIN, and a `base.recvfrom` never after a datagram of length 0: the callback sets `err` and does not resume the coroutine, whose `await_resume` would throw (`recvfrom` does resume it after an error) |
| `buffer_write_overshoot` | after a partial write, `buffer.write` may send more than it was asked to |

Three more disagreements are in the models and have no run of their own:

- `enable_websockets` throws when the connection breaks while the 101 response is
  written (`Server.cc:324`), and the exception ends the process unless the handler
  catches it. The comment at its declaration says that one gets `nullptr` if "it
  failed to change protocols for some reason". `FailedUpgrade` is this case in
  `ValidInputSurvives`, which TLC finds violated at once without it.
- `MySQL::Client::quit` throws if the connection is not open (`Client.cc:181`). Its
  comment says that it "does nothing if the connection isn't open".
- `Memcache::Client::delete_key` throws if the key does not exist, since it expects
  no error but KEY_EXISTS (`Client.cc:205`). Its comment says "Returns true if the
  key was deleted", so that one would expect `false`. `KeyValue` follows the code.

### What the properties leave out, and why

Some properties have an exception in their statement, where the code does
something else. Except for `FailedUpgrade`, no text of the repository says what it
should do there.

- `NothingDangling`: a lookup or a `once` callback of a cancelled coroutine
  resumes a destroyed frame, and `Request::on_response` uses the request when
  the connection has failed and there is none.
- `ServedOrFailed`: a coroutine whose callback has set `err` counts as failed,
  also if it is never resumed; that it should be is `ErrorsThrown`.
- `ResultsComplete`, `StreamInSync`, `InSequence`, `EventsFaithful` and
  `MethodsEnd` of `MySQLClient`: an OK with information in it, followed by more
  results, makes `query_multi` throw and leaves the rest on the connection.
- `RowsFaithful`: what `Tells` leaves out (see above).
- `PositionFollows`: an artificial format description sets the position to 0.
- `ParamsDecoded`: a plus after an escape in the same value, where
  `parse_url_params` tests `value[write_offset]`.
- `ValidInputSurvives`: a handler that meets a close frame or an invalid one, the
  end or a break of the connection, a URL without a query or a malformed escape
  ends the process, if it does not catch the exception itself.

### Bounds

`Fuel` bounds how often the code of a coroutine suspends, starts or awaits, up
to two times: enough for a second wait on the same tasks, the case where a stale
link would show. Two tasks and a limit of one make `all_limit` wait with a full
`AnyAwaiter` and start its next task; a limit of zero is the call that waits for
nothing. Three coroutines can nest a resumption in a resumption and have two wait
at once, on the channel, the future or one on each; two items show a wrong order.
Sockets hold two bytes and calls ask for up to three, so that every call can be
cut into pieces and can be larger than the socket. Two coroutines share a socket,
with three connections or messages, so that one can lose a race and still be
served. In `Callbacks` two coroutines begin two operations each, so that one can
be sent, another awaited, and both interrupted by a cancellation.

Two memcache clients make two calls in all on one key, with one failing
connection: a late effect of the first call can then fall into the second.
Counters wrap at `Top` = 2 instead of 2^64 - 1. The MySQL client makes two
requests on up to two connections, with scripts of two statements and results of
two rows; sequence numbers wrap at `SEQ` = 4 instead of 256, so that one answer
wraps. A binlog has six events, of which the first three may be of any table and
any row; its cells hold zero, a small number, one of two bytes, a negative one and
the ends of the ranges of times and dates, with fractions of a second for each
number of bytes that they take. The peer of the HTTP server sends up to three frames from a set with the
sizes 0, 125, 126 (as 122 + 4), 65535 (as 65532 + 3) and 65536; values of
parameters have up to three characters in every encoding.

All runs turn deadlock checking off: a program that has nothing left to do stops,
and the bounds end the others. The liveness properties say what may not be left
over.

### Fairness

The running coroutine goes on until it suspends or ends, and the event loop runs
the callbacks of events that are ready: weak fairness of the steps of the loop
and of the running coroutine. In `Task`, weak fairness of `Next` also says that
what blocked coroutines wait for happens; the bodies are finite by `Fuel`. In
`Callbacks`, timers expire and libevent gives lookups and requests a timeout of
its own, so every callback comes. Strong fairness is assumed only of the
callbacks of `DeferredFuture::resume_awaiters`: they are enabled only when the
loop has control, and libevent runs each timer that is due when it has. The
memcached and MySQL servers answer what they get (`CallEnds` and `MethodsEnd` say
that a method ends if they do); nothing makes a server send binlog events, and
nothing is assumed of the other peers: they need not send, close or connect.

## Proofs

Eight modules have theorems. Each extends the module it is about, so that the
theorem states the very property that TLC checks, for every value of the
constants. TLC checked the inductive invariants on small instances before they were
proved, apart from conjuncts that it cannot enumerate. Where a leaf names a prover, the default one is too slow
there or does not find the proof.

### Task

`TaskProofs` proves the safety properties of `Task` for every number of
coroutines, every ownership forest, every finite amount of code and every set of
limits. It assumes only what `Task` assumes of its constants: an owner has a
smaller number than what it owns, the rest are types.

| Theorem | States |
|---|---|
| `Invariant` | `IInv` always holds |
| `TypeCorrect` | `TypeOK` |
| `NeverReentered` | `NoReentry`: nothing is resumed that runs, has ended or was not started |
| `LinksGood` | `LinkIntegrity`: control is transferred only to a coroutine that awaits the ending task |
| `WakeupsKept` | `NoLostWakeup` |
| `LogicErrorFree` | `NoLogicError` |
| `ParallelismBounded` | `LimitRespected` |
| `ReturnsOnlyWhenDone` | `ReturnsWhenDone` |

None of these is inductive alone. That `FinalAwaiter` does not resume a running
coroutine needs to know where the coroutines below the head of the stack can be
(`Callers`: in their own code or in a loop that starts tasks, never in a
`co_await`) and that links point to owners (`Lifecycle`). That a combinator
returns only when it may needs what its iterator has passed (`Progress`, with
`Places` for which combinators are where). That `AnyAwaiter` does not throw needs
that its tasks are started, and that one of them is done when it is resumed
(`Awaited`). The limit needs the size of the `AnyAwaiter` and that a task is
started only when the iterator gets to it (`Limited`). `IInv` is their
conjunction. One lemma per action shows that the action keeps it; `PushEffect`,
`PopEffect` and `TransferEffect` say what the three ways of changing the stack do
to the set of active coroutines, and `ParallelismBounded` adds a cardinality
argument.

### Channel, Future, Awaitables

`AwaitablesProofs` proves the safety properties of the composition, `SpecBoth`,
for any number of coroutines and items and with no assumption:

| Theorem | States |
|---|---|
| `Reachable` | `AInv` always holds |
| `ItemsInOrder` | `FirstInFirstOut` |
| `ReaderHasItem` | `ItemForResumed`: `front()` of an empty queue is never called |
| `ReadersInOrder` | `LinkedUntilDrained` |
| `AwaitersInOrder` | `ResumedInOrder` |
| `OneOutcome` | `OutcomeOrBadAccess` |

A reader finds its item because `write` runs it before anything else can: that
only the innermost coroutine has just been resumed is `StackOK`, and that the
queue is empty whenever a reader is linked and none is being resumed is
`Handed`. The order of the readers needs that none began to wait after now
(`Clocked`). For the future, `Waiters` says that who is linked or scheduled waits
and is there once; `Ordered` that the resumed ones and then the list are those
that began to wait. A pending `Future` has a usable iterator, and who was resumed
finds an outcome, unless it is a `DeferredFuture` whose `resume_awaiters` was
called (`Resolved`): without it a coroutine could fail to be linked and `Ordered`
would break. `AInv` is their conjunction. `ChannelKept` and `FutureKept` say that
the steps of one half leave the other alone, `PushStack`, `PopStack`, `StayStack`
and `EnterStack` what becomes of the stack, and there is one lemma per action.
What a dangling iterator does to readers is part of the model, so `ItemsInOrder`
and `ReaderHasItem` hold even when a reader is lost (`channel_lost_reader`).

### Callbacks

`CallbacksProofs` proves, for every set of coroutines and any number of
operations:

| Theorem | States |
|---|---|
| `CoroutinesDestroyedOnce` | `DestroyedOnce` |
| `CallbacksSafe` | `NothingDangling` |
| `WaitersResumedByOne` | `ResumedByOne` |

The only assumption is that `None`, the event loop, is no coroutine (`NoneAssumption`). `DestroyedOnce` needs that
`destroyed` is true exactly of what has ended (`Frames`). That no event calls back
a coroutine that is gone needs to know whose the callbacks are: one that is no
response belongs to a coroutine that waits, or that was cancelled during a lookup
or a `once` (`Owned`); a coroutine that waits has at most one (`Single`), or its
end would leave another behind; a response belongs to a coroutine that exists and
has none yet (`Responses`); and who waits for a response waits for nothing else
(`Awaited`), or two callbacks could resume it. `CInv` is their conjunction, with a
lemma for each action; `Usable`, that a response that has come stays the user's,
is inductive relative to it, and so is
`Reached`, that who waits has a callback: together with `Single` and `Awaited` it
is the one that `ResumedByOne` counts.

### StreamIO, SharedSocket, BufferIO

`AwaitersProofs` proves, of `SpecAll`, for any number of coroutines, any sizes of
reads, writes and messages, and any capacity of the socket:

| Theorem | States |
|---|---|
| `StreamsIntact` | `StreamIntact` |
| `ArrivalsHaveOneOwner` | `OneOwner` |
| `BuffersDeliver` | `Delivers` |

`StreamInv` says that what completed reads took, the memory of the read in
progress, the socket and what is left to write are, one after the other, the bytes
that were given; it needs that the awaiter's pointer and size add up to the size of
the call (`AwaiterOK`), which the loop in `read` and the callback keep in different
ways. `SocketInv` says that the arrivals are divided between those returned, held
by a coroutine and waiting (`Partition`), each there once, and that an event is
added only for a coroutine that is suspended without an error: otherwise a callback
would overwrite what its coroutine holds. `BufferInv` relates the awaiter's limit
and count to the call's size and to what the buffer held before
(`BufferReadOK`, `BufferWriteOK`). The three components share no state, so each
invariant needs one lemma per action of its own component.

### Memcache

`MemcacheProofs` proves, for any number of clients, keys, entries of statistics,
calls and failures:

| Theorem | States |
|---|---|
| `StreamStaysInSync` | `StreamInSync` |
| `ClientImplementsStore` | `ImplementsStore`: `Spec` implies the specification of `KeyValue` under the refinement mapping |

The invariant `MInv` says of every client what of the answer to its call is still
to come (`HeaderDue`, `BodyDue`), and that with all of it the method returns the
result `due` that the call had when it took effect; on a connection that was lost
it may be a prefix of that. `stats()` has its own case, since its answer is many
responses. `AnswerFacts` is where the method and the server meet: for every request
and every status, what the client makes of the packet is what the call means.
`StepMapped` then maps every step to one of `KeyValue` or to a stutter.

### MySQLClient

`MySQLClientProofs` proves, for any scripts, numbers of columns, rows and events,
and any range of the sequence numbers:

| Theorem | States |
|---|---|
| `ResultsAreComplete` | `ResultsComplete` |
| `AnswersAreRead` | `StreamInSync` |
| `SequenceKept` | `InSequence` |
| `EventsAreFaithful` | `EventsFaithful` |

The properties speak of the end of a method, the invariant `QInv` of what is on
the connection in the middle of one. `Chained`: each command is what the server
sends for its job, and the next one is for the job that follows, with the next
number. `InStep`: the first of them, or the server's next one, or the request
that the server has not read yet, is what the client waits for, with the number
that it expects (`Wants`, `Asked`). `Collected`: the result sets so far are those of the
first statements of the script. `Events`: the same for the events of a stream. All
of it holds unless a query met a non-empty buffer (`unread`), which is the
exception in the properties.

### MySQLCodec, Binlog

`BinlogProofs` proves of the codec's functions, for all values:

| Theorem | States |
|---|---|
| `VarintInverse` | `get_varint` reads back what `add_varint` wrote, at any place in a message |
| `TimeInverse` | `TimeValue(EncodedTime(t)) = t` for every time, in whole seconds |
| `DateTimeInverse` | the same for every date with a month, in whole seconds |
| `StringWidth` | the width of a CHAR column is read as it was encoded |

and of `Binlog`, for every set of tables and values, every start and every number
of events:

| Theorem | States |
|---|---|
| `ProcessorFollows` | `PositionFollows` |
| `PlacesAreTrue` | `PlacesTrue` |
| `TransactionSizes` | `TransactionBytes` |

`LogInv` adds to the three properties that the first event is the artificial
rotation, that the reader's file is the server's, and that the bytes counted since
`BEGIN` are those of the transaction. The arithmetic is small; what the steps need
is that the size of every event is a positive number. The size is a sum over the
fields of the body, and the body is joined from the parts of each cell of each row,
so this is induction over the layout of the columns. The library's induction
theorems cannot be used, because they take an operator; `Induction` states it for a
set instead and follows from the well-foundedness of the natural numbers. `Sum` and
`Joined` are recursive functions on natural numbers, of which `SumsExist` and
`JoinsExist` show that they exist.

### HTTPServer

`HTTPServerProofs` proves `RequestsSettled`, that `RequestSettled` always holds,
for any frames and any texts of parameters. `SInv` says where the handler can be,
and that only one that has called `write()` has something to write (`Places`); that
the `Request` exists while a handler runs that has not suspended, and that nothing
is answered or freed before the handler's end (`Unsettled`).

### Only model-checked

All liveness (`CallsReturn`, `AwaitersResume`, `NoMutualWait`, `ServedOrFailed`,
`EndOfStreamReported`, `WaitEnds`, `CallEnds`, `MethodsEnd`, `AllAnswered`), which is
out of the prover's reach. Four safety properties, which compare what a recursive
computation gives with what it should give: `RowsFaithful`, that a parser which
walks a row field by field gets back the cells it was joined from; `ParamsDecoded`
and `ValidInputSurvives`, of which the first depends on the decoding in place of
`parse_url_params`; and `AnswersFaithful`, where, as in `ValidInputSurvives`, the
answers due are computed from all the frames that the peer sent.

## Not modelled

- Wrappers of single libevent calls, which have no behaviour of their own:
  `Config`, most of `Buffer`, the configuration of `DNSBase`, the getters and
  setters of the HTTP classes, the listening sockets and SSL contexts of the
  server.
- Texts and digests: `compute_auth_response`, the websocket key, `parse_value`,
  the formatting and escaping of values in `BinlogProcessor` and in the example
  programs, the tables of names of statuses and types.
- Moving and destroying `Task`, `Future`, `Channel` and `Event` objects while they
  are in use, and two coroutines that await one task: the repository's code does
  neither, and nothing says what would be right.
- Two coroutines on one Memcache, MySQL or websocket client: the classes have no
  lock, and the examples use one coroutine for each.
- `SignalEvent`, which no awaiter uses; `Future::exception()`, which does not
  compile when it is used.
- MySQL commands of 2^24 bytes and more; the row statistics of
  `MySQLBinlogStats`.
- The other example programs and tests, which were read as documentation.
