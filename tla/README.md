# A verification project for Taurus

TLA+ modules, TLC configurations and TLAPS proofs for the library in `src/`:
`mercury::net` (sockets, addresses, URLs), `mercury::nio` (byte buffers,
channels) and `mars` (matrices).  Paths below are relative to the repository.

## 1. The system

The library starts no thread, sets no timer and persists nothing.  It is a set
of objects that an application calls.  What is concurrent is the *kernel*: a
connect goes on in the background, peers connect, send and close between two
calls.  What is hard is what an object remembers of a kernel resource (a
descriptor, a connection, a half closed direction) and whether that is still
true when the next call uses it.

| component | state | operations | what makes it correct |
|---|---|---|---|
| `SocketImpl`, `src/net/socket_impl.h`, behind `SocketBase`, `ServerSocket`, `StreamSocket`, `src/net/socket_base.cpp` | descriptor, state, directions shut down, family | create, bind, connect, listen, accept, shutdown, close, move, destroy, `set_block_mode` | no two objects share a descriptor; none is lost; the state says what the kernel says |
| `SocketReaderImpl`, `SocketWriterImpl`, `src/net/socket_io_impl.h`, used by `send` and `receive` | buffer position | `Read`, `Write`, `Reset` | bytes arrive once and in order; what is returned tells "nothing yet" from "peer closed" from "error" |
| `DatagramPacket`, `DatagramSocket`, `network.h`, `socket_base.cpp` | buffer, length, capacity, endpoint | send, receive, copies and moves | the length covers exactly the bytes received |
| socket options, `src/net/socket_opt_impl.h` | none (the kernel's) | `Get`, `Set` | what is set is what is read back |
| `RuntimeError`, `include/mercury/error.h` | code, message, hint, stack | set, push, merge, clear, copies, moves | an error that was recorded is not lost |
| `InetAddress`, `InetSocketAddress`, `src/net/inet_address.cpp` | address bytes; pointer to address and port | construction, copies, moves, name lookups | two objects do not own the same address; an object is usable after every call |
| `URL`, `src/net/url.cpp` | text, schema, host, port | parse, compose, copies, moves | a text is accepted exactly when it is a URL, and its parts are the URL's |
| `ByteOrder`, `Buffer`, `ByteBuffer`, `include/mercury/nio/buffer.h`, `src/nio/buffer.cpp` | array, position, limit, mark, capacity | relative and absolute get and put, flip, clear, mark, reset, rewind | what was put is got, in order; no access leaves the array |
| `Selector`, `ServerSocketChannel`, `include/mercury/nio/selector.h`, `src/nio/server_socket_channel.cpp` | pointer to an implementation that owns a `ServerSocket` | create, close, destroy | a closed channel holds no descriptor |
| `TMatrix`, `Matop`, `include/mars/matrix.h` | rows, columns, array | element access, arithmetic, row operations, reduced row echelon form | row operations keep the row space; the result has echelon form; arrays are owned once |
| `system_error`, `src/sys/system_error.cpp` | none | text of an errno | formatting only |
| tests, `tools/` | none | clients of the above | read as statements of what the library should do |

Interactions: the facade classes forward every call to their `SocketImpl`;
`send` and `receive` build a reader or writer on the stack over the descriptor
the `SocketImpl` holds at that moment; `bind` and `connect` go through
`NewInetAddress` and `InetSocketAddress`; a `ServerSocketChannel` owns a
`ServerSocket`; every call takes a `RuntimeError` to report through.  All calls
that leave the library go to the kernel.

## 2. Modules

| module | models | kind |
|---|---|---|
| `PosixSocket` | the kernel's side of `socket`, `connect`, `listen`, `shutdown` as tables of (status, errno, status after) | external |
| `DescriptorOwnership` | what a set of socket objects promises of descriptors: acquire, release, transfer, each open descriptor owned by at most one object | abstract specification |
| `SocketImpl` | the socket objects of one process over one descriptor table | component |
| `MCSocketImpl` | instance for TLC, symmetry | model checking |
| `SocketImpl_proofs` | type correctness, the state invariants, endpoints; `SocketImpl` implements `DescriptorOwnership`; the channels | proofs |
| `ServerSocketChannel` | channels, each over the `ServerSocket` of one slot of `SocketImpl`, among other sockets | component, composed with `SocketImpl` |
| `MCServerSocketChannel` | instance for TLC | model checking |
| `StreamIO` | a `SocketWriterImpl` and a `SocketReaderImpl` at the two ends of a connection | component |
| `MCStreamIO` | instance for TLC | model checking |
| `StreamIO_proofs` | what is taken out of the buffer is what `Write` said was sent | proofs |
| `Matop` | the row operations and `reduced_row_echelon` over a field | component |
| `MCMatop` | `Matop` over the integers modulo a prime | model checking |
| `Matop_proofs` | the solutions are kept; pivots keep their columns; the loops end | proofs |
| `ValueObjects` | what a class promises whose objects are values: make, copy, move, drop, fail | abstract specification |
| `TMatrix`, `MCTMatrix` | matrix objects, the arrays they own, and the arithmetic; implements `ValueObjects` | component, model checking |
| `TMatrix_proofs` | arrays are owned once; matrices implement `ValueObjects` | proofs |
| `InetSocketAddress` | address objects and what they point to; implements `ValueObjects` | component |
| `Datagram`, `MCDatagram` | packets that point to addresses, `send` and `receive` of a datagram socket | component, composed with `InetSocketAddress` |
| `Datagram_proofs` | ownership and values of addresses, where datagrams go, packets stay in their buffers | proofs |
| `ByteBuffer`, `MCByteBuffer` | position, limit and mark over an array of bytes, and the byte orders | component, model checking |
| `ByteBuffer_proofs` | of chars, accesses stay in the array; bytes lie in order and are read back | proofs |
| `Url` | the parser step by step, and the composition | component |
| `RuntimeError` | errors recorded, merged, copied and moved between objects | component |
| `UrlError_proofs` | the properties of `RuntimeError` and of `Url`, whose parser reports to one | proofs |
| `SocketOpt` | the options of a socket over what the kernel keeps of each | component |
| `SocketOpt_proofs` | calls wait as asked; what is read is what was set | proofs |
| `MCUtilities` | instances of `Url`, `RuntimeError` and `SocketOpt`, which share nothing: a behaviour runs one of the three | model checking |

### How `SocketImpl` corresponds to the code

`m_fd`, `m_state`, `m_shutdown`, `m_domain` are the members of the same name,
for every socket object at once.  An object belongs to a slot; the destructor
(`Destroy`) leaves a newly constructed object in the slot.  `m_socktype` is
fixed by the kind of slot (`Servers`, `Streams`, `Datagrams`).  `sock` is the
kernel's descriptor table, `family` the address family the kernel made each
descriptor for, and `holder` is a history variable: the object an open
descriptor was given to.  `ret` is what the last call returned, with whether its
`RuntimeError` holds an error; callers pass a clean one.

One action stands for one public call, since the library has no callback in the
middle of a call.  `Create(o, af)`, `Close`, `Connect`, `Listen`, `accept`, `Bind`,
`Shutdown` (both directions), `set_block_mode`, `MoveAssign`, `MoveConstruct`
and `Destroy` translate the function of that name with all its error returns.
The kernel calls inside are tables of `PosixSocket`: `EINPROGRESS`, `EALREADY`,
`EINTR`, `EISCONN`, `ECONNREFUSED`, `EBADF`, `ENOTCONN`, `EADDRINUSE`.  The
kernel's own steps are `ConnectEnds` (a background connect completes or fails)
and `PeerConnects` (a connection enters a backlog).

Four choices of the environment are constants.  `Domains` are the address
families the application creates sockets for: `AF_INET`, `AF_INET6`, and
`AF_UNIX` for one the getters of endpoints know nothing of.  `CloseErr` says how `close()` may
fail on an open descriptor: not at all, keeping the descriptor ("kept"), or
releasing it all the same ("released", Linux); POSIX allows both.  `Receivers`
are the stream slots a `SocketImpl` is moved to, from any stream slot; the facade
moves none.  `Uses` says whether the application calls `accept` with a
`StreamSocket` that is open.

Left out: ports and the addresses themselves (an address text is valid or not;
a `bind` that the kernel may refuse is free to fail), options (`SocketOpt`),
`SO_REUSEADDR`, the wording of errors.  The getters of endpoints, addresses and
ports are operators over the state.  They ask the kernel, which answers with its
own family or with an errno, and then read the answer with `m_domain`
(`ByFamily`): as an IPv4 address, as an IPv6 one, or with the error of a domain
they do not know.  `Create` and `accept` set `m_domain` anew each time, and
`EndpointsAgree` says that an object that was closed, reused for another family,
accepted into or moved never reads an endpoint with the family of an earlier
socket, and that it has an address and a port when and only when it has an endpoint.

Oddities of the code that are in the model:

- a `close` that fails leaves the object in state CLOSED with its descriptor
  (`CloseErr`), and `is_closed()` is then believed by others;
- `accept` into a `StreamSocket` that is open loses the descriptor it held (`Uses`);
- a connect retried while the first is in progress gets `EALREADY`, is reported as
  failed and clears `is_connecting`, although the kernel goes on connecting;
- `NewInetAddress` returns an object for a text it could not parse, so that `bind`
  and `connect` may return true with an error set;
- `connect` on a closed object leaves it in state CREATED, for good;
- `m_shutdown` survives close and create (the finding of `stale_shutdown`), and a
  move leaves it behind: the object moved to keeps its own, which the move
  constructor does not initialise.  `ShutdownReported` and `ConnectingIsReal` are
  therefore about the objects that are no `Receivers`.

### How `ServerSocketChannel` corresponds to the code

A channel owns the socket of a server slot.  `m_pSockImpl` says whether it has
made it; `channel_create`, `channel_close` and `channel_delete` (the destructor)
translate the functions of that name and call `Create`, `Close` and `Destroy` of
`SocketImpl`.  `aborted` records that the assertion in `create` failed, after
which there is no program.  `Channels` are the server slots that belong to a
channel; `SocketStep` is the rest of the application: the sockets of the other
slots are created for any family, closed, destroyed, listen, accept and move, so
that a channel may find no descriptor left or meet its old number again.

### How `StreamIO` corresponds to the code

`w_pos`, `r_pos` are `m_pos` of writer and reader, `r_buf` is the reader's
buffer, `wire` what the kernel holds between the two.  `Write(limit)` and
`Read(limit)` are the functions of that name, one call of `send` or `recv` each;
the overloads without a limit, and `StreamSocket::send` and `receive` which make
a reader or writer for the call, pass the whole room left, one of the limits.
`SendResults` and `RecvResults` are the kernel: short transfers, would-block,
end of stream, a reset that drops what is on the way, a signal.

A limit is any number up to `Excess` beyond the room left, since nothing in the
code bounds it.  Whether `assert` is compiled in (`ndebug`) is a choice of the
build.  The assertions at the head of both functions
(`socket_io_impl.h:40`, `:119`) have the comparison the wrong way round: a build
with assertions, which is what `CMakeLists.txt` makes, passes only a limit
*beyond* the room left, and every call of `send` and `receive` stops the program
(`stopped = "assert"`); a build without passes every limit.  In either, a
transfer that goes past the end of a buffer is undefined, and ends the program
here (`stopped = "overrun"`).

The reader's `Reset` compares the position with 0, or with the one given, where
the writer's assigns it: a caller who reads again after a `Reset` finds the new
bytes behind the old ones.  An application may take what it received out of the
buffer in two ways, and there is a book for each: `taken`, from where the
reader's `Position()` was before the `Read`, and `got`, from where it told the
reader to go on.  `taken` is right whether `Reset` moves the reader or not
(`SentArrives`); `got` is what the comment on `Reset` promises and can be wrong after
one (`reader_reset`).  `acked` is what the values `Write` returned say
was sent.  The application ignores `SIGPIPE`.

### How `Matop` corresponds to the code

`m` is the matrix changed in place, `m0` what was passed (history), `r` and `n`
the two loop variables, from 1 where the code counts from 0.  `Pivot` is the
body of the outer loop up to `continue`, `Divide` the call of `row_divide`,
`Clear` one turn of the inner loop, `NextRow` the end of the outer one.
`pivots` is a history of the rows that were divided.  Elements are those of a
field: what is shown holds of `double` but for rounding.

### How `InetSocketAddress` and `Datagram` correspond to the code

`m_pImpl` is the pointer of each object, `impl` the implementations allocated:
address, port and the buffer for the kernel.  The constructors, the destructor,
both copies and both moves are actions; the object a constructor makes takes the
place of another, which is destroyed first.  Address objects are values, since
nothing in the library changes one after it was made: that copy construction
clones them and assignment shares them (`std::shared_ptr`) makes no difference.
`call` is the last operation, in the form `ValueObjects` wants it.

A packet is its capacity, its length and its endpoint; `Full` and `Part` are the
constructors, `setbuf`, `setbuflen`, `setEndpoint`, `CopyPacket` and `MovePacket`
the members.  The buffer of an address for the kernel is an address, a port and a
scope id.  `send` hands the kernel `Caddr` of the endpoint, which writes the
address and the port into that buffer and leaves the scope id as it is;
`receive` has the sender written to the endpoint's buffer, as much of it as there
is room for, and the bytes behind those there are.  The network is the choice of
what a receive gets, which is tied to nothing that was sent: loss, repetition and
reordering are included.

`given` is a history variable: the address and port the application gave each
object, told from the calls of constructors, copies, moves and the destructor
alone (`Applied`).  `SentWhereAddressed` compares it with what the kernel was handed.

What the models take as preconditions, or show on the way: copying or assigning
an address that has none follows a null pointer, as `send` and `receive` do with a
packet that has no endpoint; a constructor of the packet is given an endpoint and
drops it; the sender of a datagram is left in the endpoint's buffer and never
reaches its `address()` and `port()`; the new length of a packet is the room there
was plus what came (`socket_base.cpp:313`), so that with assertions, which is how
`CMakeLists.txt` builds the library, the *first* receive of anything into an empty
packet already stops at the assertion of `setbuflen`, and one into a packet that
holds something stops there or leaves a wrong length; a datagram of no bytes is
taken for a failed call; the scope id and the flow information of an IPv6 address
are not written by `caddr()` (`inet_address.cpp:328-333`): a datagram goes to the
scope of the last sender, or of whatever was in memory.  `caddr()`, `caddrsize()`,
`local_port()` and the assignments of `URL` lack a `return`; the models assume the
unoptimised build of `CMakeLists.txt`, in which the value is still in the register.

### How `ByteBuffer` corresponds to the code

`m_pos`, `m_lim`, `m_mark`, `m_cap`, `m_endian` are the members; `m_buf` is the
array byte by byte, each byte named by the value and the significance it has.
`Put`, `Get`, `PutAt`, `GetAt` stand for the five widths of each (`char` apart),
`PutBlock` and its three relatives for the blocks.  `hist` is what the program
knows: what it filled in since `clear`, how far it drained it since `flip`.
Assertions are in or out (`ndebug`).

The library's rules are followed to the letter: the place of an access is the
position times the size of its type, while the position advances by
`sizeof(sizeof(T))`, 8, for every type but `char`, and the assertions compare
sizes with what remains up to the limit and never with where the access lies.
Values of one type are so read back although they lie `8 * Size` apart; values of
different types overlap; and of a type other than `char` a put may pass its
assertion and lie outside the array (`put_int64` at position 8 of 16 bytes,
`buffer.cpp:150`).  A block put at an index is not compared with its length at all
(`buffer.cpp:117-121`), and `limit(n)` clamps nothing (`buffer.h:135`).

No access is left out of the model.  `status` says how a program ended:
`aborted` by an assertion; `strayed`, by an access of a value, or of a block as
long as its assertion asked for, that lies outside the array; `overran`, by a
block put at an index.  The last two are undefined behaviour and nothing is said
of what comes after.  `lowered` records that the limit was set below position or
mark since the last `clear`.  What the properties claim is therefore limited:

- `CharsInside`: with assertions, a program of chars that did not lower the limit
  never strays, and keeps position and mark within the limit.  Of the other types it
  says nothing, because they do stray;
- `ReadBack` and `BytesInOrder`: what was put by accesses inside the array is read
  back, by accesses inside the array.  That what was put *can* be read is not claimed:
  `get_int64` asks for more than eight bytes (`buffer.cpp:60`), so that in a build with
  assertions the last `int64` of a full buffer cannot be.

Besides, the assertions of the block gets hold of no two addresses, so that every
block get stops a program with assertions, and the block get with an index copies
from the position (`buffer.cpp:24-31`).

### How `Url` corresponds to the code

`parse_schema`, `parse_host`, `parse_port` are the functions of that name, called
in this order by `parse()`; `pc` is the one that is next, `p0` the position it is
given.  A text is a sequence of symbols, the ones the parser tells apart.  `UrlInit`
takes a text or the composition (`define_string`) of a schema, a host and a port.
The loop of `parse_port` takes the terminating zero, and every symbol below the
digits, for a part of the port, and reads on behind the text (`RunsOn`): what it
finds there is not the text's, so the step may also be the end of the program
(`pc = "crashed"`).  `m_port` is an `int` that `atoi` sets: a number above
`INT_MAX` is undefined there and becomes any `int`.  Texts like "h://x:" and
"h://x:/p" are accepted, with port 0; a port is refused only if its first symbol
comes after '9'.  An empty schema is refused and no error recorded.

### How `RuntimeError` corresponds to the code

Every call of `set` records an error of its own, which is its code and message at
once; a line of the stack is the hint and the error it was made of.  `set`, `push`,
`clear`, `merge`, `Copy` and `Move` are the members, an object that is constructed
taking the place of one that is destroyed.  `dropped` are the errors a program
gave up itself, by clearing or overwriting.  Merging a clean error (`Uses`)
overwrites code and message and leaves the errors on the stack: no caller in the
library does, and the theorem about it assumes none does.

### How `TMatrix` corresponds to the code

`heap` is the arrays, flat and row by row; the objects point to them.  Operators
build their result in an object of their own, which is then constructed or
assigned somewhere, an operand included (`Result`).  The result is what the code's
element loops compute, read from the flat arrays; `call` keeps the matrix that is
meant, computed on rows and columns of the operands' values.  A loop is one
evaluation, since the object it writes is a local of the operator and the operands
are `const`: no operand changes before the result is complete, and what may go
wrong is the assignment that comes after.  Shapes without rows or without columns
are there, as the constructors take them (`new` gives such a matrix no elements).
A constructor makes an object where there was none: its slot must hold nothing.  Of the elements it is assumed that
arithmetic on them gives elements (`ElementsAssumption`), and that an array is
never taken for one that was freed or lost (`MatrixAssumption`): both hold by the
type of the array in the code.  A matrix that is move-assigned
drops the array it held, which is `Lost` (`matrix.h:81`), and every result of an
operator that is assigned goes this way.

### How `SocketOpt` corresponds to the code

The eight classes are two actions, `Set` and `Get`, over `Name` (level and name
given to the kernel) and the conversions of timeouts and linger.  The kernel
rounds a timeout up to its tick, doubles a buffer and refuses what is out of
range.  `asked` is the history of what was last set.  The model shows that
`SocketOptTcpNoDelay` sets `SO_DEBUG`, which has the number of `TCP_NODELAY` at the
level it names; that a buffer is read back doubled, which
`test/network/SocketImplTest` does not expect; and that a timeout next to the
largest `int` is read back negative.  `ReadsWhatWasSet` claims none of these: it is
about flags, linger and timeouts from 0 to a tick below the largest `int`, and is exact.

## 3. What the runs check

Twelve runs: eight that pass and four that show where the code departs from what
its comments say.

Bounds.  Two descriptors with two streams and a server is the smallest table in
which a descriptor number can be closed by one object and given to another while
a third still uses its own; with one descriptor there is no second owner, and a
third repeats the second.  `MaxBacklog` is 1: the queue is only tested for being
empty or full.  Symmetry is over objects of one kind (streams that are
moved to apart from the others) and over descriptors; no run with symmetry checks
liveness.

Sockets and channels:

| run | instance | properties | shows |
|---|---|---|---|
| `lifecycle` | 1 server, 2 streams, 2 descriptors, one family, `CloseErr = {"kept"}`, moves to one of the streams | `TypeOK`, `OwnsFd`, `OpenIsReal`, `ConnectingIsReal`, `ShutdownReported` | even when `close` fails and keeps the descriptor, and whatever is moved, no descriptor is shared and what an object says of its socket is what the kernel says |
| `channel` | 1 channel, 1 server, 2 streams, 2 descriptors, three families, moves; `close` works | `NoDescriptorLost`, `ClosedHasNoFd`, `EndpointsAgree`, `DeletedHoldsNothing`, `KeepsOwnership`, `ChannelCloseCloses`, `CreateReturns` | descriptors are never shared and never lost: the socket classes implement `DescriptorOwnership`; an object reused for another family reads its endpoints with that one; a closed or deleted channel holds nothing, and a `create` that passes its assertion goes through |
| `stale_shutdown` | 1 stream | `NewSocketNotShut` violated | `m_shutdown` survives close and create |

No fairness is assumed in these runs, since nothing in the library schedules
anything; whether a call is ever made is the application's choice.  `lifecycle`
checks deadlock.  In `channel` the program stops when the assertion of a channel's
`create` fails, so deadlock is not checked.  Two descriptors for four objects let
the table run out and let a channel meet its old number in the hands of another.

What these runs leave out, and what becomes of the properties there:

- A `close` that fails and *releases* the descriptor is in no run: `OwnsFd` and
  `OpenIsReal` are then false.
- With a `close` that fails and keeps it, `ClosedHasNoFd`, `ChannelCloseCloses` and
  `CreateReturns` are false: `close` of the channel asks `is_closed()`, which the
  failed close has made true, so that the retry returns true without a call, and
  `create` passes its assertion and throws.
- With `accept` into a `StreamSocket` that is open, `NoDescriptorLost` and
  `KeepsOwnership` are false: the descriptor it held is lost.
- Of an object something is moved to, `ShutdownReported` and `ConnectingIsReal` are
  false: it does not get `m_shutdown` with the descriptor.
- Address texts that do not parse and datagram sockets are in the model and in the
  theorems, and in no run.

Stream I/O:

| run | instance | properties | shows |
|---|---|---|---|
| `stream` | 3 bytes to send, 3 bytes of buffer, 2 on the wire, 4 sent in all, limits up to 1 byte beyond the buffer; blocking and not; with and without assertions | `TypeOK`, `SentArrives`, `AllReceived` | what is taken out behind the reader's position is what `Write` said was sent, through short transfers, refusals, resets and rewinds; a reader that goes on gets all of it |
| `reader_reset` | the same | `ResetMoves` violated | after `Reset(pos)` of the reader the next bytes are not at `pos`, as the comment at `socket_io_impl.h:84` says: line 86 compares and does not assign |
| `read_returns` | the same | `ZeroMeansClosed` violated | `Read` returns 0 of an open connection without data, and -1 with an error when the peer has closed; the comment at `socket_io_impl.h:37` says the opposite |

Three different bytes make a loss, a repetition and a wrong order differ.  A wire
of two with limits up to three gives short transfers in both directions;
`MaxSent` is more than the message, so that some of it is sent again after a
rewind, and more than the buffer, so that it fills up with bytes still on the
way.  One byte of `Excess` lets a transfer pass the end of a buffer, and lets a
build with assertions past its assertion.  `AllReceived` is the one property there
that needs fairness: that the application goes on calling `Read` without a limit
(`KeepsReading`), which is an assumption on the caller and is what a polling loop
does; it speaks of builds without assertions, since in the others that call stops
the program.  A program that was stopped does nothing more, so deadlock is not
checked.

Matrices:

| run | instance | properties | shows |
|---|---|---|---|
| `matop` | every 3 by 3 matrix modulo 3 | `TypeOK`, `SolutionsKept`, `PivotColumns`, `Terminates` | every step keeps the solutions of the equations; the column of a pivot that was used stays reduced; the loops end |
| `reduced_form` | every 2 by 2 matrix modulo 3 | `RegularReduced` violated | [[0,1],[1,0]], whose equations have one solution, is returned as it was passed |
| `tmatrix` | 2 objects, 3 arrays, shapes up to 2 by 2 and without rows or columns, two elements | `ArraysOwned`, `KeepsValues`, `LostOnlyByMove` | matrices are values, results assigned over an operand included; arrays are owned once, and lost only where a move or a result puts another array in their place |

Modulo 3 an element, its inverse and its negative differ; with three rows a
switch may pass over a row and a cleared row lies above and below the pivot.
The result need not be in reduced echelon form, whatever the rank: the search for
a row to switch with tests `m(r1, r1)` and not `m(r1, r)`, which becomes the pivot
(`matrix.h:351`), and a column without a pivot shifts nothing.  `SolutionsKept` and
`PivotColumns` are about what the code does reduce; that it ought to reduce more is
`RegularReduced`.  Fairness of `Next` in `Matop` says that a function that was called
runs on.  It returns in the end, so deadlock is not checked.

Two matrices show every operation with its operands equal or different, three
arrays the old, the new and the one of the other object.

The other components:

| run | instance | properties | shows |
|---|---|---|---|
| `datagram` | 2 addresses over 3 implementations, 2 packets of 3 bytes, ANY, a sender of each family | `OwnedOnce`, `SentWhereAddressed`, `WithinPacket`, `KeepsAddresses` | addresses are values owned once; a datagram goes to the address and port the application gave, whatever was received, but not to a scope it chose; a packet stays in its buffer |
| `byte_buffer` | programs of one type (char, float, int64, double) and one that mixes int16 and int32; both byte orders of machine and buffer; both builds | `CharsInside`, `ReadBack`, `BytesInOrder` | what is put inside the array is read back, in the byte order that was set; of chars, the assertions keep a program in the array |
| `utilities`, URLs | every text of 3 symbols of 7, every text "x://" and 5 more, bracketed ones, and URLs of parts whose ports have up to `MaxDigits` = 3 digits, ints up to 80 | `AcceptsUrls`, `PartsCompose`, `RoundTrip` | URLs are accepted with their parts, what is accepted is its parts, composing and parsing agree |
| `utilities`, errors | 3 objects, 3 errors, a hint, stacks of 3 | `ReportsOneError`, `ErrorsAreReported`, `NoErrorLost` | code, message and hint are those of one error on the stack; none is lost |
| `utilities`, options | seven values, a tick of 2 ms, seconds of 10 ms, ints of 6 bits, two calls of `Set` | `WaitsAsAsked`, `ReadsWhatWasSet` | calls wait as asked and what is read is what was set, on every new socket |

Address objects are as matrices, where the third implementation is the one a copy
is made in.  A second packet is what a copy or a move needs; three bytes let two
receives differ in length.  In `byte_buffer` an array has room for the two values of
a fill and one more, so that the limit and the end of the array are reached apart.
The URL texts after "x://" are long enough for a bracketed host, a colon and a digit,
or a colon, a port and a path; a port of three digits passes `INT_MAX` = 80, and
then nothing is claimed of its value, in the code's own terms: it is an `int`.  Three
errors are what it takes to have one merged, one moved and one recorded after it.
No clean error is merged (`Uses`): `ErrorsAreReported` is false with that.  The units of
the options keep what matters of the real ones: a second is a whole number of ticks
and a tick longer than a millisecond.  `byte_buffer` and `datagram` stop at a failed
assertion, a URL at the end of its text, the errors and options at their bounds; these
runs do not check deadlock.

### Disagreements that have no run

A reader of the code will meet these; the model follows the code, and the properties
neither claim nor deny them.

- With assertions compiled in, as `CMakeLists.txt` has it, `StreamSocket::send` and
  `receive` without a limit stop the program at once (`socket_io_impl.h:40`, `:119`).
- The comment on `Write` (`socket_io_impl.h:116`) says, as the one on `Read` does, that 0
  means that the peer has closed; `Write` returns 0 when the kernel takes nothing.
- A `Read` into a full buffer asks for 0 bytes, gets 0 and records "connection closed
  by peer".
- `socket_impl_test.cpp:101-102` expects a socket's buffers to be read back as they were
  set; Linux doubles them.  `TCP_NODELAY` is never set (`socket_opt_impl.h:172`).
- A timeout within a tick of the largest `int` is read back negative.
- An error recorded without a hint keeps the hint of an earlier one (`error.h:74`), and
  merging a clean error hides those on the stack (`error.h:89`).

## 4. What is proved

### Sockets

For any number of objects and descriptors, any backlog and any environment the
assumptions of `SocketImpl` admit:

| theorem | statement | extra assumption |
|---|---|---|
| `TypeCorrect` | `Spec => []TypeOK` | none |
| `OwnershipHolds` | `Spec => []OwnsFd` | a failed `close` does not release |
| `OpenHolds` | `Spec => []OpenIsReal` | a failed `close` does not release |
| `ReportsHold` | `Spec => []ShutdownReported` | the same; of the objects nothing is moved to |
| `ConnectingHolds` | `Spec => []ConnectingIsReal` | the same |
| `Implements` | `Spec => KeepsOwnership` | `close` does not fail, no `accept` into an open socket |
| `NothingLost` | `Spec => []NoDescriptorLost` | the same |
| `ClosedHolds` | `Spec => []ClosedHasNoFd` | `close` does not fail |
| `EndpointsAlwaysAgree` | `Spec => []EndpointsAgree` | a failed `close` does not release |
| `ChannelsAreSockets` | `ChannelSpec => Spec` | `close` does not fail, no `accept` into an open socket |
| `DeletedHolds` | `ChannelSpec => []DeletedHoldsNothing` | the same |
| `CloseCloses` | `ChannelSpec => ChannelCloseCloses` | the same |
| `CreateHolds` | `ChannelSpec => CreateReturns` | the same |

The extra assumptions are needed: TLC finds counterexamples when they are dropped
(`CloseErr = {"kept"}` for `ClosedHolds`, `Uses = {"acceptOpen"}` for `NothingLost`).
If a failed `close` releases the descriptor, as Linux does on `EINTR`, the object goes on using a number that the kernel gives to
another socket, and closing it again closes the other's: `OwnsFd` and `OpenIsReal`
fail with `CloseErr = {"released"}`.

The argument.  `OwnsFd` is not inductive: that the holder of `o`'s descriptor is
`o` says nothing of a descriptor that is open and that nobody holds, and
`Create` might be given such a number.  The invariant is
`OwnInv == TypeOK /\ OwnsFd /\ HolderOpen`, where `HolderOpen` says that exactly
the open descriptors have a holder.  A new descriptor is then nobody's, an
object's call changes only the socket it owns, and all state invariants follow
object by object: the lemma `Frame` says that an action on `o` leaves the
kernel socket of every other object alone, and what an action does to `o` itself
is read from the tables of `PosixSocket` (`ConnectFacts`, `ListenFacts`,
`ShutdownFacts`).  `Implements` maps each action of `SocketImpl` to `Acquire`,
`Release`, `Transfer` or a stutter; `NothingLost` needs besides that a holder
never changes while its object has the descriptor.

`EndpointsAlwaysAgree` is about objects that are reused: `FamilyInv` adds to `OwnInv`
that whoever has a descriptor knows its family (`Knows`).  `Create`, `accept` and the
moves set descriptor and `m_domain` together (`TakeKnows`), and no call changes the
family of another's descriptor (`OtherGets`).

The channels take over these invariants, since the steps they make on sockets are
`Create`, `Close` and `Destroy` of `SocketImpl` (`ChannelCalls`); a close that has
nothing to do is the `Close` of a socket without a descriptor (`CloseIsClose`), and the
other sockets leave a channel's alone (`OthersKeepChannel`).  `ChannelInv` adds to
`OwnInv` that no descriptor is lost, without which a deleted channel could leave one
behind that was opened for it.  By `ChannelsAreSockets` every theorem about `Spec`
holds of a process with channels.

### Streams

For every message, every size of the buffers and of the wire, every limit and both
builds:

| theorem | statement |
|---|---|
| `TypeCorrect` | `Spec => []TypeOK` |
| `ArrivesHolds` | `Spec => []SentArrives` |

`TypeCorrect` says besides the types that no position passes the end of its buffer,
since a transfer that would ends the program.  `SentArrives` speaks of what the
application was told; that `Write` sends on from there, also after a short transfer,
needs that the writer's position is the one its caller knows (`Positions` in
`StreamInv`).  The reader's caller may be behind, since `Reset` leaves the reader
where it is, but is never ahead.  Each step then appends the same bytes to the wire
and to what was acknowledged, or moves bytes from the front of the wire to the end of
what was taken, or cuts the wire, which leaves a prefix (`PrefixCut`).  The message is
a sequence of its own bytes (`StreamAssumption`).

### Matrices

For any size with no more rows than columns, over any field (`FieldAssumption`
lists the laws used):

| theorem | statement |
|---|---|
| `PivotsHold` | `Spec => []PivotColumns` |
| `TypeCorrect` | `Spec => []TypeOK` |
| `SolutionsHold` | `Spec => []SolutionsKept` |
| `LoopsEnd` | `Spec => [](StepsLeft \in Nat) /\ [][CountsDown]_vars` |

`PivotColumns` is not inductive: a division of row `r` keeps the column of an
earlier pivot only because row `r` is zero there, and a switch only because both
rows come after all pivots.  `Progress` adds where the loop is: which rows may
have served at each `pc`, and that the divisor is not zero.  One lemma says what
each row operation leaves at each place; `ClearStep` is where the field is used.

`SolutionsKept` is about sums over the columns.  That sums are linear follows from
the laws of a field by induction over the columns, which is out of the prover's
reach, so `SumAssumption` states it; TLC evaluates it on every row modulo 3.  Then a
row that is divided has its side divided (`DividedSide`), a row that is added adds
its multiple (`AddedSide`), and `Progress` says that no divisor is zero.

`LoopsEnd` is the safety half of `Terminates`: `StepsLeft` counts the steps both loops
may still take, and each step lowers it.  It needs `Progress` too, that no row is
divided or cleared after the last.

For any number of matrices of any shapes, over any elements (`TMatrix`):

| theorem | statement |
|---|---|
| `OwnedHolds` | `Spec => []ArraysOwned` |
| `LostHolds` | `Spec => LostOnlyByMove` |
| `ImplementsValueObjects` | `Spec => KeepsValues` |

The invariant is `MatrixInv == MatrixTyped /\ ArraysOwned`: an object without an array
has no elements.  As with addresses, the arrays change in a few ways, each with a lemma
on what it does to every object's value and to what was lost before (`Allocated`, which
is `NewArray` or, of a shape without elements, `NoArray`; `HandedOver`, `WrittenOver`,
`Kept`).  `LostHolds` reads from them that an array is lost only where its object gets
another one in a move or from a result.  That element `i, j` lies at
`i * cols + j`, that no two elements share a place and that none lies outside are
the lemmas on offsets; with them what an operation computes place by place in the
flat array is what it should be on rows and columns (`ProductFollows` and the others
of that name).  That the product's sums are elements is part of `ElementsAssumption`,
for the same reason as above.

### Addresses and datagrams

For any number of addresses, implementations and packets, any capacities and any
senders:

| theorem | statement |
|---|---|
| `AlwaysOwnedOnce` | `Spec => []OwnedOnce` |
| `ImplementsValueObjects` | `Spec => KeepsAddresses` |
| `AlwaysSentWhereAddressed` | `Spec => []SentWhereAddressed` |
| `AlwaysWithinPacket` | `Spec => []WithinPacket` |

The pointers change in four ways only, and there is a lemma for each: `Allocated`,
`Deleted`, `HandedOver`, `WrittenOver` say what it does to the ownership and to the
value of every object.  Their hypothesis is `AddressInv == AddressTypeOK /\
OwnedOnce`, since an object whose implementation another one could free has no
value of its own.  Each action then is one of the four (`AddressStep`), and a send
or a receive is a `WrittenOver` that leaves address and port (`IOStepKeeps`).
`SentWhereAddressed` follows from the invariant `Given`: what the calls alone say an
object was given is the value that its pointer and implementation make.  The scope id
is no part of either.  `WithinPacket` needs only that lengths and capacities are naturals: `receive` adds
to the room, which a packet within its buffer has.

### Errors

For any number of objects, hints, errors and lines:

| theorem | statement | extra assumption |
|---|---|---|
| `ReportsHold` | `Spec => []ReportsOneError` | none |
| `ReportedHolds` | `Spec => []ErrorsAreReported` | no clean error is merged |
| `NothingLost` | `Spec => []NoErrorLost` | none |

Each is inductive given the types.  What they rest on are three lemmas on the lines
of a stack: of one line appended, of two stacks spliced and of the empty one.

### Byte buffers

For arrays of every size, machines and buffers of both byte orders, both builds and
every program:

| theorem | statement |
|---|---|
| `CharsHold` | `Spec => []CharsInside` |
| `BytesHold` | `Spec => []BytesInOrder` |
| `ReadBackHolds` | `Spec => []ReadBack` |

`CharsInside` is inductive together with the types (`CharInv`): of chars, what remains
up to the limit is what remains up to an element, so that an assertion that passes
keeps the access in the array and the position within the limit.  That the bytes of a
value stay where they were put is not inductive: the next value might be stored over
them.  `FillInv` adds that the values of a fill of one type lie in the array (`Fits`)
and that the position is behind as many values as were put, or taken (`AtPosition`);
values of one type lie `8 * Size` apart, or 1 apart for `char`, so that a value put at
the position disturbs none before it (`Distance`, `Places`).  `ReadBack` follows where
two reversals cancel, those of the machine and of the buffer (`OrdersCancel`,
`StoredValue`).

### URLs

For texts of every length over any symbols, for the URLs made of any parts whose
port has digits, and for every `INT_MAX`; of ports no `int` holds, nothing is claimed,
and of a text behind which the parser runs on, only what it returns if it does:

| theorem | statement |
|---|---|
| `PartsHold` | `UrlSpec => []PartsCompose` |
| `AcceptsHold` | `UrlSpec => []AcceptsUrls` |
| `RoundTripHolds` | `UrlSpec => []RoundTrip` |

The proof first says what parsing makes of a text as functions of the text: where its
schema and its host end (`Colon`, `End`), and when a port is refused.  `ParseInv`,
which is inductive, says that each step has found just that, and that a text is
refused only where one of these functions says so.  The rest is about texts alone.  `PartsHold`
is that schema, slashes and host are the text up to `End` (`FrontFacts`).  For
`AcceptsHold`, `UrlEnd` counts brackets: in a host by name there are none, and in one in
brackets one is open at every symbol but the first and the last, so that no colon
ends it.  `RoundTripHolds` is `AcceptsHold` for a text whose pieces are those it was
composed of (`ComposedUrl`, `MiddleOf`); a host that was put into brackets is not put into
them again (`BracketFacts`).

### Socket options

For every value asked for, every number of ticks that divides the second and every
width of an int that holds the milliseconds of a second:

| theorem | statement |
|---|---|
| `WaitsHold` | `OptSpec => []WaitsAsAsked` |
| `ReadsHold` | `OptSpec => []ReadsWhatWasSet` |

The invariant `OptInv` says that the kernel keeps of each option what was last set,
and that what was last set of a timeout is a time it accepts; it is inductive since
no two options have the same name (`Names`).  The rest is arithmetic: a positive time
becomes that time rounded up to a tick (`RoundedUp`), which is read back as so many
milliseconds (`WaitRead`), the same as was asked but for the rounding; buffers,
`TcpNoDelay` and timeouts that are negative or within a tick of the largest `int` are
not part of the statement.

### Only model-checked

`AllReceived` and `Terminates`, which are liveness and out of the prover's reach
(`LoopsEnd` is what there is to prove of the latter); for every other property of a
passing run there is a theorem.  That sums of a row are linear (`Matop`) and are
elements (`TMatrix`) are inductions over data, and are assumptions that TLC
evaluates.  The four refutations are runs by nature.

## 5. Plan

Every part the plan named is modelled.  Worth adding:

- a byte pipe as the abstract specification of `StreamIO`, with the refinement that
  `SentArrives` now states as an invariant.

## 6. Not modelled, and why

- `system_error` and the wording of all messages: formatting, no state.
- `gethostbyname`-like look-ups in `InetAddress`, `tools/lsnetaddr`: I/O whose
  result is the system's.
- `Selector`: `SelectorImpl` declares its methods and defines none, and
  `mercury/nio/channel.h`, which the code includes, is not in the repository.
- `tools/echoserver` and the tests: clients of the library.
- `ByteBuffer::allocate` and `ByteOrder::native` are declared and defined nowhere in
  the repository; a buffer is one over an array its user owns.
- The enumeration of interfaces (`getifaddrs`), and copies and moves of a `URL`,
  which hand over to those of strings.
