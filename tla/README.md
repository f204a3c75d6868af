# A TLA+ verification of bosh

bosh is a BOSH connection manager: web clients send XMPP stanzas in the body of
http requests, the server keeps a connection to a jabber server for each client,
and holds a request open until there is something to answer it with.  It is one
C process with one thread and an epoll loop; every piece of logic is a callback
that runs to its end.  What makes it hard is the order of the callbacks, the
pointers that sessions, http connections and sockets keep to each other while any
of them may go away, and the timeouts.

All source paths below are under `src/src/`.

## Inventory

| component | state | operations | interacts with |
|---|---|---|---|
| `jabber_bind.c`, the connection manager | `JabberBind`: list of clients, hash of sids, counters; `JabberClient`: pending http connection, queue of messages, last activity, wait, jabber socket | requests (`jb_handle_request`, GET, POST, new session, terminate), jabber data, errors and connection result (`jc_*`), timeouts (`jb_check_timeout`), loop (`jb_run`), signal, start and stop | is called by http_server and socket, answers with `hs_answer_request`, sets a close callback on the connection it holds |
| `http_server.c` | list of `HttpConnection`: buffer, parsed header, close callback, socket | accept, read and process, error, answer, delete | called by socket, calls jabber_bind's request and close callbacks |
| `http.c` | none | `http_parse`, `make_http_head`, `http_get_field` | called by http_server |
| `socket.c` | `Socket`: descriptor, status, `SocketInfo`, output queue, four callbacks | connect, listen, accept, send, recv, close, flush, `socket_callback` | registers with the monitor, calls its owner |
| `socket_monitor.c` | epoll descriptor, table from descriptor to `SocketInfo`, count | add, delete, add and delete events, `sm_poll` | calls `socket_callback` |
| `list.h` | rings of nodes through a head; iterators are nodes | insert, erase, push and pop at both ends, iteration | nodes come from the allocator; sessions, connections, queues |
| `hash.h` | table of chains, count | find, insert, insert or replace, erase, resize, clear | nodes come from the allocator; the sids |
| `allocator.h` | a ring of blocks of unused objects, with a current block | alloc, free | every container and struct |
| `log.c` | `log_conf`: the log file, its name, the rotation size | `_log`, `log_rotate`, `log_init`, `log_quit` | is called by everything, the signal handler included |
| `time.c`, `main.c` | clock; start-up | | |
| iksemel | external XML parser | | feeds `jc_handle_stanza` |

What is hard, and what each component must get right:

* **jabber_bind.**  `JabberClient.connection` and `HttpConnection.close_data` point
  at each other and are set and cleared in six functions.  A request must be
  answered once: when messages come, when another request takes its place, when it
  times out, when the session ends for any of five reasons.  The list, the hash and
  the counters must agree.  `jb_check_timeout` closes sessions only after walking
  the list, and `jb_closest_timeout` decides how long the loop may sleep.
* **http_server.**  Requests arrive in pieces, joined or cut anywhere; the header is
  parsed once and kept while its content is awaited; the buffer is finite.  A
  connection is deleted in a callback of its own only.
* **socket.**  `send()` takes a part of a buffer, blocks or fails; data is queued
  before the connection exists; a callback may be set before or after it; closing
  leaves NULLs that must not be reached.
* **socket_monitor.**  A batch of events is dispatched while callbacks open and close
  sockets, and the kernel gives out descriptors again.
* **the containers.**  All lists share the freed nodes of one allocator, sessions keep
  iterators into a list, and `jb_check_timeout` walks that list while it fills another
  and while answers it causes fill a third.  An object must not be handed out twice at
  the border of two blocks; a key must survive any mix of inserts, erases and resizes.
* **log.**  The signal handler logs, so `_log` and `log_rotate` run inside of
  themselves at any step; `rename()` and `fopen()` may fail; two rotations may have
  one date.

The hazards, each at its line and with the properties that cover it, are listed in
`PROJECT.json`.

## Modules

| module | what it is |
|---|---|
| `BoshSession` | abstract: what a session promises, seen from outside |
| `JabberBind` | `jabber_bind.c` and the part of `http_server.c` it calls; implements `BoshSession` |
| `MCBind` | its symmetry and waits for TLC |
| `JabberBindProofs` | its theorems |
| `SocketMonitor`, `MCMonitor`, `SocketMonitorProofs` | `socket_monitor.c` with `socket.c`'s calls to it |
| `Socket`, `SocketProofs` | one connected socket of `socket.c`, each `send()` a step |
| `HttpConnection`, `MCHttp`, `HttpConnectionProofs` | `hc_read` and `hc_process`: bytes into requests |
| `Allocator` | `allocator.h`: the ring of blocks |
| `ValueLists` | abstract: some sequences of values, one of which changes at one place at a time |
| `LinkedList`, `LinkedListProofs` | `list.h` over `Allocator`, pointer by pointer; implements `ValueLists`; the theorems of both |
| `KeyValueMap` | abstract: a map |
| `HashTable`, `HashTableProofs` | `hash.h`, the loops of resize and clear step by step; implements `KeyValueMap` |
| `Registry`, `MCRegistry`, `RegistryProofs` | the clients of `jabber_bind.c` in their list and their hash, and `jb_check_timeout`'s walk; composes `LinkedList`, `Allocator` and `HashTable` |
| `LogRotation`, `LogProofs` | `_log`, `log_rotate`, `log_quit` and the signal handler |

### JabberBind

One action per callback, because a callback runs to its end before the next one.
The fields of the structs are functions over the constants `Clients` and `Conns`;
`http[h] = "freed"` says that the struct is not allocated, `"IDLE"` that it is but
its socket is closed.  Messages are counted, times are ticks: `idle[s]` is the time
since `timestamp`.  `phase` is the place in the loop of `jb_run`: `top` (test of
`running`, `jb_closest_timeout`), `poll` (in `epoll_wait`), `dispatch` (callbacks),
`check` (`jb_check_timeout`).  `jb_closest_timeout` takes the time and `epoll_wait` begins
to count a log line later (`socket_monitor.c:169`); the model has one moment for both, so
`NeverOversleeps` leaves out these milliseconds.  The peers and `send()` are free: any
answer may fail or block on any connection it is sent on, so `AnswerHeld` and `JcSetHttp`
choose the connections that fail and those that keep unsent data.

`awaiting` is what the web clients know: the requests without an answer.  It is
changed where an answer is sent or a connection closes, and by nothing in
`jabber_bind.c`; that it equals the set of held requests is therefore a property.

`Pipelining` says whether a web client may send a request on a connection before
the last one is answered.  Clients that wait are the normal ones (a browser's
XMLHttpRequest), and the properties about pointers are stated for them; the other
kind breaks one, see the findings.  `MayRefuse` says whether `connect()` may fail
before it returns; the run `bind_safety` allows it, and its state `crashed` ends
the behaviour.

### SocketMonitor

Descriptors are numbers and a new socket gets the lowest free one, as from the
kernel.  `batch` holds the events `epoll_wait` returned, with the socket each was
about; any order is possible.  `current` is the socket whose callback runs; while
it runs, any sockets may be opened, closed, or change their events.

### Socket

Bytes are numbered, so that the order and the loss of bytes can be spoken of:
`wire` is the sequence of those the kernel took, and a queue item is an interval of
numbers with an offset.  `sock_flush_data` is a loop with one step per `send()`.
`corked` records that the owner's last `sock_send` had more to come: every caller
(`http_server.c:77-78`, `:349-350`, `jabber_bind.c:590-592`) ends with one that has
not, before it returns to the loop.  `StaleEvents` lets an event arrive that the
socket did not ask for, which the fourth finding makes possible.

### HttpConnection

A byte is a pair: its request and its place in it.  The client chooses the sizes of a
request when it begins it (`ClientBegins`), what `Content-Length` says, and the form of
the header, and then sends the bytes one by one; whether it waits for each answer is
chosen at the start; the network delivers any number of bytes at a time.

`Content-Length` is what `atoi()` makes of the client's text, an int that nobody checks
(`http_server.c:162`), and need not be the size of the content.  The model computes with
it as the code does: the sum with the size of the header is an int and wraps (`Wrap`,
`:172`), a negative one is a huge `size_t` where it is compared with the size of the
buffer (`AsSize`, `:179`), the callback gets the length as a `size_t`, and `memmove`
cuts at the sum, which a negative length puts inside the header.  With a negative sum
the request is neither too big nor ever complete: the connection waits until the buffer
is full, and then `recv()` of no bytes closes it (`HcReadFull`).  A buffer that begins
in the middle of a request, as one does after an untrue length, holds bytes of the
client's choosing, so that any header may be read from it or none (`Misread`).

`http_parse` is modelled by what `hc_read` sees of it (`HttpParse`): nothing until the
blank line is there; then a header it understands, or one it never understands, or one
that it understands late: the colon of a line without one is looked for in all that
follows (`http.c:137`), and a later byte may be one.  The blank line is one byte of the
model and four in the code; a piece that ends inside it counts as one that ends before
it.  Contents hold no blank line of their own.  Headers end in CRLF CRLF: `http_parse`
also takes bare line feeds, which `hc_process` does not look for, and this case is left
out (it is listed under the hazards).

Any client is in the model, and what can be promised depends on what it says.  The types
and the bound of the buffer hold for all.  `RequestsWhole` and `BufferAligned` hold up to
the first `Content-Length` that is not true (`TruthfulTo`), and that request still comes
with its own header; `RequestHandled` is about a request that is true and comes after
true ones.  After a false one the code does what is described above; what
the callback makes of a size that is not that of the data is outside of this module.

### Allocator, LinkedList, HashTable, Registry

The ring of blocks is a sequence that starts at the block `_allocator_buffer` points
to, so moving the pointer is a rotation.  Objects are numbered as `malloc()` gives
them.  A list is the pointers of its nodes and its head: `next` and `prev` are
functions over heads and nodes, and `Walk(l)` is what `list_foreach` meets.  A node that
is freed is poisoned with `NULL`, so that an iterator used after its node was freed
leads nowhere; the allocator gives it to the next list that asks.  A slot of the hash
is the sequence of its chain.  `_hash_resize` and `hash_clear` are loops, and each pass
is a step: `task` is the loop that runs, and nothing else runs meanwhile.

`Registry` puts them together the way `jabber_bind.c` does: a session is a node of
`jabber_connections` whose iterator it keeps, and a value of the hash of sids.  The
three phases of `jb_check_timeout` (walk, close those found, end) and the loop of
`jb_delete` are steps, and between two steps any other list of the program (`queue`)
may take or free nodes: an answer sent from the walk does.  `JabberBind` uses the list
and the hash as sets; `RegistryAgrees` is why it may.

### LogRotation

Two activations of the same code, the program's and the signal handler's; the handler's
runs to its end while the other waits.  A step is one read of `log_conf.file`, or one
call of libc: the program is built without `-O`, so each mention of the variable is a
load, and `held[a]` is the `FILE` an activation has read and will use in its next step.
A signal may fall between the two, or while libc is at work, and its handler may then
close that `FILE` (`log.c:212-213` against `:149`).  What `fopen()` returns and its store
into `log_conf.file` are two steps as well.  Files are numbers, a name holds a file, a
line goes to a file.  A `FILE` that was closed is the value `Closed`, or a standard
stream in `shut`; using one, or the file name that `log_quit` has freed, is undefined
behaviour and ends the behaviour with `undefined`.

`ClosedFileUsedAfterSignal` says in which ways that comes about: there are four, listed at
the property, and each needs a signal that is logged.  Handlers do not nest.  That stdio
and `malloc()` may be entered again by a handler while they hold their own locks is left
out; that `log.c` closes a `FILE` in use is its own doing, and is not.

## Runs

All runs of the project are listed in `PROJECT.json` with their properties.

* `bind_safety`: three connections, two sessions, session timeout and idle bound 3,
  waits 2 and -1 (the attribute is not checked by the code), one queued message.
  Three connections for two sessions give: a request replaced by another while a
  third connection is idle, or both sessions holding one.  A queue of one tells
  empty from not empty, which is all the code tests.  Connections and sessions are
  interchangeable, so both are symmetry sets.  About 250 000 states.
* `bind_liveness`: two connections, two sessions, no symmetry.  Fairness is weak
  fairness of the steps of the loop and of time, and nothing else: a batch of events
  is finite, a callback ends, the clock goes on.  No peer, signal or event is assumed
  to come.  A request is answered or lost its connection, an idle session is reaped,
  a signal stops the server, also when it comes between the test of `running` and
  `epoll_wait`, where it does not end the wait.
* `monitor`: three sockets, three descriptors and batches of three events, the
  smallest in which one callback closes one of the remaining sockets, opens another
  on its descriptor, and leaves a third event to be delivered.
* `socket`: buffers of up to 3 bytes, 5 in all: two buffers with a part of the first
  sent.  Stale events and refused connections included.  Fairness: a flush and the
  owner's callback run to their end (weak); and strong fairness of the kernel's report
  that the socket is writable or that the attempt to connect has ended, when the socket
  asks for it (`"OUT" \in events`; stale events happen but are never counted on), and of
  `send()` taking some byte, which is to say that the peer reads.
* `http_connection`: a buffer of 5, headers of 2 or 5 bytes, contents of 0 or 2, two
  requests, ints up to 7, and lengths of -7, -2, 0, 2 and 7, true or not.  The sum of
  header and length is then negative, zero, inside the header, the header, header and
  content, or it overflows; a request is longer or shorter than it says; one that fills
  the buffer exactly is refused (the test is `>=`) and one that is a byte shorter is
  taken.  The second request shows what the first has left in the buffer.  Only the
  reading of data that is there is fair.  Deadlock is not checked: a connection that is
  closed stays closed, and a client need not send.  About 438 000 states.
* `registry`: two sessions, one queue, sids 1 and 3, table sizes 1 and 2: both sids
  share a slot before and after the resize, so chains have two nodes.  Blocks of two
  objects and `malloc()` for two at a time, six objects at most: the ring grows to two
  blocks and more, and the pointer crosses their border both ways.  Three nodes in use
  outside of `to_close` are enough for both sessions and a node that is freed and given
  to another list in the middle of a walk.  Fairness is weak fairness of the steps of
  `jb_check_timeout` and of the loops of the hash, which are a callback's.  Deadlock is
  not checked: after `jb_delete` nothing is left to do once the bounds are reached.
  About 124 000 states.  Two operations of the hash are not reached here: the program
  replaces no sid, and the hash is empty when `jb_delete` clears it.  For
  `hash_insert_replace` and the loop of `hash_clear` the theorems about `HashSpec` stand
  alone.
* `log`: rotation off, and at one and two lines; three lines, three signals, the seconds
  0 and 1.  A signal comes between any read of `log_conf.file` and its use; three of them
  let a handler come into each of two rotations, and once after `log_quit`; two seconds
  let two rotations have one date or two.  Deadlock is not checked: the bounds stop the
  program.  About 1 070 000 states.
* `bind_pipelining`, `bind_send_error`, `bind_refused`, `monitor_stale`, `list_insert`:
  each shows a finding.

Every property is shown to depend on the code by a mutant of a definition, next to
the definition it replaces and marked `Mutant`.

## Findings

1. `bind_pipelining`: `hs_answer_request` clears the close callback of the
   connection whichever request it answers.  A second request on a connection whose
   first is held, answered at once, leaves the session pointing to a connection that
   nobody will tell it is gone (`http_server.c:352`, against the comments at
   `jabber_bind.c:503` and `http_server.c:140`).
2. `bind_send_error`: a failed `send()` closes the socket and calls nobody
   (`socket.c:166` against the comment at `socket.c:474`).  An http connection stays
   in the list until the server stops, a session until its timeout.
3. `bind_refused`: a `connect()` that fails at once leaves the number of a closed
   descriptor and no `SocketInfo`, and `sock_delete` dereferences NULL
   (`socket.c:288`, `:116-117`).
4. `monitor_stale`: an event of a closed socket is handed to the socket that got its
   descriptor (`socket_monitor.c:99-107`, against the comments at `:160` and `:176`).
5. `list_insert`: the new element comes before the one the iterator points to; the
   comment says after (`list.h:74`, against `:73`).  `list_push_back` and
   `list_push_front` rely on what the code does.

## Proofs

TLAPS proves the following for every value of the constants that satisfies the
assumption each module names (`BindAssumption`, `MonitorAssumption`,
`SocketAssumption`, `ConnectionAssumption`, `AllocatorAssumption`, `LogAssumption`,
`HashAssumption`, `ListAssumption`, `RegistryAssumption`).  The last two say that heads,
nodes and `NULL` are different things, as addresses are, that `jabber_connections` and
`to_close` are two lists, and which values the lists and the hash hold.

* `JabberBindProofs`.  `TypeCorrect` and `NoMessageWaitsBehindRequest` and
  `RegistryAlwaysConsistent` need nothing of the clients.  For these
  `SessionInv` is inductive: list and hash are equal, the count is the cardinality,
  dead sessions have no request, no message and no socket, and a session that holds
  a request has an empty queue.  The properties about pointers are proved under
  `~Pipelining`.  None of them is inductive alone: that a session's connection is
  open and will tell it needs that no two sessions hold one connection, which needs
  the callback to name the holder, and that a request on a connection only comes when
  none is awaited there, which needs `awaiting = Requests`.  `PointersInv` is their
  conjunction with the types.  `BindImplementsBoshSession` proves the refinement: the
  initial states map to initial states and every step to a step of `BoshSession` or a
  stutter.  `LoopNeverOversleeps` goes through the minimum computed at the top of
  the loop and the ticks since; `ReapsOnlyIdle` follows from the guard of the list of
  sessions to close and the types.
* `SocketMonitorProofs`.  `TableInv` is the conjunction of the four state properties:
  the count is natural only because it counts the open sockets, and it counts them
  only because a descriptor belongs to one socket.  `SkipsOnlyClosed` adds the step: an
  event is dropped only when the table has nothing at its descriptor, or something new.
* `SocketProofs`.  `SocketInv` is the conjunction of the six state properties.  Bytes
  are taken in order because the queue goes on where the wire ends, which holds while
  the socket is open, which the status of a socket that flushes implies.
* `HttpConnectionProofs`.  `ConnectionAssumption` asks that the buffer and an int fit a
  `size_t`; `Lengths` may be any ints.  `ConnectionInv` says that the requests lie in the
  stream one behind the other (`StreamInv`) and that the buffer, within its bound, holds
  bytes of it (`Holds`); and, as long as the delivered requests were true, that the buffer is
  the part of the stream behind them (`Aligned`), that a header that is kept is that of
  the request the buffer starts with (`HeaderOf`), that a client that waits is one
  request ahead (`WaitingInv`), and that the requests came whole.  `Waits` needs no
  truth: without an error, a request whose header is kept is not complete.
  `ParseFacts` is the centre: in a buffer that is such a part, the first blank line ends
  that request's header and no other, so that `http_parse` reads that header or none.
  `TotalFacts` is the arithmetic: a sum that is complete in the buffer lies in it, and has
  not wrapped if the length was natural.  From both, `hc_process` takes what belongs to a true request (`WholeRequest`), and what `memmove`
  leaves is such a part again.  `ConnectionInv` was checked by TLC on the constants of the
  run before it was proved.
* `LinkedListProofs`, the allocator.  `AllocatorInv` is: types; no object in two places; the ring holds
  exactly the unused objects; and `RingStacked`, that going back from the current block
  the blocks are full and then empty.  The last is what makes looking at two blocks
  enough.  It does not survive a rotation by itself: that the block before, or the next,
  is the right one to move to follows from the split, case by case.
* `LinkedListProofs`, the lists.  `Walk` follows pointers, a recursion; the invariant is
  about the sequence it gives instead.  `IsRing` says of a sequence of nodes that they
  differ and that the pointers of each vertex (the head has the number 0, and the number
  behind the last node again) lead to its neighbours.  `WalkAroundRing` connects the two:
  when a sequence is a ring, the walk from the head is that sequence.  Its induction is
  done by hand, with the least number of steps that would leave the ring (`LeastNumber`).
  `ListInv` then says that every walk is a ring, that no two rings share a node, and that
  the rings hold exactly the nodes in use.  The last is what links it to the allocator: a
  node that `Alloc` hands out is on no ring, so the two pointers that an insert changes
  are those of its own list (`InsertStep`, `EraseStep`), and every other list still is
  what it was (`OtherListUntouched`).  `RingsClosed` follows because the reverse of a ring
  is a ring with the pointers exchanged.  `ListsAreSequences` is the refinement: a list
  after an insert is `Ins` of the list before at one place, and taking the value out
  again there gives the list before.  `ValueLists` leaves the place open; which one
  `list_push_back` and `list_push_front` choose is not part of it.
* `RegistryProofs`.  `RegistryInv` has `ListInv` and `HashInv`; that the iterators and the
  nodes of the list name each other (`Listed`); that the nodes of the hash are the
  clients under their sids (`Hashed`); that each waits once in `to_close` (`WaitOnce`);
  and what each phase of `jb_check_timeout` has done so far.  While it walks, its cursor
  is a vertex of the list, and `to_close` holds the expired ones of those before the
  cursor (`Scanning`); afterwards the expired ones that are alive are those in `to_close`
  and the one in its hands (`Closing`), and when nobody is left, what lives was not
  expired.  `RegistryAgrees` alone is not inductive: that a close finds the client's own
  node needs the iterators to be right in both directions, that it finds the client's own
  entry needs sids to be unique, and that a client taken from `to_close` still exists
  needs that nobody waits twice.  `RegistryInv` was checked by TLC on the constants of
  the run `registry` before it was proved.  `RegistryUsesLists` and `RegistryUsesHash`
  prove that each step is a legal operation of `LinkedList` and of `HashTable`, or leaves
  them alone, so their theorems hold in the composition (`RegistryComponents`).
* `LogProofs`.  The invariant says where `log_conf.file` may point at each step of the two
  activations and what each of them holds (`StreamInv`, with a part for the program, one
  for the handler, one for what both have read and one for the standard streams);
  that what has a name is not overwritten (`NameInv`); and how many lines the file with
  the name of the log may have at each step (`SizeInv`).  `ClosedFileOnlyAfterSignal`
  needs the first: a `FILE` in the hands of an activation is open unless the other has
  run since it was read.
* `HashTableProofs`.  A table is looked at as the set of its nodes.  `HashInv` says that
  each of the two tables has a key in one place, that every node of the new table hangs
  from its slot, that no key is in both tables, and that the count is that of the keys
  of both.  A step of `_hash_resize` takes a node out of one set and puts it into the
  other, so the union stays (`HashInvResizeStep`); the other actions add, drop or change
  one node of the union.  The refinement is read off the union (`StepMaps`).  That users
  look for a key before they insert it, as `jb_connect_client` and `sm_add_socket` do,
  is part of the next-state relation and needed.

Proved and not run by themselves: `ReapsOnlyIdleSessions` of `JabberBind`,
`CountsOpenSockets` of `SocketMonitor`, `LogTypeOK`, `HashTypeOK` (`TypeOK` of `Registry`
contains it), and the types and the stack of `Allocator`.

Only model-checked: the liveness properties `RequestAnswered`, `IdleSessionReaped`,
`StopsAfterSignal`, `EveryByteSent`, `RequestHandled` and `CheckTerminates`, since fairness
and ENABLED are out of the prover's reach.  Every safety and action property that a passing
run checks is a theorem.

## Not modelled

The text of messages, headers and log lines; the configuration; DNS; the sids'
randomness (a new session gets a sid that is not in use, which the loop in
`jb_connect_client` ensures); a listen socket that fails; headers that end in bare line
feeds; `make_http_head` and the status page, which are text; `hash_iterate`,
`list_find` and `list_size`, which change nothing; a `malloc()` that fails, which the
code does not handle; the compression of rotated files, which is switched off in the
code; iksemel, whose parser may report anything to `jc_handle_stanza`.

## Plan

1. done: `JabberBind` with its abstraction, `SocketMonitor`, `Socket`,
   `HttpConnection`, `Allocator`, `LinkedList` and `HashTable` with their abstractions,
   their composition `Registry`, `LogRotation`, and the theorems above.
2. Composition of `Socket` with `SocketMonitor` (several sockets and stale events end
   to end), and of `HttpConnection` with the list of connections of `JabberBind`.
3. Proofs: that `Registry`, without its nodes and chains, is the set of clients with
   their sids that `JabberBind` uses; what the compositions of item 2 need.
