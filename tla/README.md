# mimino in TLA+

mimino is a single-threaded web server for a directory: one `poll()` loop, one
state machine per connection, two growable arrays that hold all connections.
These modules model the parts of it that are hard to test. Line numbers in
comments refer to files under `src/`.

## The system

| Component | State | Operations | Interacts with |
|---|---|---|---|
| Poll queue (`mimino.c` 197-206, 467-505, 752-780) | `pollfds`, `conns`, `n_conns`, `n_conns_alloc` | `init_conn_pool`, `serv_add_connection`, `close_connection` | the loop adds, the state machine closes, `poll()` reads |
| Event loop (`mimino.c` 900-957) | `time_now`, the pass's index | poll, accept, pass | calls `do_conn_state` once per slot |
| Connection (`mimino.c` 245-750, `connection.c`) | `Connection`: state, tries, `last_active`, `keep_alive`, `req`, `res` | `read_request`, `write_headers`, `write_body`, `write_file`, `recycle_connection` | the socket; calls the parser and `make_http_response` |
| Sending (`mimino.c` 378-465, 1017-1068; `defer.c`) | `file_offset`, `write_tries_left`, a `FILE` | `send_buf`, `write_file`, `fulfill` | the socket, the file |
| Responses (`http.c` 426-679) | `Http_Response`: head, body, ranges, path | `make_http_response`, `write_dirlisting_http` | paths, listings, buffers |
| Paths and links (`http.c` 735-802, `dir.c` 27-92, `ascii.c`) | none | encode, decode, clean up, resolve | requests and listings |
| Buffer (`buffer.c`) | `data`, `n_items`, `n_alloc` | push, append, sprintf, grow | heads, bodies, requests |
| Request parser (`http.c` 34-319) | `Http_Request` | `is_http_end`, `parse_http_request`, `parse_range_header` | reads the request's buffer |
| Directory listings (`dir.c`, `http.c` 374-464) | `File_List`, the page | `ls`, `read_file_info`, `sort_file_list`, `file_list_to_html` | the file system, the buffer |
| Memory (`xmalloc.c`, `http.c` 321-372, `dir.c` 442-469) | who holds which block | allocation, `free_http_request`, `free_http_response`, `free_file_list` | requests, responses, listings |
| Arguments, configuration (`arg.c`, `mimino.c` 770-870) | `Argdef`s, `Server_Config` | `parse_args` | start-up |
| Start-up (`mimino.c` 62-206, 783-898, 976-1014, `fdwatch.c`) | descriptors, limits, addresses | once, in order | before the loop |

What is hard in it:

- *Order.* Which sockets are ready, how much each call takes and when clients
  come and go is decided outside. A connection moves to another slot while the
  loop passes over the slots; a new client makes the loop start over; a response
  takes as many calls as its client needs, with a file opened anew in each.
- *Failure.* Every `recv`, `send`, `fopen`, `fread` and `accept` may fail, or do
  less than it was asked for; tries are counted in two places.
- *Time.* The timeout is looked at before what `poll()` reported.
- *Reuse.* A connection that is kept alive starts again in the same slot.
- *Others.* A directory changes while it is listed; a client is gone when
  `accept()` is called.
- *Ownership.* A request and a response are some twenty blocks, freed at
  whichever of a dozen places their connection ends.
- *Boundaries.* Arrays that grow and shrink; a request as long as its buffer;
  ranges up to the last byte; a byte for a null or a slash.

`PROJECT.json` lists these hazards line by line, with the properties that cover
each one, or the reason why none does.

What makes each component correct, in a sentence: the queue holds each open
socket once, in both arrays, within its memory; no ready or silent client waits
forever, and no state finds a pointer it did not expect; a transfer resumes where
it stopped and ends; a client can tell where a response ends; a link leads to the
file it was made for; a buffer holds what was put into it and nothing else; a
listing has every file once and in order; no block is used after it was freed;
the loop begins with what the command line asks for and with a socket.

## The modules

| Module | Models | Uses |
|---|---|---|
| `ConnSet` | what the queue promises: a bounded set of open sockets | |
| `QueueOps` | sizes and swap-removal of one array | |
| `PollQueue` | the two arrays, `accept`'s and `close`'s effect on descriptors | `QueueOps`; implements `ConnSet` |
| `EventLoop` | main's loop and `do_conn_state` | implements `ConnSet` |
| `SendBuf` | `send_buf` as the set of what one call may do | |
| `FileTransfer` | `write_file` | `SendBuf` |
| `Exchange` | requests on a connection and their responses, byte by byte | `SendBuf` |
| `Memory` | `malloc()` and `free()`, as far as it matters who owns what | |
| `Ownership` | the memory of a connection's requests and responses | composes `Exchange` and `Memory` |
| `Buffer` | `buffer.c` | |
| `Listing` | `ls`, the sort and the page | composes the listing and `Buffer` |
| `UrlPaths` | encoding, decoding, cleaning up and joining of paths | |
| `Browse` | a client that follows links and redirects | `UrlPaths` |
| `RequestParser` | `is_http_end`, `parse_http_request`, `parse_range_header` | |
| `Request` | a request that arrives in parts | `RequestParser` |
| `Arguments` | `parse_args` and the configuration | |
| `StartUp` | main up to its loop | `Arguments` |
| `PollQueueProofs`, `EventLoopProofs` | theorems of these modules | |
| `StartUpProofs` | theorems of `StartUp` and `Arguments` | `Recursion` |
| `Recursion` | lemmas about recursive functions and induction, for the proofs about loops | |
| `SendBufProofs` | theorems of `SendBuf` | `Recursion` |
| `ExchangeProofs` | theorems of `Exchange` and of `Ownership` | `SendBufProofs` |
| `BodyProofs` | theorems of `Buffer`, `Listing` and `FileTransfer`: what bodies are made of | `SendBufProofs` |
| `BrowseProofs` | theorems of `Browse`, of the functions of `UrlPaths`, and of `Request` | `Recursion` |
| `MC...` | each of the above for TLC | |

**PollQueue.** An array is a function on `0 .. n_conns_alloc - 1`; fresh slots
hold `Junk`. `Add` is `serv_add_connection` behind main's capacity check, `Close`
is `close_connection` with its swap and its `realloc()`. A slot is identified by
its descriptor. `open` is the process's descriptor table, and so not a variable
of the program: it is what `QueueMatchesKernel` compares the arrays with.

**EventLoop.** `conns` is the queue from slot 1 on, as a sequence of connections.
`pc` and `idx` are where main is. A turn is `Poll`, then possibly `Accept` (and
over again) or `RefuseAccept` or `AcceptFails`, then one action per slot and
`EndPass`. Each slot's action is one call of `do_conn_state` with the calls it
makes of itself: `WriteHeaders`, for example, goes on into the body, the recycling
or the closing when the head is sent. `ready` is the kernel's view and `reported`
what the last `poll()` said; `BecomeReady` and `ClientGivesUp` are all that
the clients do; after the latter, `accept()` has nobody to accept and does not
return (`InAccept`). Bytes and
seconds are counts, `idle` is `time_now - last_active`. A request is its length
and, once it is complete, its method and whether it said `Connection: close`: any
outcome of the parser is possible.

**SendBuf, FileTransfer, Exchange.** A byte is its position. `send_buf` is the set
of its possible results, each with the number it returns and the bytes that went
out, and gives `send()` the whole buffer again after each partial send, as the code
does. `Sends` says what is assumed of `send()`: that it takes all or nothing
(`"whole"`); that it may take a part, the socket being full then until `send_buf`
returns (`"beginning"`); or that it takes any part each time (`"parts"`). In
`FileTransfer` a call of `write_file` is `OpenAndSeek` and then one `SendPiece` per turn
of its loop, or one of the ways to end. It begins with any number of tries left, since
`write_headers` takes its tries from the same counter (`mimino.c:332`) and only progress
in the file gives them back; `stalls`, which is there for a property only, counts
those of the head, too.
`Exchange` begins with a parsed request and makes the response by what its path
leads to; `ended` stands for the empty line at the head's end. `Receive` is the next
request on a connection that was kept.

**Memory, Ownership.** A block is named after the pointer it was allocated for. The
straight-line code of a handler goes over the pointers that it handles with `Alloc`
and `Free`, in order; what depends on the file system is a choice
(`Outcomes`). Each action of `Ownership` is one of `Exchange` with what it does to
the memory, or one of the ways in which a connection ends early (`OwnRefuse`,
`OwnTimeOut`). `causes` are the known leaks that have happened so far; it is there
for `LeaksHaveCauses` only, which says that there are no others. The known ones: the
value of a `Connection` header, a header given twice, the name of a file that is
missing, the `DIR` and the name that `ls()` opens for each listing, and the name
of an entry that has gone.

**Buffer.** Memory is a function on the allocated places. `Copied` can write
outside of it, which is what `TypeOK` then notices.

**Listing.** A name is a constant; `Collation` is the order of `strcoll()`, and which
names begin with a dot or a letter is a constant, too. `ScanDir`, each `Look` at an
entry and each `Write` to the page are steps of their own, and `Change` is another
process between them. Any `lstat()` may fail on a file that is there, which is then
listed as a nameless one (`dir.c:342`); `unseen` are the names for which it did, and
with those that others have changed the `Doubtful` ones. The page is the sequence of
calls that write it; one call with one piece of text is one item of `Buffer`, and the
properties compare the items, not the HTML.

**Arguments, StartUp.** `ParseArg` is one turn of `parse_args`' loop. What the command
line asks for is written a second time, without going over it in order (`AsAsked`),
and compared (`ConfigIsAsked`). That is about command lines without a bare `-i`, `-s`
or `-r`: the readme promises defaults for the first two (`readme.md:50`,
`readme.md:64`), and main holds them (`mimino.c:848`), but `parse_args` takes the next
argument for the value or fails, and the model does the same. `StartUp` goes on with
the limit on descriptors, the addresses that are tried in turn and each system call,
any of which may fail; `fds` says what each descriptor of the process is. It ends
where `EventLoop` and `PollQueue` begin.

**UrlPaths, Browse.** Strings are sequences of byte values. `Browse` has a
directory tree in which every directory has every name, and a client that asks for
what links and `Location` say, writes a slash twice or leaves the last one out.
The client resolves `.` and `..` itself. Whatever leads to a file is compared as
the list of names it consists of (`Components`).

**RequestParser, Request.** A text is a sequence of symbols: single bytes where the
parser looks at them one by one, whole words where it compares them. A definition
gives the place that the code's pointer `r` comes to. In `Request`, `Receive` is one
`recv()` with any part of what is left, `Eof` the client closing its side, which it
may do anywhere; `Complete` is what `do_conn_state` does with a parsed request. The
text is made from the request that the client means (`RequestText`), and the
properties compare what was parsed with that (`Fields`). The loop over the headers is
a sequence of turns (`Turn`), each of which reads one. The byte behind the text, which
the parser looks at after a carriage return, is any (`junk`). `recv()` failing is in
`EventLoop`. Numbers wrap as a `long long` does, whose maximum is a constant.

## The runs

| Run | Checks | Bounds |
|---|---|---|
| `PollQueue` | arrays parallel, in bounds, equal to the open sockets; implements `ConnSet` | 8 places, 2 at first, at least 3 after shrinking: two growths, the second cut to `MaxFds`, and two shrinkings |
| `EventLoop` | pointers, reuse, room to receive, `Connection: close`; implements `ConnSet`; a pass closes only what it serves; no starvation, silent clients let go, responses end | 2 clients and room for both, so that a slot is closed before the last one; one try, all methods and kinds of response; under fairness |
| `FileTransfer` | resumes, ends, misses at most one byte, gives up only on stalls, one handle, and none left behind but a completed file's | file of a few buffers, every range in and one past it; 0 to 2 tries left by the head; a `send()` that takes all or nothing |
| `Exchange` | head first, no body for HEAD, body in order, listings framed; no block used or freed after it was freed, no leak but the known ones | two requests on a connection (`MCOwnership`), every kind of target, ranges with and without a start and an end, three lists of headers; heads of 2 bytes and bodies of up to 3 that go out in parts (`Sends = "beginning"`) |
| `Listing` | each file once, in order, whatever others do and whichever `lstat()` fails; the page whole, in its allocation and as long as announced | up to 5 entries of 7 names, one of each kind that the order tells apart; one name that others change or `lstat()` fails on; a buffer that grows by 1 |
| `Browse` | links, redirects and index files lead where they should; path fits | names of up to 2 bytes of 4 kinds, and three longer ones that look encoded, one of them a null; 2 levels; 3 serve paths |
| `Request` | parsed when complete and as meant, in whatever parts it comes; nothing half when cut off; never before the end | 166 requests: up to 3 headers in any order, 6 forms of a range; every way to split and to cut; a buffer shorter than the longest request; a `long long` of 6 bits, with the largest number a range has in it just below its maximum |
| `StartUp` | the configuration is what was asked for; one socket listens; the queue has room for it | 3 arguments of 13 forms; 5 lists of addresses; limits of 4, 6 and unlimited, an int of 4 bits |

Four runs are expected to find a violation; each states something the repository
says of itself:

| Run | What the code does |
|---|---|
| `EventLoopTimeout` | sending a part of a body is not activity (`mimino.c:697`), against `todo.md:11` |
| `FileTransferPartial` | after a partial `send()` the buffer is sent from its start (`mimino.c:1044`), against `mimino.h:59` |
| `ExchangeRange` | a range is announced with the whole file's length (`http.c:637`), against `readme.md:7` |
| `BrowseIndex` | `resolve_path` writes one byte more than it allocates (`dir.c:58`), against `dir.c:55` |

The bounds are small because what matters happens at the boundaries: a size being
reached, a last slot, a last try. The sizes are scaled so that each is reached in more
than one way. `MCPollQueue` lets `accept()` return the lowest free descriptor, as
kernels do, and identifies states that differ only in unused slots; the proofs need
neither. `EventLoop` caps `idle` at the timeout, from where it makes no difference;
`Listing` stops at `MaxEntries` and `MaxDoubtful`, and `Buffer`'s `MaxItems` is larger
than any page of it; `Browse` stops at `MaxDepth` and `MaxSlashes`; `Ownership` at
`MaxRequests`, a second request being what can find something left of the first;
`StartUp` at `MaxArgs`, which also keeps the write to `argdefs[i]` (`arg.c:104`) inside
its array. Files are smaller than `TB_SIZE` (hazard at `dir.c:153`), and no limit but
the unlimited one is beyond an int. Deadlock is checked everywhere but in `Browse`,
whose client may come to the end of its walk. An exited server is a state of its own
that stutters.

### Fairness

`EventLoop!Fairness`: the program takes steps whenever it can (weak fairness of
`Server`), since `poll()` has a timeout and client sockets do not block; and the
clock advances between some polls (strong fairness of `Poll` with a second or more
going by). No fairness is asked of clients: none ever has to become ready. The
listening socket blocks, so that no step is possible in `accept()` while nobody is
in the backlog. What the server owes its clients, the liveness properties therefore
claim under a premise, `AcceptReturns`: it is never in `accept()` for good. Without
it they do not hold (hazard at `mimino.c:220`).
`FileTransfer!FileFairSpec`: calls are made and their loops go on, which stands for a
client that is there; one that is not is `EventLoop`'s timeout.

## The proofs

`PollQueueProofs` proves for every `MaxFds`, `InitAlloc`, `MinAlloc` and set of
descriptors that the arrays are well-formed (`TypeCorrect`), in bounds
(`StaysInBounds`), parallel and without duplicates (`StaysParallel`), equal to the
open sockets (`HoldsOpenSockets`), and that `PollQueue` implements `ConnSet`
(`Refinement`). None of the checked invariants is inductive alone: that closing
slot `i` leaves every other socket in the queue needs that no other slot holds its
descriptor; that there are no duplicates after an `Add` needs that the queue has
only open sockets, and `accept()` returns one that is not; the last slot can be
read only in bounds. `QueueInv` is their conjunction, with what connects the
capacity check on `n_conns` to the set's size: `Cardinality(open) = n_conns`, and
slot 0 being the listening socket's. `GrownAllocRoom` and `ShrunkAllocRoom` are the
arithmetic of the two reallocations. The assumptions are those of the constants:
the limits are positive, and descriptors differ from `-1` and from junk.

`EventLoopProofs` proves the four invariants, `CloseIsKept`, `OnlyServedIsClosed` and
the refinement of `ConnSet`, for any number of clients, tries, bytes and seconds.
`LoopInv` is their conjunction as a predicate of one connection, `AtRest`, for every
slot, and that no two slots have the same descriptor. `AtRest` extends what `LikeNew`
says of a connection without a request to one whose request is being read: nothing is
sent yet, and `keep_alive` is set. Without distinct descriptors, `OnlyServedIsClosed`
and `CloseIsKept` are not preserved: another slot could keep the socket that was closed,
or have the flag of a client that asked for its end. The proof follows the calls: a
lemma each for `Retries`, `Finishes`, the body, the head and reading says that its step
makes of a connection one that `Follows` it or closes it (`Moves`), and two lemmas what
swap-removal and a new value in a slot leave of the queue. All properties then follow
from the four kinds of step in `StepKinds`. That the open sockets fit `max_fds` needs no
counting of descriptors: they are the image of the slots.

*Loops.* `send_buf`, the sort, the writing of a page, the decoding of a path, the loop
over a request's headers and the runs of allocations are recursive functions in the
models. The provers know such a function by its
equation only, if there is one that satisfies it, and they cannot instantiate an
induction theorem. Lemmas of `Recursion` stand in for that. `LeastNumber` says
that a set of numbers that is not empty has a least one: a claim that fails for some
number of turns fails for a least one, which is not the first, and holds for the one
before. `RecursionExists` says that a sequence of values of which each follows from
the one before exists. `SeqInduction` is induction over a sequence's length in the form
of a set: one that has the empty sequence, and with a sequence each that is longer by
an element, has all. They are proved from `WellFoundedInduction`.

`SendBufProofs` proves two theorems about `send_buf`, for any length and any number of
tries. `SendsABeginning`: if the socket is full after a partial `send()`, what went out
is a beginning of the buffer, once and in order, and as long as the number returned,
unless that is -1. `SendsAllOrNothing`: if `send()` takes all or nothing, that
beginning is the whole buffer or nothing. A function that satisfies the loop's
equation is written down (`LoopExists`), and induction over the tries that are left
says that there is no other (`LoopIsUnique`).

`BodyProofs` proves, in its last part, `OneHandle` and `StallsBeforeDrop`, whatever
`send_buf` returns. The second needs `TriesInv`: between calls the stalls and the
tries that are left add up to `MaxTries - 1` at least, in a call to `MaxTries`; the
one that is missing is the stall of a call that has sent something before.
`ResumesWhereItStopped` and `CompleteButForOneByte` (`TransferResumes`,
`TransferCompletes`) need what neither says: in a call the handle's position is
`file_offset`, so that the next piece follows the last one, and no bytes are asked for
only when the range's last byte is next (`BytesInv`).

`ExchangeProofs` proves `HeadComesFirst`, `BodyInOrder` and `ListingIsFramed` for any
lengths, targets and ranges and any number of requests on a connection. `WireInv`
adds what each state knows of the wire: a beginning of the head, as long as
`head_nbytes_sent` says, while the head is being sent; the whole head before anything
of the body; and of a body in memory a piece from `range_start` on, as long as
`body_nbytes_sent` says, over any number of calls.

What these theorems assume of `send()` is a hypothesis of each. The three of
`ExchangeProofs` have `Sends # "parts"`: heads and bodies may go out in any number of
parts over any number of calls, but no room appears in the socket between a partial
`send()` and the end of that call of `send_buf`. The two about a file's bytes have
`Sends = "whole"`. Neither could be weaker: with any parts, `send_buf` sends the
buffer from its start again, and the bytes on the wire are others
(`FileTransferPartial`); and `write_file`, unlike `write_headers` and `write_body`,
does not go on from where a partial `send()` stopped (`mimino.c:438`): the piece's end
is left out or, if it was the last piece, never sent. The runs `Exchange` and
`FileTransfer` check the same cases; all other theorems are free of such a hypothesis.

The second half of `ExchangeProofs` is about memory, and holds whatever `send()` does:
`PointersAreAlive` (`NothingFreedTwice`) and `LeaksHaveCauses` (`LeaksAreAccounted`),
for any lists of headers, any targets and any number of requests. Neither is inductive:
whether a `free()` is allowed depends on what each pointer may hold at that point.
`MemInv` therefore gives every pointer a status for each state of the connection: NULL,
a live block, one of both, or one that may be a literal, too. There are four such
tables: `Idle` (nothing), `Partial` (a request that has begun to arrive), `Asked` (a
parsed one) and `Answered`; `Start`, `Looked` and `Served` are the stages of
`make_http_response` between the last two. `Keeps(m, s, C)` says that a memory is as
table `s` has it, that no block is held by a pointer it was not allocated for, except
among the three that a path is passed around in (`PathPointers`), and that the loss of
each block without a pointer is one of the causes `C`. Each primitive of `Memory` has a
lemma on what it makes of a table (`AllocKeeps`, `FreeKeeps`, `ForgetKeeps`, ...),
`AllocAllKeeps` and `FreeAllKeeps` are the same for rows of pointers, by induction over
the row, and each function of the code has one that takes it from table to table. The
path is the hard case, with statuses of its own: `real_path` and `res->file_path` share
a block, the index file's path is another one, and when an index file is found, the
first is freed and all three pointers hold the second (`IndexFoundKeeps`); after that a
variable of the handler holds no live block but `res->file_path`'s ("spent"). A table
may be weakened (`KeepsLess`), but only towards statuses that still allow the `free()`s
to come. That a fresh block exists at all needs the heap to be finite (`FreshIs`).

`BodyProofs` first proves of `Buffer` that it stays in its allocation
(`StaysInAllocation`), holds only bytes it was given and never changes them
(`HoldsOnlyBytes`, `KeepsContents`, which no run checks), for every size and every
text. `BufferInv` is the first two together; `PutIsSafe` says of the one step that all
operations are made of what it needs from its caller: as much room as it writes, and
to count only bytes.

Then it proves the listing for directories of any size. `SortIsCorrect` says that
`sort_file_list` returns the same files in order: `compare_files`, for all its special
cases, is the comparison of three ranks (`ComparesRanks`), these are a total order, a
selection step puts the smallest of the rest in its place and a swap loses none.
`InOrder` and `ListedOnce` (`ListingInOrder`, `EachFileListedOnce`) follow with
`ListInv`: while entries are looked at, the names that `scandir()` returned are those
already in the listing, in their order, followed by those that are left; each file in
the listing is as it is in the directory, unless it is one that others have touched,
and a nameless one stands for exactly one of those or of those that `lstat()` failed
on. `PageIsWhole` and `TypeOK` (`PageAsAnnounced`, `PageInAllocation`) follow with
`PageInv`: the buffer holds the text of the calls that were made, and the page is that
with those that are left behind it. `PutAppends` says what one call adds, and
`FlattensOneByOne` what that makes of the whole.

`BrowseProofs` proves `LinksLead`, `RedirectsLead`, `RedirectedOnce`, `IndexIsInside` and
`PathFits` for every set of names of any bytes but the null and the slash, every depth,
any number of slashes too many and every serve path without doubled slashes. It has a
section for each function. `cleanup_path` and `Components` are followed byte by byte
(`CleanupAppend`, `ReadingAppend`); a path in two parts is cleaned up in parts
unless the two meet in slashes (`CleanupConcat`), and leads where its parts lead one
after the other (`ComponentsInParts`). `resolve_path` then joins two paths
into one that is clean, leads through the first to the second, and fits what it
allocated (`ResolveIs`). `Unescaped` takes one, two or three bytes at a time, so that
neither bytes nor positions are what to do induction over: `DecodingInduction` is over
what it takes, and `UnescapedInParts` says that a path may be decoded in parts
if the second begins with a slash, which is in no escape. That
`buf_encode_url` is undone is `EncodedName`: what it writes for a name is decoded to that
name, *whatever comes behind it*, since an escape could otherwise go on there.

That links lead where they should is not inductive. It speaks of where the path leads,
while a link is appended to the path as it is written. `BrowseInv` says of the path
what it is decoded to (`Found`): clean, without a null, and made of the names to where
the client means to be. A redirect sends the decoded path, which the server then decodes
once more; therefore `Found` also says that names which need no encoding are decoded to
bytes that a second decoding leaves alone. `Shaped` has what holds of every path, also
of one that a redirect has spoilt: it begins with a slash, ends in one if it
is a directory's, and is not all slashes below the served directory, so that
something is left when the last slash is left out.

The second half of `BrowseProofs` is about `Request`: `NotBeforeTheEnd`,
`PartsDontMatter` and `NothingHalf` (`ParsedAtItsEnd`, `FieldsAsMeant`, `NothingIsHalf`)
for requests of any length, with any number of headers, every way in which
they arrive and every byte after which they are cut off. A step makes of the buffer a
longer beginning of the same request (`RequestInv`, `RequestInvariant`), and that is all
that is needed of `recv()`; what is left is about the parser and such a beginning.

- Only the end looks like one. Each line has two symbols or more before its line feed,
  and no line feed but that one (`LinesOfRequest`), so that wherever lines end two
  line feeds are further apart than in a blank line (`Spaced`), up to the last line
  (`EndsOnlyThere`).
- Each scan stops where the client's part ends, if a symbol behind that part has
  arrived, and runs out of the buffer otherwise: then the part is not taken. That is
  `MethodParsed`, `PathParsed`, `VersionParsed` and `HeaderParsed`, from what stands at
  which place of the text (`TextPlaces`, `LineOfText`).
- The loop over the headers is brought into closed form: of the headers, `q` have
  arrived (`Arrived`), the first `q` turns read one each, and the next is the last,
  with or without an error (`TurnOf`, `TurnTaken`). `SameSteps` of `Recursion` says that
  the recursive function of the model is that one (`LoopParsed`).
- `consume_next_num` adds up digits times powers of ten from the left, while the
  number that digits stand for is read by multiplying by ten (`Number`). Zeros before
  a number make its powers of ten wrap long before the number does; that wrapping loses
  nothing, since all intermediate results are right in their low bits (`SameLow...`) and the
  number itself has room, is `ToLongLongIs`. That both are the same is then
  `NumberParsed`, and a range's two numbers are `RangeParsed`.
- An end that has arrived is noticed: `EndIsFound` is the other half of `EndsOnlyThere`,
  and makes `PartsDontMatter` say that the whole request is parsed by the time it is there.

`NothingHalf` and `PartsDontMatter` then hold of what is parsed, whatever the byte
behind the text is. `RequestAssumption` has what a client sends: a method and a path
that are not empty and of the symbols that the parser takes for such; headers of which
no two have the same name, their values without line ends and nulls; and a `Range`
that is two numbers that a `long long` has room for, with any zeros before them,
either or both missing, with a dash between them, or one that the parser ignores:
empty, of another unit, or without a dash. A list of ranges is not among them.

`StartUpProofs` proves `LoopHasOneSocket` and `PoolHoldsListener` for every width of
an int, every set of limits and every list of addresses. `StartInv` says what is
known at each stage. No limit becomes 0 as an int (`ToIntOfLimit`), neither as it is
nor less one, so that the queue has a slot unless its size is negative, which
`xmalloc` refuses. The addresses that are left are sorted (`InOrderOfTrialSorts`), so
that an IPv6 one is at their head only when no IPv4 one is among them. When main
calls `listen()`, its socket is bound, or the 1 with which `init_server` says that
`getaddrinfo()` failed: the standard output, on which `listen()` fails. The
assumptions are that the standard streams are open and that a limit fits an int or
is unlimited.

Its second part proves `ConfigIsAsked` (`ConfigAsAsked`) for command lines of up to
eight arguments, whatever those are, without a bare `-i`, `-s` or `-r`. `AsAsked`
speaks of all arguments at once and `parse_args` goes over them in order; `ParseInv`
joins the two. It says that what the argdefs hold is what `AsAsked` would make of the
arguments before `i`: of these, some are values, each of which belongs to the flag
before it, and the argument at `i` is none (`Reads`). What a turn of the loop does is
first brought into one form, whether it reads a word, a long flag or short ones
(`Effect`): no flag is of two argdefs (`ArgdefsAre`), and the first of the short flags
that takes a value is the last one that is read (`ShortIs`). Then what is a value, a
word or a flag among the arguments before `i` is still that with one or two more
(`Grows`), so that a flag's last mention is the one just read, and the first word is
the one found earlier, if any. At the end the values are those that `AsAsked` chooses,
because there is one way only to tell them from the rest (`ReadOneWay`): the first
argument on which two ways differ has the same flag before it in both. Eight arguments
are the most for which the write to `argdefs[i]` (`arg.c:104`) is inside its array;
the other assumption is that an argument is text, and no null pointer. An argument may
be empty.

Only model-checked: liveness under fairness (`EventLoop`'s three properties and
`FileTransfer`'s termination), which is out of the prover's reach, as is `ENABLED`.
That the code does not hold what the four runs above say is TLC's result, too.

## Not modelled

Debugging output, with its read of an uninitialised body in verbose mode (hazard at
`http.c:539`), the HTML of listings, permissions, header lines without an effect on
framing, the addresses that are printed at start-up, the separate tools in
`recvserver/`, `addrinfo/` and `getifaddrs/`, and the unit tests are not. Of
`buffer.c`, `buf_append_file_contents` is called nowhere. That serve paths have no
doubled slash is an assumption of `Browse`: with one, `resolve_path` leaves
uninitialised bytes in its result (hazard at `dir.c:69`). That a served directory is
given with a slash is one of `Listing` (hazard at `dir.c:389`). Of the parser, header
names in other case, a header given twice, and a second request behind the first are
left out; the clients of `Request` ask for no number beyond a `long long`, though the
model says what becomes of one (hazard at `mimino.c:280`); `User-Agent` and `Accept`,
which nothing reads, are left out, too, and `Ownership` has the memory of all of them.

Where the readme promises what the code does not do, and no run is about it: a bare `-i`
or `-s` takes the next argument or is refused, although `readme.md:22`, `readme.md:50` and
`readme.md:64` give it a default. `ConfigIsAsked` leaves such command lines out.

What the models show and no property is about: the `Location` of a directory whose name
needs encoding is not encoded (`http.c:540`) and leads elsewhere, which is why
`RedirectsLead` leaves such names out; that of one whose name has `%00` in it is decoded
up to there when it is requested (`http.c:798`), which is why `RedirectedOnce` leaves
those out; `conf.chroot` is never acted upon; a socket on which `setsockopt()` fails stays
open (`mimino.c:1001`); when an IPv4 address can be bound, nothing listens on IPv6; a file
that was sent completely leaves its handle open (`mimino.c:429`).

## Plan

Done: the poll queue, the event loop, the sending of files, and responses with the
memory behind them; buffers and listings; paths, and requests; arguments and
start-up; the proofs above.

Left:

1. `Request` composed with `Browse`, so that its client sends requests and not
   paths, and with clients that send a second request before the first is answered.
2. The names of headers in other case, and a header given twice.
3. What a file's client receives when `send()` takes parts: how much is missing or
   sent twice, at most.
