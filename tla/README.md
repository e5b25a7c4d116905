# LiteNet: specification and proofs

LiteNet is a small C/C++ networking library: a server of several processes
that talk over queues in shared memory, with a level-triggered epoll loop, ring
buffers for each socket, a timer, a logger and an ini-file parser. This
directory holds TLA+ modules of the parts that carry its logic, the TLC
configurations that check them on small instances, and theorems about them
with proofs for TLAPS.

    tlc -config channel_mixed.cfg MCChannel      # a run; PROJECT.json lists them all
    tlapm ChannelProof.tla                       # the proofs of a module

`PROJECT.json` lists the runs, the mutants (plausible bugs, each of which breaks
one property of one run), the source lines every definition stands for, the
hazards, the findings and the theorems.


## 1. The system

| Part | Source | State | Operations | Modelled |
|---|---|---|---|---|
| Channel | `comm/Channel.*` | two queues in shared memory; each is head, tail, package count and a byte ring | `Channel_Init`, `Channel_AddPkg`, `Channel_GetPkg`, `Channel_GetPkgNum` | yes |
| Shared memory | `comm/ShmUtil.*` | the segments of the system, which outlive every process | `ShmUtil_GetShm`, `GetShm2`, `GetShm3` | in `Channel_Init`; `GetShm3` has no caller |
| Input stream | `net/SocketInputStream.*` | head, tail, byte ring | Init, Length, IsEmpty, Read, Peek, Skip, Fill, CleanUp | yes |
| Output stream | `net/SocketOutputStream.*` | head, tail, byte ring | Init, Length, IsEmpty, Write, Skip, Flush, CleanUp | yes |
| Timer | `comm/Timer.*` | five wheels of circular lists, an index for each, `dwCheckTime`, counters | `Timer_Init`, `Timer_Add`, `Timer_Check`, cascade, callbacks | yes |
| Intrusive list | `comm/LiteList.h` | next and prev of every head and node | `ListAdd`, `ListDel`, others | those the timer calls; the others have no caller |
| Logger | `comm/Logger.*` | name of the current file, limits, time of the last shift; the files | `Logger_Init`, `Logger_Log`, `Logger_ShiftFile` | yes |
| Event loop | `net/Epoller.*`, `net/TCPServer.*`, `net/SocketAPI.*` | the listening socket, the epoll set, the array of fetched events | add, modify, delete, wait; listen, accept, close, run | yes, over an external kernel and external callbacks |
| Connection list | `demo/ConnList.*` | a table of `MAX_CONN_NUM` connections | Init, Add, Get, Del | yes |
| Configuration | `conf/dictionary.*`, `conf/iniparser.*` | arrays of keys, values and hashes, with `n` and `size` | new, set, get, unset, clear, del; load, reload, list, save | yes, from the kind of a line and the words of its value on |
| Serializer | `comm/Serializer.*` | none | fields to and from network order | no: functions for test vectors |
| MD5 | `comm/md5.*` | a context | vendored | no: a function for test vectors |
| Time formatting | `comm/TimeUtil.*` | none | formats dates | no |
| Daemon utilities | `comm/ServerUtil.*` | none | forks a daemon at start | no: system calls in a row |
| Redis | `comm/RedisApi.h` | none | macros around a client library that is not here | no |
| Demo, tests | `demo/`, `test/` | – | exercise the library | no: read as documentation |

How the parts interact:

* A connection process and a worker process share a **channel**. The first puts
  packages into the request queue and takes answers from the response queue,
  the second does the reverse; each polls. Nothing locks the queue. Either may
  die and be restarted while the segment, and the other process, live on.
* The **event loop** of a process calls `Fill` on the input stream of a readable
  socket and `Flush` on the output stream of a writable one; the protocol code
  above calls Read, Peek, Skip and Write, in the same thread.
* The loop also calls `Timer_Check`, which calls back into user code, which may
  call `Timer_Add`, all in one thread.
* Every part writes to the **logger**; several processes may log to the same
  files.

What is hard in it, and what makes each part correct:

* *Channel.* Two processes without a lock, each working with copies of indices
  the other one moves; full and empty look alike when the indices meet;
  a package that does not fit at the end is wrapped; a process dies in the
  middle of a call. Correct means: no byte is overwritten before it is read, no
  byte is read before it is written, packages come out once, whole and in order,
  and neither side is stuck for ever.
* *Start-up.* Probing, creating and clearing a segment are three steps. Correct
  means: once a queue is in use no start of any process erases its packages.
* *Streams.* The ring wraps, the socket takes or gives any number of bytes, and
  `Length` has no answer for an empty ring. Correct means: a stream is a stream
  of bytes, none lost, repeated or swapped.
* *Timer.* Wheels cascade, checks come late, callbacks add nodes while lists are
  walked, counters overflow. Correct means: a node expires at its tick, neither
  earlier nor later, and the lists stay closed.
* *Logger.* Opening, writing, checking for a file and renaming it are steps of several
  processes; a rename that fails leaves the logger with the name of an archived
  file. Correct means: the files stay in order, and only old messages are given up.
* *Event loop.* A descriptor is closed before it leaves epoll and may be reused
  while events for the old connection wait in the array. Correct means: an event
  reaches the connection it was for, no open descriptor is forgotten, and
  everybody gets a turn.
* *Connection list.* Descriptors come again and the table fills up. Correct means:
  an entry for each open connection at most, and none for a closed one.
* *Configuration.* `dictionary_clear` clears bytes where it should clear
  pointers and keeps `n`; a reload that fails frees a dictionary its caller
  keeps. Correct means: the dictionary stays a map, and a reload leaves what the
  file says.


## 2. The modules

    RingQueue <- Channel <- ChannelRefinement <- MCChannel        StreamRing <- InputStream <- StreamProof
                                 ^   | INSTANCE                        ^            | INSTANCE
                        ChannelProof ChannelFifo                  OutputStream -> ByteStream
                                                                       ^
                                                                  OutputProof

    ChannelInit <- ChannelInitProof        Timer <- MCTimer        ConnList <- EventLoop <- EventLoopProof
                                             ^
                                         TimerProof

    Dictionary <- IniParser <- MCIniParser                         Logger <- LoggerProof
                   ^     | INSTANCE
          ConfigProof  ConfigStore

(`A <- B`: B extends A.)

### RingQueue, Channel

`RingQueue` is the arithmetic of one queue: what `AddPkg` decides from two
indices (`Full`, `Wraps`), what `GetPkg` may read (`BufLen`), the packed header
of three bytes. `Channel` is the two calls, by one writer and one reader of one
queue (the two queues of a channel share nothing).

Each access to the segment is a step, so that the two calls interleave between
any two of them. The variables are the segment (`dwHead`, `dwTail`,
`dwTotalPkgs`, `cBuf`) and the locals of each call: `pTail` is the writer's copy
of the tail, `rHead` and `rTail` the reader's copies, `pCount` and `cCount` the
registers of `(*pdwTotalPkgs)++` and `--`.

| Step of `Channel_AddPkg` | Step of `Channel_GetPkg` |
|---|---|
| `AddOutOfRange`, `AddResetTail`, `AddResetHead`: an index past the end is seen, then the tail and the head are set to 0 | `GetOutOfRange`, `GetResetTail`, `GetResetHead`: the same |
| `AddFull`: refused | `GetEmpty`: head = tail |
| `AddBegin`: accepted, at the tail or at 0 | `GetBegin`: indices loaded |
| `AddMark`: the wrap is marked | `GetBoundary`, `GetNoBoundary`: the mark is looked for |
| `AddHead`, `AddBody`: the copies | `GetTooShort`, `GetBadFlag`, `GetBadLen`: a check fails, the head jumps to `rTail` |
| `AddPublish`: the tail is stored | `GetParse`, `GetCopy`: the length is accepted, the body copied |
| `AddCountLoad`, `AddCountStore` | `GetAdvance`, `GetCountLoad`, `GetCountStore` |

`CrashWriter` and `CrashReader` end a call anywhere. Loads of the two indices at
the top of a call are one step: each call loads its own index, which nobody else
moves, and the other's once, so a step between the loads shows nothing new.
The copies of header and body are one step each, because no index moves
between their bytes. The steps of one process reach memory in program order, as on the
x86 machines the code is written for.

Two history variables serve the properties only: `dirty` (a package was
wrapped, or was in the segment from the start, since the ring was last empty) and `countOff` (an update of the counter
was lost, skipped, or made for a package that was given up; or `GetPkg` moved over a boundary in a ring
that was not in order).

### ChannelFifo, ChannelRefinement, MCChannel

`ChannelFifo` is what a queue promises its users: `Put`, `Ask`, `Copy`, `Take`,
`Drop`, and `Restart` of a taker that died; and that it may `Break`, after which
the taker gets `Anything` until the queue has a `Mend`. The refinement maps
`broken` to `dirty`: the ring breaks at a wrap only, and mends when it is found
empty. `ChannelRefinement` computes the abstract queue from nothing but the bytes
between head and tail, parsed as `GetPkg` parses them, and instantiates the FIFO
with it. `MCChannel` has the
bodies and the initial segments for TLC.

### ChannelInit

`Channel_Init` and `ShmUtil_GetShm2`: any number of processes, each opening the
request and then the response segment: `Probe` (look without `IPC_CREAT`),
`Reopen` (look again), `Create`, `ClearNew` (the memset in `GetShm2`), `Clear`
(the one in `Channel_Init`), `Fail`, and `Exit`, which is also a crash, at any
point. A segment is abstracted to the number of packages it holds, and
`AddPkg` and `GetPkg` are one step here; `Channel` takes them apart. `lost`
counts the packages that a memset erased. `AttachFails` is a `shmat` that fails for
a segment that is there, which `GetShm2` takes for a missing segment.

### StreamRing, InputStream, OutputStream, ByteStream

`StreamRing` is the ring both streams use; `Length` answers `ERR_LENGTH` for the
empty ring, as the code does, and `Held` is the number of bytes really there.
A byte is named by its position in the stream (`PutIn`), so a byte lost,
repeated or swapped shows. Calls happen in one thread, so each is one step;
`Flush` alone is a loop of sends whose results the environment chooses, and its
sends are steps. In `Flush`, `nSent` is the constant 0 that the local variable
keeps in the code.

`Fill(n)` receives any n up to the bytes asked for; `FillNothing` is the answer
0 (no room, EAGAIN, EINTR, or a peer that closed), `FillError` the others.
`CheckEmpty` says whether the caller asks `IsEmpty` before Read, Peek and Skip.
The runs and the theorems set it to TRUE, as `Length` leaves no other way to
use the stream; with FALSE `NothingLost` and `ImplementsStream` fail at the
first Read of an empty stream, which hands out as many stale bytes as were asked for.

`ByteStream` is the promise: bytes arrive in order and leave from the front,
once.

### Timer

Time is in ticks since `stBaseTV`. The module keeps the **pointers** of the lists
(`next`, `prev` of every slot head and node) instead of sets of nodes, for line
104 masks a slot of tv2 with `TVR_MASK`: `tv2.stVec + i` then points past tv2,
into tv3, tv4 or tv5, and what `vec->prev` finds there follows from the layout of
the structure. `VecPrev` states that layout; one index (2 * TVN_SIZE) meets
`tv4.iIndex`, which is not an address, and the process dies (`AddCrash`,
`FireCrash`, then `Restart`).

`Timer_Check` starts a check; a tick whose root index is 0 goes through
`CascadeNode` and `CascadeDone` for each wheel that has turned; then `Fire` or
`FireAndAdd` (a callback that adds another node between the call and the
`ListDel`), and `TickDone`. `Clock` runs between and inside calls. `misplaced`
holds the nodes once put past the end of tv2; what is promised for the others
must hold in their presence too. A behaviour starts with a `load`: which
nodes, which time-outs, and how long until the process starts over (`MCTimer`).

### Logger

Processes that log to the same files. `Open`, `Write` (with `fclose`), `Stat`,
`Access`, `Rename`, `RenameFails` and `TakeTime` are the calls of the system in
`Logger_Log` and `Logger_ShiftFile`, in the order of the loop over the files from
the last to the first; `Restart` is a death anywhere, followed by `Logger_Init`. A
file is its number and the messages in it with their days; `handle` is the open
file, which a rename takes along (`Moved`). The log is by size, by days or of an
unknown type. `excused`, `late`, `disturbed`, `torn` and `midnight` are history variables of
the properties.

The model shows what the code does around it. `Logger_ShiftFile` compares the day of the
month alone. `stLastTime` is 0 after a start, so each process shifts the file
at its first message (unless the day has the number of the epoch's), and `Keeps`
has the test `stLastTime - st_mtime > 86400` although a clock that is never set back
never meets it. A type that is not known never shifts, for `dwCurNum`
stays 0; nor does a log of fewer than two files. `fopen` that fails changes nothing.
A rotation that ends between two renames leaves a gap: with base.log and 1 to 5, one that
stops after 4 -> 5 and 3 -> 4 leaves no file 3, and the next one renames 4 to 5 all
the same, so that a file is lost although there is room. A few of these in a row leave
the messages of two files only, however many files are configured (`torn`, `FilesKept`).

### ConnList, EventLoop

`ConnList` is the table, its functions operators on the array. `EventLoop` is the
one thread of `TCPServer_Run`: `Listen`; `OnLoop`; `WaitEvent`, which takes the ready
descriptors in any order; a handler for each event, `Accept` (or `AcceptFails`),
`Input`, `InputCloses`, `InputClosesOther`, `Output`, `Exception`; `EventsDone`. The kernel
(`open`, `interest`, `readable`, `ended`, `failed`, `backlog`) and the
user's callbacks are external: `Connect`, `Arrives`, `PeerCloses` and `PeerFails`
come at any time, the lowest free descriptor is given first, a descriptor that is
closed leaves epoll; a callback keeps its connection in the `ConnList`, reads
some or all, asks to be told when it can write, or closes.

`net/TCPServer.cpp` is in the middle of a port from C++ classes and does not
compile: line 299 takes the result of `Epoller_GetReadyFd`, line 326 leaves out the
socket. The module follows the declarations. `socketapi_setnonblocking` always answers 0, so
lines 115 and 196 are dead code; `socketapi_setreuse` answers -2 where line 122 tests for
-1, so its failure goes unnoticed. `CloseConnection` closes before it calls `EventDel`, which
then always fails with `EBADF`, so `HandleClose` answers -2 after doing its work.
`OnAccept` and `TCPSend` are under `#if 0`. A peer that closed keeps its
connection readable, as `Fill` answers 0 for it, until a callback closes it.

### Dictionary, ConfigStore, IniParser, MCIniParser

`Dictionary` has `dictionary_new`, `get`, `set` (which doubles the three arrays when they
are full and probes for an empty slot from `n` on), `unset` and `clear` as operators on the
structure. `clear` is what the code does: it clears `size` bytes of two
arrays of `size` pointers, so the keys of the upper slots stay, with hash 0 and
counted in `n`. `NoDict` and `Gone` stand for a null and a dangling pointer; a program that
has neither is `Alive`.

`IniParser` is a program with a dictionary: `Load` and `Reload`, with a step for each
turn of the loop over the lines (`LineSection`, `LineValue`, `LineSkipped`,
`LineError`, `LineContinues`, `LineTooLong`, `LineNoMemory`), `EndOfFile`, `ReloadNoFile`; `iniparser_set` and
`unset`, the lookups, `iniparser_freedict`; and `Die`, where the code follows a
pointer that is null or freed. A line has the kind and the name that `iniparser_line`
finds, and the words of the text behind its "="; among the words are quotes, marks (`;` or
`#`) and the backslash. `Parsed` is what the three `sscanf` of lines 620 to 622 leave of
them: what is between two quotes, or all before a mark. `text` is the whole line, for
it becomes a part of a value when the line before it ended in a backslash (`more`).
Listing and saving (`getnsec`, `getsecname`, `getseckeys`, `dump_ini`) are operators on the
dictionary that the properties use. `iniparser_dump_ini` prints a value as it is: without quotes
(`ValueLine`), so that one that ends in a backslash is continued by the next line; without
sections it hands NULL to `"%s"`, for which the C library prints the word `NullWord`.
`ConfigStore` is the promise: a map.

Among what the model shows: a reload that meets a bad line frees the dictionary the caller goes
on using and answers 0; `errs = dictionary_set(...)` forgets the errors before; what is saved
may be read as something else; and after a reload the
keys left behind are listed once more, against the "unique" keys of `dictionary.h:35`.


## 3. The runs

Twelve runs, nine that pass and three that show a disagreement (Findings). A passing run
explores its whole state space.

| Run | Module | Question | Answer |
|---|---|---|---|
| `channel_mixed` | MCChannel | Two bodies of different length, wraps, crashes anywhere: is the memory safe, the counter right, the ring a FIFO? | Yes; the FIFO until a package is wrapped |
| `channel_live` | MCChannel | A writer that calls when it likes, or keeps trying one package, a reader with too little room, wraps, a new segment or one left by a build with a longer buffer: do the indices come back inside the buffer, does either side get stuck, is the ring a FIFO with its liveness whenever it is not broken? | They do; neither does, with packages of at most half the buffer; it is |
| `channel_fatal` | MCChannel | Does GetPkg ever meet its "fatal error" on a sound segment? | Yes: violation, see Findings |
| `channel_init` | ChannelInit | Three processes start, fail, crash and restart: does a start erase packages in use? | Not once the queue is settled; only a `shmat` that fails for a segment in use unsettles it |
| `input_stream` | InputStream | Are bytes lost, repeated or swapped between socket and caller? | No |
| `output_stream` | OutputStream | The same for the bytes written; what does Flush offer to the socket? | No; the oldest bytes held, in order, and nothing else |
| `output_flush` | OutputStream | Is each byte sent once? | No: violation |
| `timer` | MCTimer | Two nodes, adds from callbacks, late checks; one node with time-outs on both sides of every wheel's border, long enough for tv5 to come down: sound lists, wheels in step, expiry exactly at the tick? | Yes, for every node put inside the wheels |
| `timer_root` | MCTimer | Is every due node in the root when its tick is run? | No: violation |
| `config` | MCIniParser | Any file of three lines loaded and reloaded, changes by the program, memory that runs out: is the dictionary a map, and the one the file says? Is a file refused only for an error? Does it come back when saved? | Yes, yes, and yes if its values are plain |
| `event_loop` | EventLoop | Connections come, end, fail and are closed from every place that may: does each event meet its connection, is none forgotten or starved? | Yes, unless a callback closes another connection whose event waits |
| `logger` | Logger | Two processes rotate the same files, renames fail, processes die: are the files in order, and what is lost? | In order; only old messages, unless two rotations overlap, and of many files only two are sure once a rotation was cut short |

### Properties

* `TypeOK`, one for each module with a run; those of `Channel` and `ChannelInit` are theorems
  and not checked again.
* `WritesOutsideUnread`, `ReadsInsideUnread`: the cells a call in progress has yet
  to write (read) are outside (inside) the region between head and tail *now*,
  though the call decided on an older view.
* `IndicesInRange`, `PublishKeepsNonEmpty`, `RefusesOnlyNearFull`: no index leaves
  the buffer, no store makes a ring with bytes look empty, a refusal means that
  less than two such packages fit (`Channel.h` speaks of a reserve of one package;
  section 3, Findings).
* `CountExact`: between calls the counter is right, unless `countOff` says why not. An update
  that is lost or skipped is thus excused, not caught.
* `FifoUntilWrap`, `ImplementsFifo`: the refinement, without and with liveness.
* `RangeRecovered`, `ReaderProgress`: liveness. `WriterNotStarved`: a package of at most half
  the buffer that the writer keeps trying (and no other: `KeepsTrying`) is taken. Nothing is said of a longer one: an empty ring with
  head = tail in the middle refuses it for ever.
* `SettledKeepsPackages`: start-up. The race of the first processes and a `shmat` that fails are its
  exceptions: it says that there are no others.
* `NothingLost`, `ImplementsStream`, `OffersHeld`: the streams. While Flush is in its loop, `OffersHeld`
  says that the bytes it offers to the next `send` are there, and are the oldest ones held in order, so
  that a socket that takes any part of them gets the stream. What was taken should then leave the
  ring; that it never does is `SentOnce`.
* `ListsSound` (with the count of nodes), `WheelsAligned`, `NeverEarly`, `NeverLate`: the timer.
* `ProbeEnds` (the loop that looks for an empty slot ends), `ImplementsStore` (the lookups are a
  map, though keys of the old file stay in the arrays; and by `AsTold` each line and each call changes
  the entry it names to the value it gives, and no other), `LoadedMeansFile`, `GoodFileLoads` (a file
  without an error is not refused, whatever its lines do), `SectionsListed`, `SavedComesBack` (what is saved
  is loaded as it was, if no value holds a mark, begins with a quote or ends in a backslash):
  the configuration. None of them says what the documentation does of `iniparser_set`, of files with
  errors, and of the file that is saved, for there the code does something else (Findings).
* `OpenIsWatched` (an open descriptor is watched, and no other),
  `TableMatches` (table and descriptors agree), `EventMeetsOwner` (an event is handled
  for the connection it was fetched for, though descriptors are reused within a round),
  `ReadServed`, `WriteServed`: the event loop. `crossed` and "something to read
  again and again" are not excuses of the model: an event that waits for a
  connection closed by another's callback does reach its successor, and a connection with
  constant input does not get to write.
* `OrderedFiles`, `KeepsLatest`, `OneDayKept`: the logger. `late` are messages that
  land in an archive, because it was the base file when it was opened or because a rename
  failed; with two rotations at once (`disturbed`) a file can be
  renamed twice and overwrite one that is newer than it should be. `KeepsLatest` says how
  many messages must be newer than one that is given up: those of all files but one, or of
  two files once a rotation was `torn`.

### Bounds

* `CHANNEL_BUF_LEN = 12` (10000): a package is 4 or 6 bytes, so the ring holds
  two or three, ends in the middle of a package at varying places, and every
  branch of `Full` and `Wraps` is taken with the head and tail on either side.
  Bodies contain 0 and 9, bytes that look like a header or a mark. In `channel_live` the
  packages have 4, 6 and 7 bytes: less than half the buffer, half, and more; `COUNT_MOD = 1`
  there, since nothing is said of the counter.
* `COUNT_MOD = 4` (2^32): the counter wraps at a number of packages TLC can reach.
* `Caps`: the room of the reader's buffer, from none to all a body needs in
  `channel_live`, enough for a body or not in the other runs.
* `STREAM_SIZE = 4` or `5` (40960), lengths 1 to 3, `StreamLen = 13` or `8`: the ring is
  filled, wrapped and emptied several times over; a length equals, exceeds and
  is less than what is held at either side of the end.
* `TVN_SIZE = 2`, `TVR_SIZE = 8` (64, 256): the ratio of 4 is kept, since line 104
  depends on it. `Loads`: two nodes for 34 ticks, which covers tv1 to tv4, and one for
  112, which covers tv5. `MaxLag = 2`: a check comes up to two ticks late, so one
  check runs several ticks and nodes are added against a clock ahead of the
  wheels. `Word = 256` for the 2^32 of the tick counter, which no load reaches. 2^32 is as
  many ticks as the wheels hold; that is 128 with these sizes, and half of it, the longest
  time-out, would not reach tv5, so `Word` is twice that. The assumption allows both, and
  the proofs hold for both.
* `DICTMINSZ = 4` (128), `PTR = 2` (8): the table fills, doubles, and half of it is cleared.
  Five keys of two sections, hashes that collide, `MaxLines = 3`, values with quotes, with a mark between
  quotes, and continued ones, a value set by the program that ends in a backslash, and
  `MaxCount = 4` for `n` when a reload or a set begins, as `n` grows with every reload.
* Two sockets, tables of one and two entries, `Backlog = 1`: a descriptor is closed and
  given again between the fetching of an event and its handler, beside another one.
* `dwMaxNum = 4` files of `dwMaxSize = 1` message, 6 messages: the oldest file is
  overwritten, and a rotation can be cut short with files on both sides of the gap, which
  takes four. In a log by days 3 messages in `MaxTime = 4` days of a month of `Cycle = 3`, so
  that the number of a day comes again. Two processes.
* Three processes and two packages for each queue in `channel_init`: two that
  race and a third that starts when they are done.

### Fairness

`channel_live` and `event_loop` use it. The reader of a channel polls: the server loop
calls `GetPkg` again whatever it answered, so `WF` on `Reader`. A call of `AddPkg` that was begun
comes to its end: `WF` on `InCall`. There is no strong fairness, and nothing on the crash actions, which are
off in that run, nor on the beginning of `AddPkg`: whether the writer calls, and with which package, is
its own affair. Fairness of all its steps together would also choose a body that fits, and a body
that never fits would go unnoticed; so `WriterNotStarved` speaks of each body by itself, and has the
caller's persistence as its hypothesis: `WF` on `AddBegin(body)`, and from some time on no other body.
The FIFO's own fairness (`Take \/ Drop`) is what the reader's implements.
The event loop is one thread: `WF` on `Serve`, all the steps of the thread together,
and nothing on peers, on what a callback chooses, or on `OnLoop` closing a connection.

Deadlock is checked in every run: no part of this library ever waits for
another one.

### Findings

1. `channel_fatal` (Channel.cpp:106): `AddPkg` marks a wrap with `START_TAG`,
   `GetPkg` recognises it by `END_TAG`. After the first wrap the reader parses
   stale bytes; it fails a check and drops every package in the ring, or hands out
   stale bytes as a package. The memory stays safe (`ReadsSafe` holds for wraps
   too), the content does not.
2. `output_flush` (SocketOutputStream.cpp:195): the result of `send` goes to `iRet`,
   the loop advances by `nSent`, which stays 0. The same bytes are sent until
   `send` answers 0 or fails.
3. `timer_root` (Timer.cpp:104): a slot of tv2 is masked with `TVR_MASK`. A node of
   tv2's range lands in a list of another wheel, and is run late, early, or never;
   for one index the process dies.

Beside these, without a run; the modules do as the code does:

* Channel.cpp:99-103. "Reserve <= the length of one package" (Channel.h:2), "buffer full: the
  distance of one package is left" (Channel.cpp:44). A package that does not fit at the end is refused
  unless more than its length is free before the head, however much is free at the end (`Full`). A
  package longer than half the buffer is refused for ever by an empty ring whose head and tail stand in
  the middle.
* SocketInputStream.cpp:45. "0: no data was read" (line 67). `Length` answers `ERR_LENGTH` for an empty
  stream, so Read copies, and answers, as many bytes as it was asked for (`TooLong`, `CheckEmpty`).
* iniparser.cpp:566. "If it cannot be found, -1 is returned" (iniparser.h:247, iniparser.cpp:560).
  `iniparser_set` adds the entry and answers 0; `ImplementsStore` says that it does.
* iniparser.cpp:756, 761. A "syntax error" is reported and counted in `errs` (lines 765 to 769), and forgotten when
  the next section or entry assigns to `errs` (`Stored`): the file is loaded. If `errs` is not 0 at the
  end, the file is refused, and by `GoodFileLoads` only then with reason.
* iniparser.cpp:910. After a bad line `iniparser_reload` deletes the dictionary, sets only its own
  parameter to NULL and answers 0 (`Return`, `UseGone`); the test (iniparser_test.cpp:99-106) goes on to look
  entries up in it and to free it.
* iniparser.cpp:281. "Save a dictionary to a loadable ini file" (line 215). Values are printed without
  quotes (`ValueLine`): one with a `;` that was loaded from quotes comes back cut, one that ends in a backslash
  swallows the next line. And line 238 hands a value that may be NULL to `"%s"`, without the test of
  line 281.
* Timer.cpp:283. After 2^32 ticks `Timer_Check` runs no due tick any more (the test is always true, and
  line 215 compares the counters as they are), or, when it is called in the last tick before, does
  not leave the loop. And a time-out of 2^31 ticks or more is read as past (line 85), so that its node
  expires at once.


## 4. The proofs

`tlapm` proves these for every value of the constants that the modules'
assumptions allow.

**ChannelProof** (assumption beyond the constants' types: `InRangeSegment`, the
segment is new or its indices lie inside the buffer; other segments are the
business of `RangeRecovered`). `Invariance` proves `Spec => []IInv`, and from it
follow `TypeCorrect`, `NoReset`, `WritesSafe`, `ReadsSafe`, `RefusalsJustified` and
`NeverLooksEmpty`. None of the properties is inductive: `WritesOutsideUnread`
speaks of the head as it is, while the writer decided on the head as it was.
`IInv` says what survives of a stale view:

* `WriterInv`: while a package is being added it is *still* accepted, and at
  the same place, against the present head. Preserved because the head moves
  only towards the tail (`StaysAccepted`).
* `ReaderInv`: the reader's head is the head, and the tail it saw lies
  *between* the head and the present tail. Preserved because the tail moves only
  over packages that were accepted (`StaysBetween`).

`AcceptedFits` and `ReadableUnread` turn the two into the properties. Each process
can disturb the other's part only by moving its index, so the proof has a lemma
for each: `ReaderUndisturbed` and `WriterUndisturbed`, then `WriterKeepsIInv` and
`ReaderKeepsIInv` with one step for each action, then `CrashKeepsIInv`.
In `IInv` neither the content of the buffer nor `START_TAG` plays a part: safety of
memory holds also while the reader parses the wrong bytes.

The content is the business of `RingIsFifo` (`Spec => FifoUntilWrap`: every step of the two
calls, and every death, is a step of the FIFO or a stutter, and the FIFO breaks only where a package
wraps) and `CounterExact` (`Spec => []CountExact`). Both assume `ShortBuffer` besides: the
buffer has 65536 bytes at most (10000 in the code), so that the 16 bits of `wLength` hold the
length of every package that is accepted.

* The abstract queue is a recursive function of the bytes (`BodiesIn`). That the recursion has a
  solution, and unfolds as it is written, is proved without induction (`ParseExists`, `ParseUnfold`):
  of the lengths for which it did not, one would be the least (`Less`, `Least`).
* `Packages` says that a number of used bytes is made of whole packages. The same way of the least
  counterexample gives what the code does to them: the bytes `AddPkg` publishes are one
  more package at the end (`HoldsAppended`), a copy beyond the tail changes nothing
  (`HoldsKept`), the head moves over the first (`HoldsDropped`).
* `FInv` adds to `IInv`, while the ring is in order, that it holds whole packages and that the tail
  `GetPkg` saw lies between two of them (`QueueInv`), what `AddPkg` has copied so far (`BytesInv`), and
  what `GetPkg` has checked so far (`CallInv`). So no check of `GetPkg` fails on such a ring
  (`ChecksPass`), and the byte at the head is never the mark of a wrap.
* `CountInv`: the counter, with the updates each process has still to make, is the number of packages,
  modulo 2^32.

The run had taken bodies of two sizes and a buffer of one; the proof holds for all. It corrected the model:
where a ring not in order is found to have a boundary, `countOff` was not set, and
`CountExact` failed on a segment that was left behind by another build.

**StreamProof** (assumption: `CheckEmpty = TRUE`). `InputInvariance`: `TypeOK` and
`NothingLost` are inductive together. `InputTypeCorrect`, `InputNothingLost`, and
`InputImplementsStream`: every step of `InputStream` is a step of `ByteStream` or
a stutter. The lemmas say what each call does to the bytes held, in order:
`FillPending` appends, `AdvancePending` drops a prefix, `CopyIsFront` copies one.

**OutputProof** (assumption: `CheckEmpty = TRUE`). `IInv` adds to the types that the ring holds the last bytes written, one after
the other (`LastWritten`), and that Flush stays in its loop only while there are some.
`WriteEffect`, `SkipEffect` and `SendEffect` say what a call does to the ring;
`OutputInvariance`, `OutputTypeCorrect`; `FlushOffersHeld`: from `LastWritten`, the bytes on the right
of the head are the oldest held, and the loop goes on only while there is one; and
`OutputImplementsStream`: a write is an arrival
of the abstract stream, a skip or a clean-up a departure, every step of `Flush` a stutter.

**ChannelInitProof** (no assumption; any number of processes). `InitInvariance`
with the invariant `ReachedExists` (a process past a segment knows it exists),
`ReadyAttached`, and `SettledIsSafe`: a settled queue loses nothing and stays
settled, unless a `shmat` fails for it, because a process that starts finds the
segment and passes by `Clear`.

**EventLoopProof** (assumption: there are finitely many descriptors). `IInv` joins the
types, `OpenIsWatched`, `TableMatches` and three facts they need: before the server listens
nothing is watched (`Starting`); an entry that is free names no socket, or a descriptor
given again would meet it (`FreeHasNoSocket`); and the events still to be handled are of
different descriptors, each open and not closed since, unless `crossed` (`EventsOwned`).
`MinIsMember` gives the first entry of a search and the lowest free descriptor;
`DelMatches` and `KnownMatches` say what a callback does to the table; `CloseKeepsIInv` does
the closing of a connection once for its handler, another's handler and `OnLoop`. From
`EventLoopInvariance` follow `EventLoopTypeCorrect`, `OpenStaysWatched`,
`TableStaysTrue` and `EventsMeetOwners`.

**LoggerProof** (assumption beyond the constants' types: there are finitely many processes).
`LoggerInvariance` has the types; `Room`, that each message being written has its number in
reserve; and `HandlesSound`: a process names or writes to an archive only where `excused`
says so, and the file it has open exists. `LogsStayInOrder` and `OneDayIsKept` are each
preserved with it, the second with the days of the messages in base.log, compared with
the last shift of every process (`StepDaysOfFiles`, `StepDaysOfShifts`). `LatestAreKept` is the
hard one. `KeepsLatest` speaks of messages that are gone, so `Latest` says of every message that
is *there* how many newer ones there are: `Since(m)`, at least a file's worth for each
place its file has from the front (`Rank`), and a place less behind the gap a rotation is
just moving. Once a rotation was torn the ranks are lost, and `Apart` remains: two files
with messages are a file's worth apart, which is where the two files of `FilesKept` come
from. `Places` says that one process at most rotates and where it has left
its gap. One lemma for each call of the system, `RenameCounts` the longest.
`Latest` was checked by TLC on the instance of the run before it was proved; it showed
that the earlier `KeepsLatest`, without `torn`, fails for four files.

**ConfigProof** (assumptions beyond the constants' types: no key has the hash 0, a key is a section
or a section and a name, `INI_INVALID_KEY` is no value). All that the run checks. First the
functions of dictionary.cpp: a dictionary is `Sound` when the arrays have their types, no key is
found in two slots (`Single`), and no more slots are used than `n` counts, and `n` is not above
the size (`Counted`). `ProbeFinds`: a probe in a sound table that is not full ends at an empty slot, by
counting the used ones. `SetSound`, `UnsetSound`, `ClearSound` and `GrownSound` each prove that
the function keeps the table sound and what it does to `View`, the map the lookups show. Then the
program: `IInv` says that the pointer is null, dangling or at a sound table, and what the
locals of the loops hold; `LineNext` has the turns of the loop. `ConfigInvariance` gives
`ConfigTypeCorrect` and `ProbesEnd`. `ConfigImplementsStore` proves that every step puts or removes
one entry, empties or loses the map, or leaves it; and which (`StepsTold`): the key and the value a
line or a call gives, the value as `Parsed` cuts it (`SetPuts`, `LinePuts`, `CallTells`), an empty map
for a load or a reload (`BeginsEmpty`), and for any other step no change but a loss (`OthersLose`). For
`GoodFilesLoad` the invariant `Tells` ties `errs` to the last line that counts, with a line under
continuation known by where it began (`EndedOneMore`); a count that is not 0 then has a wrong
line behind it (`ErrorsAreLines`). The three invariants on files need what recursive functions of the
community modules compute, which the library's induction theorems cannot give; each is had from a
least counterexample (`Least`):

* `LoadedIsTheFile`. `PrefixesExist` shows that the recursion of `FlattenSeq` has a solution, and
  `FlattenOneMore` what one sequence more does to it. `MeaningOneMore` and `UnderOneMore` say how one
  complete line changes what a file means: by one entry, under the section named last, for the lines before
  are read as before (`SaysTheSame`). `Means`, the invariant of the loop, is that the table is what the
  lines so far mean, and that `last` is what they spell from where the open line began (`Carried`), over any
  number of continuations.
* `SectionsAreListed`. `Listed`: the n-th slot has n - 1 before it, each count belongs to one slot
  (pigeonhole, `BelowAll`), so each is listed, once. That a key listed is one that is found needs
  `Fresh`: until a reload every key in the table has its hash.
* `SavedIsReadAgain`. `FlattenPlaces` gives each line of a section its place in the saved file,
  `DumpSection` what the lines of a section are, `BlockSays` what they say there: the section's line is the last
  before them that names one. `DumpSays`: each line says what a lookup answers, each entry has a line.
  `PlainIsRead` is where the values must be plain: `Parsed` leaves such a value as it was printed, and its
  line is not continued.

**TimerProof** (assumptions: the sizes of the wheels are in the ratio of the code, `Word` is what
they hold or twice that, a slot's head is no node and neither is null). All that the run
checks, for any nodes, time-outs, lateness of the checks, and any number of turns of the counter. None
of it is inductive: an expiry is on time because of where the node was put long before. `IInv` says

* where each pointer leads (`Ring`): there is a map `loc` from the linked nodes to slots, and a
  numbering that grows along each list, so that there is one ring to a slot. A cascade does not unlink what
  it moves; `Nx` and `Pv` are the lists as if it did, and the slot that is emptied has two
  pointers left over that only `INIT_LIST_HEAD` sets right. `RingInsert` and `RingRemove` are
  ListAdd and ListDel, `MoveStep` a move of the cascade; by line 104 that may link a node in behind
  itself, which then is alone in a ring of its own (`RingAlone`) and never expires.
* that the slot of a node comes to its turn in time (`Homes`): with the slots of a wheel numbered
  without end, a node's slot is less than a turn ahead of the one the wheel stands at (`AtHome`).
  `AddedAtHome` is the arithmetic of `Timer_InternalAdd`, `NotBack` that a cascaded node never goes back
  to the slot it left, `TickTurn` and `CascadeTurn` that the wheels go on together (`Aligned`),
  and that 2^32 is a whole number of turns of each, so that they stay so when the counter starts over.
* that no node of tv2 has the index at which line 104 would meet `tv4.iIndex` (`NoTrap`): such a
  node kills the process when it is added, and `NoTrapAbove` that none comes down from tv3 to tv5.

The `misplaced` nodes stay outside `Homes` only: the lists are sound with them, and the others on time.
The proof made two things explicit that the run did not show: for which `Word` the wheels serve every
time-out, and that a time-out of exactly half of it is already read as past.

Every invariant and every safety property of the passing runs is a theorem. Only model-checked: liveness
(`WriterNotStarved`, `ReaderProgress`, `RangeRecovered`, the fairness of the FIFO, `ReadServed`,
`WriteServed`), which the prover does not reach (the safety part of `ImplementsFifo` is `FifoUntilWrap`).


## 5. Not modelled, and limits

* Null-pointer checks, calls of the logger and statistics (`dwMaxLen`) are left out.
* Memory is sequentially consistent; the code has no barriers, and a machine
  that reorders stores could publish a tail before the body.
* More than one writer, or more than one reader, of a queue: the code does not
  support it and says nothing about it.
* Timer: a node that is added twice, or freed by its own callback; whether `dwCheckTime` keeps up
  with the clock when the counter starts over (section 3).
* Configuration: how `iniparser_line` tells the kind and the name of a line, with `ASCIILINESZ`
  and lower case; white space and newlines around and in a value, which `strstrip` and `fgets` cut (a
  value set by the program that begins or ends with a space does not come back either); a line of white space only, for which the code looks at `line[-1]`
  (iniparser.cpp:737), and one of a lone backslash; `[]` before every other section, whose key is empty
  and has hash 0, so that it is found again after `dictionary_clear`; names with a colon;
  `xstrdup` that fails; a load whose `fopen` or `calloc` fails, which changes nothing;
  `iniparser_getstring2` and the dumps for debugging. When an array cannot grow, the process
  dies or the dictionary is gone, and no property says more.
* Event loop: sending (`TCPSend`, `OnAccept` are under `#if 0`) and `TCPServer_Init`; sockets are
  always writable; `epoll_wait` returns every ready descriptor (in the code at most
  `iMaxSocketNum`); the fallback of `EventMod` (Epoller.cpp:219), which tries to add the descriptor
  for every error but the one that says it is missing. `OnException` always closes. The
  streams of an entry of `ConnList` are initialised once, so a connection that takes over
  an entry finds what its predecessor left: the model has no streams.
* Logger: the level, which Logger.cpp:39 stores unclamped; times of the day; a clock that is set back.
* `Serializer`, `MD5`, `TimeUtil`: functions without state. `ServerUtil`, `RedisApi.h`: calls of others.


## 6. Plan

Done, the most important behaviour first: the channel with its refinement and proof; the streams with
their proofs; the timer; the start of the channel with its proof; the configuration, the event loop with
the connection list, and the logger, each with its proof; the proof of the timer; the proofs that the
channel is a FIFO until a wrap and that its counter is exact; the proofs that the configuration is
what its file says, is listed whole, and is read back as it was saved if its values are plain; the
documentation of channel, input stream and configuration against the code.

Next:

1. The event loop composed with the streams: a connection that takes over an entry, `Fill` that answers
   0 for a peer that closed.
2. The overflow of the timer's tick counter.
