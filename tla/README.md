# A verification project for LightServer

LightServer is a C++ network library in the reactor style ("one loop per
thread") with a chat server built on it. This directory holds TLA+ models of its
parts, TLC configurations that check them on small instances, and proofs, checked
by TLAPS, that hold for every value of the constants: about the event loop, a connection, the server and its
end, timers, the chat, the buffer and its parser, the log with the start of the program, and memory. Paths below are those of
the repository.

How to run it, in this directory:

    tlc -workers 2 -config EventLoop.cfg MCEventLoop     # any X.cfg, see "Runs"
    tlapm EventLoopProofs.tla                            # any XProofs.tla, see "Proofs"

## 1. The system

| component | source | state | operations |
|---|---|---|---|
| Event loop | `common/src/EventLoop.cpp` | `looping_`, `quit_`, `otherThreadCalls`, an eventfd, the active channels | `loop`, `quit`, `runInLoop`, `queueInLoop`, `wakeup`, `handleEventFd`, `processOthreThreadCalls`, `runAfter` |
| Epoll, Channel | `common/src/Epoll.cpp`, `Channel.cpp` | per descriptor: monitored events, `index_`, the kernel's entry | `updateChannel`, `removeChannel`, `getActiveEvents`, `enable…`/`disable…`, `handleHappendEvents` |
| Timers | `common/src/TimerQueue.cpp`, `TimerNode.cpp` | the ordered `timers_`, `expireEvent_`, a timerfd | `addTimer`, `addTimerInLoop`, `TimerQueuehandleTimerEvent`, `getExpired` |
| Client connection | `common/src/ClientConnection.cpp` | channel, input and output buffer, `heartTime_` | `handleRead/Write/Close/Error`, `connectEstablished`, `connectDestory`, `sendMessage`, `resetHeartTime`, `checkHeart` |
| Server | `common/src/LightServer.cpp`, `Socket.cpp` | map of connections, `oldTime_` | `listen`, `handleRead`, `onNewConnection`, `checkEveryClientAlive`, the destructor |
| Loop threads and pool | `common/src/EventLoopThread.cpp`, `EventLoopThreadPool.cpp`, `CountDownLatch.cpp` | `loop_`, `existing_`, `loops_`, `next_` | `start`, `getLoopOfCurrentThread`, `getNextLoop`, destructors |
| Buffer | `common/src/Buffer.cpp` | a vector and two indices | `append`, `retrieve…`, `prepend`, `makeSpace`, `readFd`, `writeFd` |
| Message parser | `common/inc/BufferParser.h`, `MessageFormat.h` | the header in hand | `getParserResult`, `parser…` |
| Chat program | `main/src/main.cpp`, `common/inc/UserInfo.h` | the table of users | register, login, logout, chat, heartbeat |
| Memory pools | `common/src/MemoryManger.cpp`, `MemoryControl.cpp` | a stack of blocks for each size class | `operator new`, `operator delete` |
| Object pool | `common/inc/ObjectPool.h` | a stack of nodes with a count each | `allocMemory`, `deAllocMemory` |
| Asynchronous log | `common/src/AsyncLogging.cpp` | two buffers, the full ones, `running_` | `append`, `threadFunc`, `start`, `stop` |
| Log front end | `common/src/Logging.cpp`, `LogStream.cpp` | a buffer on the stack of each `Logger`, a `once_flag` | `operator<<`, `output`, `once_init` |
| Log files | `common/src/LogFile.cpp`, `FileUtil.cpp` | a `FILE` with its buffer, `count_` | `append`, `flush` |
| Start of the program | `main/src/main.cpp`, `common/src/Config.cpp`, `Process.cpp` | the items of the configuration; which process goes on | `load`, `getNum`, `create_daemon`, `lanuchWithDeamon`, `main` |

Not modelled: the socket wrappers other than `accept()` and the byte order, which are one system call each
and whose effect is in the models of their callers; time stamps, process title and helper types, which
have no state anybody depends on; `main/src/ByteStream.h` and `MessageByteStream.h`, which no file of the
program includes (the first does not compile by itself). Of modelled parts are left out what nobody calls
(`removeConnection()`, `TimerNode::update()`, `Buffer::swap()`, the searches for line ends) and the limit of
4096 events for one `epoll_wait()`, which a process meets only if its limit on descriptors is raised.

How they meet. A base loop accepts connections and checks heartbeats; each of a
pool of loop threads serves the connections it was given. Threads meet in four places only:
functors put into another loop's queue (`runInLoop`), which the loop takes out as a batch;
`shared_ptr`s to connections, held by the server's map and by functors; a few fields read
and written without a lock (`quit_`, `heartTime_`, the users' table); and the pools
of memory and the log, which have mutexes of their own. All else is called in the loop's
own thread from the callbacks of a channel.

What is hard about it, and what would make it right:

* *A call handed over while the loop goes to sleep.* The eventfd is edge-triggered
  and is registered anew after each report; the queue is swapped outside the handler. No
  wakeup may be lost, and calls run once, in order.
* *Which events are registered.* A report clears what a channel monitors, so that every
  callback must register what is still wanted. No output and no end of stream may be forgotten.
* *Who frees a connection.* The base thread erases it, the loop tears it down. No loop
  may be left with a pointer to a channel that is gone.
* *Time.* Silent clients are to be dropped, and not too early; timers are to run
  once, and not too early.
* *Data.* A buffer is a queue of bytes whatever its vector goes through; a stream is the
  messages that were sent, however it is cut up.
* *Broadcasts* across loops keep the order of each sender and reach everyone listed.
* *Memory* is with one user at a time; *log lines* are written once and in order, though the disk
  takes part of what it is given, and fit the buffer they are put together in.
* *Start and stop* of threads and of the server: nobody uses what is not there yet or any more, nobody
  waits for ever; a program that forks has one process that serves, with the thread of its log.

`PROJECT.json` lists the places where each of these bites under "hazards".

## 2. The modules

| module | models | remarks |
|---|---|---|
| `CallQueue` | what the event loop promises: a line of calls, run once and in order | abstract specification |
| `EventLoop` | `loop()` phase by phase, the eventfd and timerfd with their epoll entries, `runInLoop`/`queueInLoop`/`quit` from the loop and from other threads | implements `CallQueue` (`LineSpec`) |
| `EventLoopProofs` | theorems about `EventLoop` and about `TimerQueue` | TLAPS |
| `ClientConnection` | one connection with its channel, epoll entry, buffers (counted in messages) and socket, against a peer that sends, urgently too, reads, closes and resets; broadcasts from the callbacks of the loop's other connections | |
| `ClientConnectionProofs` | theorems about `ClientConnection` | TLAPS |
| `LightServer` | composition: base loop, I/O loops, connections and who holds them, heartbeat check, users who are sent to | loops and connections reduced to what `EventLoop` and `ClientConnection` show of them |
| `ServerLoops` | composition: `LightServer` with a record of what each loop has run | every loop implements `CallQueue` (`LoopsAreCallQueues`) |
| `LightServerProofs` | theorems about `LightServer` and `ServerLoops` | TLAPS |
| `EventLoopThreads` | the pool's start and its destruction, thread by thread; the mutex that is made after the thread that locks it | actions only |
| `ServerEnd` | composition: `~LightServer()`, its connections and the calls it hands to the loops of `EventLoopThreads` before it ends them | |
| `ServerEndProofs` | theorems about `ServerEnd` | TLAPS |
| `ByteQueue` | what a buffer promises | abstract specification |
| `Buffer` | the vector, its indices, and every operation that moves bytes | implements `ByteQueue` (`QueueSpec`) |
| `BufferProofs` | theorems about `Buffer` and about `MessageParser` | TLAPS |
| `MessageParser` | `onMessage()` with `BufferParser` over a stream cut up by TCP | |
| `ChatServer` | register, login, logout, broadcast in several loops; deleted messages and freed connections | composed of loops that run handed-over calls in order |
| `ChatServerProofs` | theorems about `ChatServer` | TLAPS |
| `TimerQueue` | `runAfter()`, the wrapped times, the phases of a turn that look at timers | |
| `MemoryManger` | `operator new` and `delete` over the five size classes, with the tables the code has | |
| `ObjectPool` | nodes, their count, the stack | |
| `Storage` | composition: the object pool takes its further nodes from the memory pools, which the rest of the program uses too | |
| `StorageProofs` | theorems about `Storage`, with `MemoryManger` and `ObjectPool` | TLAPS |
| `LogStream` | what fits into the buffer of a line, piece by piece | functions only |
| `LogFile` | short, torn, failed and repeated writes, the C library's buffer, flushes that work or fail | actions only |
| `AsyncLogging` | construction, start and stop, the four buffers, the writing thread over `LogFile` | actions and properties |
| `Logging` | `Logger` and `output()`: lines of `LogStream` into `AsyncLogging`, made and started by the first who logs | |
| `Startup` | composition: `main()`, the configuration and `create_daemon()` with every failure, over `Logging` | |
| `LoggingProofs` | theorems about `Startup`, with all of the log | TLAPS |

`MCx` instantiates module `x` for TLC (`MCLogging` instantiates `Startup`, which is all of the log).
`ServerSafety` is a run of `MCServerLoops`: `LoopsSpec` adds to `LightServer` a record of what was run and takes no step from it,
so the invariants of `LightServer` are checked there too. `ServerLiveness` is a run of `MCLightServer`.

State and actions follow the code. Variables bear the names of the members they stand for,
or say in their comment which they are; an action is one handler, or the part of
one between two points where another thread can come in: a mutex taken or given back, a system call, a
store to a field that others read. `EventLoop`'s `pc` is the phase of `loop()`; `Queue…`/`HandOver` the critical section of
`queueInLoop()`, `Wakeup` the `write()` after it. In `LightServer` the two actions `ReadHeart`
and `AddToHeart` are the one line `heartTime_ += …` of `checkHeart()`, since another thread
writes the same field. `map` in `PROJECT.json` gives the lines for each definition.

The kernel is modelled as the code uses it: an epoll entry has a mask and is or is
not in the ready list; an edge-triggered entry leaves the list when it is
reported, and `EPOLL_CTL_MOD` puts it back if there is something to report. Data is abstracted
as far as the properties allow: messages are counted in `ClientConnection`, are
commands with a number of fields in `MessageParser`, and pairs of sender and number in `ChatServer`.

Definitions headed `Slip:` are not part of the specifications. Each is a
plausible mistake in the definition that follows it, and is there to show that a property
notices it (`mutants` in `PROJECT.json`).

## 3. Runs

| run | what it checks | bounds | states |
|---|---|---|---|
| `EventLoop` | no wakeup lost, the eventfd is never read in vain, the calls form one line, all calls run, `quit()` ends the loop | 2 threads, 2 calls | 66 000 |
| `ClientConnection` | `index_` follows epoll, what is wanted is registered, the callbacks meet no failure they cannot cope with except after a reset or at a lone urgent byte, the end of stream is noticed | receive queue 3, send queue 2, one `readv()` takes 2, 3 broadcasts, one urgent byte at a time, two manners of users | 88 000 |
| `ServerSafety` | `accept()` is never called in vain; no loop reaches a destroyed connection, and whoever has left the map is about to be torn down in its own loop; each loop runs what the server hands to it once and in order, and nothing is handed over twice | 2 clients, who register and are sent to at any time, 2 I/O loops, heartbeat time 2 turns, the first check takes none or too much for the time gone | 2 300 000 |
| `ServerLiveness` | each client that comes gets one accepted, accepted connections get established, silent ones get freed, nobody is dropped early | 2 clients sharing 1 I/O loop, nobody registers, heartbeat time 3 turns, the first check takes less than none, none or too much for the time gone | 560 000 |
| `ServerEnd` | who hands over a call finds a loop, the server ends cleanly, `start()` returns | 2 threads, 3 connections | 250 000 |
| `Buffer` | a queue of bytes, bounded | vector of 4, strings of 3, second area of 2 | 126 000 |
| `MessageParser` | messages in order, `onMessage()` returns, all get handled | 4 messages of all five kinds, every way to cut the stream | 68 000 |
| `ChatServer` | order of each sender, messages intact within a loop, everyone listed is owed the message until it gets it, and gets it | 3 connections, 2 loops, 2 names, 3 messages | 68 000 |
| `TimerQueue` | never early, once, kept until then, in the end | 2 timers, timeouts 0 to 2 s, 9 ticks of half a second, away from the wrap and across it | 330 000 |
| `Storage` | no memory with two users, no node lost, blocks large enough | 5 size classes of 2 blocks, sizes 64, 65 and 1025, 3 nodes | 710 000 |
| `Logging` | one process alone serves and has its log's thread, and one comes to serve; no line overruns its buffer; lines once and in order, assertions, lines get to the disk | 2 threads, 4 lines of 2 lengths, log buffers of 1 line or 2, 3 buffers are too many, 2 faults of the disk, 6 configurations | 500 000 |
| `PoolReuse` | the assertion of `ObjectPool::deAllocMemory()`; **violated** | 2 nodes | 100 |

Why the bounds are enough. Each is chosen so that every branch is taken and every race can happen: two threads
and two calls let two pushes race each other and the loop, the second into the queue
of a batch that runs (for more of them there is the proof). In
`ClientConnection` a burst is larger than one `readv()`, output larger than the send queue, and an urgent byte before, between, behind or without other data. In
`LightServer` a second client is accepted at any point of the first one's life, in the same loop
or another; a heartbeat time of two turns is the shortest in which a client can be
charged, spared, and charged again. What is sent to users touches neither a heartbeat nor who holds a connection, so that `ServerLiveness` does
without (`Registering = {}`). `ServerEnd` has one thread joined while the other loops or has not begun to, and a loop with two connections. A `Buffer` string fits, fills, moves or grows the vector. `Logging` has lines that fit a buffer together, alone
and cut, fills and drops buffers, and writes them with a fault at any place; two faults are what `append()` takes to give up. Its configurations are none; a daemon said twice, and
with blanks to spare; no daemon for want of a blank before or behind the equals sign; and a value left empty, which ends the program. `TimerQueue` starts where every timer is due on the same side of the wrap, and where the wrap comes
between the asking and the time. In `Storage` the sizes lie on both sides of the limit between two classes and behind the last, and the pool takes both blocks of its class and then `malloc()`; the table itself is
the code's, and `BlocksFit` proves it for every size.
Every bound is a constant named `Max…`, a small set, or given in the cfg.

Fairness. Loop threads are weakly fair: the scheduler runs a thread that can run. Of
`epoll_wait` it is assumed only that it reports what is ready; `AllCallsRun` also assumes
that it comes back after `EPOLLWAIT_TIME`, as the code asks it to, and says so in its
premise. In `LightServer` I/O loops are fair only while a call is queued (that they wake up for it is
shown in `EventLoop`), the base loop turns because of that timeout, and time
passes; in `ClientConnection` the peer reads what it is sent, in
`MessageParser` what was sent arrives. Nothing is assumed of clients that send,
close or fall silent, nor of timers' callbacks. Deadlock is checked except where the system really may
come to rest: clients have nothing more to say, the process has ended or failed, memory is used up.

What a passing run does not say. `oldTime_` is not initialised, and the first check may charge any time, more than `HEART_TIME` or less than none:
`NotReapedEarly` excuses (in `wronged`) whoever's `heartTime_` still holds what that check added, until its next heartbeat, and shows that the harm goes no
further, to no later check and to nobody made after it. It excuses also a client whose last heartbeat was handled just while `checkHeart()`
adds up, in another thread: its reset is lost. `NoDanglingChannel` excuses (in `revived`) a connection that the user sent to after its `connectDestory()`. In `TimerQueue`, `NeverEarly` makes an exception for timers asked for
before the wrap at 10000 s and due behind it, which run at once, and `TimerRuns` for those due just before it, which may be found behind
it and wait for a whole period. `LineIsWritten` is about lines that were appended, and counts as lost a line of which the disk
has a part; `StartServes` excuses the log's `start()` that waits for ever (`Hangs`) and a configuration that ends the program. `EofIsNoticed` is for a protocol of requests and
answers. `EveryMessageHandled` has two parts: `OnMessageReturns` is for reads that end with a message, the other for reads of one message.
`LightServer` and `ChatServer` do not include the failed assertion of `Storage`, which would end the process, and the users of `ServerEnd` send to nobody.

### The disagreement

`PoolReuse`: `allocMemory()` sets `objectRef_` when it makes a node and not when it takes one from the
stack, so that a node that was given back once has count 0. The assertion in
`deAllocMemory()` (`common/inc/ObjectPool.h:99`) then fails the next time. The stack hands out the node that came back last: two
clients one after the other are enough.

### What the models show beside

Some of the modules end with properties that comments of the source promise and the code
does not keep. No run lists them; a name from this list put into the cfg as `INVARIANT`
(or `PROPERTY`, where it is one of steps or of time) makes TLC print the steps.

| property | cfg | what happens |
|---|---|---|
| `NotReapedEarly` without `cur \in wronged'` | `ServerLiveness` | the first check subtracts `oldTime_`, which is not initialised: a new client may be charged any time |
| `NoChannelDangles` | `ServerSafety` | a broadcast registers a connection again whose `connectDestory()` has run (`common/src/Epoll.cpp:70`); the loop is reported it, the base thread erases the last pointer, and the loop goes on to a destroyed channel |
| `FreedInOwnLoop` | `ServerSafety` | the loop has run `connectDestory()` before the base thread erases the last pointer, and the base thread destroys the connection |
| `WaitingIsAccepted` | `ServerLiveness` | one `accept()` for one edge: of two clients who come together one waits for a third |
| `ClosedAtHome` | `ServerEnd` | the loop has run `connectDestory()` while the destructor still holds the connection, which the base thread then destroys |
| `DestoryIsRun` | `ServerEnd` | a loop that sees `quit_` ends without looking at its queue: its connections are destroyed with the functors, and `connectDestory()` is not run |
| `StartAlwaysReturns` | `ServerEnd` | a thread is so fast that it locks `mutex_` before the constructor has made it; the base thread then looks at `loop_` while the thread sets and notifies it |
| `DestructorEnds` | `ServerEnd` | `quit()` comes before `loop()` sets `quit_` to false, and the join waits for ever |
| `QuitMeetsLiveLoop` | `ServerEnd` | the loop sees `quit_` and is gone before `quit()` gets to its `wakeup()` |
| `NoBlockIsLost` | `Storage` | `blockRef_` is never counted up: a block given back twice is out of use |
| `StartReturns` of `AsyncLogging` | `Logging` | `start()` notifies a thread that has looked at `running_` and is not asleep yet; or the thread sleeps on `cond_` before the constructor has made it |
| `NothingLeftBehind` | `Logging` | lines in the buffers when `running_` turns false are not written |
| `MessageIsIntact` | `ChatServer` | `onMessage()` deletes a message that another loop has yet to copy |
| `OnlineExists` | `ChatServer` | a freed connection's user stays online, with a pointer to it |
| `LoggedInIsOnline` | `ChatServer` | `processLogin()` answers success and changes nothing |
| `LinesEnd` | `Logging` | a line that is too long loses what stands behind it, its newline too |
| `ItemsAreRead` | `Logging` | an item without blanks round the equals sign loses a character of its name and its value; one that ends with it makes `substr()` throw (`common/src/Config.cpp:48`), and the program ends |

A comment at `main/src/main.cpp:105` says that every data packet may serve as a heartbeat. It does not: the reset that would make it so is commented out in
lines 111 and 112, and only `CMD_HEART` resets `heartTime_` (line 135). So `HandleMessage` leaves `heart` alone, silence (`quiet`) is the time without a
`CMD_HEART`, and `SilentIsFreed` says of a client that talks all the time and sends no heartbeat that it is freed, too; whether that is what the
program means is for its authors to say.

Without `segments # "any"`, `OnMessageReturns`, the first part of `EveryMessageHandled`, fails too: `onMessage()` calls the parser until it has
a message, in the thread that would have to read the rest of it. Remarks on code that is not
modelled: `Buffer::findCRLF()` assigns `beginWrite()` where it compares, at `common/src/Buffer.cpp:85`, and
so always returns null; `processRegister()` does not free the user of a name that is taken; a daemon's `chdir("/")` moves the log, whose file name is relative;
the destructor of the server closes the listening descriptor, and that of its `Socket` does so again.

## 4. Proofs

`EventLoopProofs.tla`, for any `Threads` and `Calls` (assumption: the loop thread is none of
`Threads`, and `None` is no thread):

* `TypeCorrect`: `Spec => []TypeOK`. `TypeOK` also says which phases go with which flags:
  `looping_` holds from `loop()`'s start to its end, active events are left over in no
  other phase than the dispatch, and a batch only while it runs. It is inductive.
* `ReadSafe`: `Spec => []ReadNeverFails`. That speaks of the dispatch only, and the loop comes back to the
  dispatch after the eventfd is registered again. `ReadInv` adds the state in between: once the handler has read
  the counter, its event is gone from the active list, so the zero it leaves is never read again.
* `WakeupsAreNotLost`: `Spec => []NoLostWakeup`. `NoLostWakeup` speaks of the poll only; between two polls the wakeup
  may have been consumed while its call is still in the queue. `WakeInv` extends
  it to every phase from the swap to the next `epoll_wait`: another thread's call in the queue has its wakeup pending
  (a write to come, or a readable eventfd that epoll will report), because the handler, which takes wakeups
  away, runs only in the dispatch, and the swap after it takes every call they stood for. `NoLostWakeup` includes `TypeOK`.
* `BatchIsBounded`: `Spec => BatchNeverGrows`, from `TypeOK` (no run has it as a property): calls that are handed over while a batch runs, by its own calls too, are
  left for the next turn.
* `LoopImplementsCallQueue`: `Spec => LineSpec`. The mapping takes the calls that ran, the batch and the
  queue as one line; of all the actions only handing over and running a call move it, and a call is handed
  over once (`OnlyHandedOver`: a call in the line has a thread it came from).
* `CallsRunOnce`: `Spec => []Single(ran)`. It follows from the refinement and says what a user of the loop relies on: no call has run twice.

The same module extends `TimerQueue` too (whose names bear the prefix `Timer` for that), and is about it for any finite set of timers and any delays, clock at the start, period of the
wrap and bounds (`TimerAssumption`: they are natural numbers, a second and the period not zero):

* `TimersRunOnce`: `TimerSpec => []RunsOnce`. `PlaceInv`: a timer waits in `timers_`, among the calls handed over or among the expired ones, only while it
  has not been run, and is never both handed over and expired. Running it takes it out of the last of these places.
* `TimersAreKept`: `TimerSpec => []NoTimerLost`, which `RunsOnce` includes. A timer moves between three places, and what leaves one is in another, or has run. The step to show is the
  one that takes out what is due: the order in which the timers are taken has all of them (`OrderHasAll`: an injection between finite sets of one size is onto).
* `TimersArePatient`: `TimerSpec => []NeverEarly`. A wrapped time says nothing of when it is due without the time of asking, so `TimeInv` keeps them together: a timer's time is the
  one it was asked for, wrapped, it was asked for in the past, and what was taken out is due or belongs to an earlier period. `PassedIsDue` is the arithmetic of
  it: of two times in one period, the wrapped ones are ordered as the times are.

`ServerEndProofs.tla`, for any number of threads above zero and any `Conns` (assumption: `None` is no connection):

* `HandedToLoops`: `Spec => []CallsMeetLoops`. Whoever is handed a call still has its loop.
* `EndIsClean`: `Spec => []EndsCleanly`. The assertions hold, all threads are joined, no living loop's epoll knows
  a destroyed connection, and when the pool is gone none is left.
* `ServerInvariant` is the inductive invariant both follow from. `EndsCleanly` says what must not be, and not
  what keeps it from happening, so the invariant has two parts. `PoolInv` is about the threads alone: `loops_` has the loops that
  were published, in order; a thread leaves `loop()` only when told so; the destructor is done with the
  threads before `i` and has not begun with those behind it (`LoopsInv`, `PhaseInv`, `QuitInv`, `DestroyInv`). From that alone,
  every loop is alive while the server serves. `ServerInv` is about the connections: calls are only in
  the queue of the connection's own loop (`CallsInv`), exactly the connections nobody holds are destroyed (`HeldInv`), and, the
  heart of it, a connection its loop knows, or is about to, is in the map or has a `connectDestory()`
  to come in that loop, or the loop is gone (`DestoryInv`). The step of the destructor that takes a connection out of the map queues
  the call in the same breath; running the batch takes both away; and the end of the loop drops both.

  The proof first shows that each step of `ServerEnd` is for the threads a step of `PoolNext` or none (`PoolSteps`), so
  that `PoolInv` is proved without the connections, and then has a lemma for the steps of the base thread, the
  destructor and the loops (`QuietKeeps`, `AcceptKeeps`, `DestructorKeeps`, `LoopKeeps`).

`LightServerProofs.tla`, for any clients, number of loops above zero and times with a turn shorter than `HEART_TIME`:

* `ChannelsOutliveTheirUse`: `Spec => []NoDanglingChannel`, with users who are sent to at any time. The invariant `ServerInv` follows a connection. It exists as
  long as the map or a functor has it (`LifeInv`). Its functors are in its own loop only (`LoopInv`), and
  `connectDestory()` behind `connectEstablished()` (`OrderInv`). The heart is `DestoryInv`: a connection that leaves the map while its loop knows it, or
  is about to, has its `connectDestory()` still to come. `NoDanglingChannel` alone is not inductive, because it does not say what
  keeps the object alive between `erase()` in the base thread and the end of the batch in the loop. Sending adds to what epoll knows (`SendTo`): a user is
  a connection that was established (`UsersInv`), so before its `connectDestory()` has run this brings nothing new, and after it the connection is `revived`.
* `AcceptAlwaysFinds`: `Spec => []AcceptFindsClient`. For the listening socket's edge-triggered report and the `accept()` that follows it, `BacklogInv` counts who waits:
  one for a report, one for the call under way, two for both.
* `PatienceIsKept`: `Spec => NotReapedEarly`, whatever the first check takes for the time gone (`FirstDt` is any set of integers). `PatienceInv` bounds what a client that is not
  `wronged` has been charged by its silence and two turns, also for those whom a check that runs has yet to visit. The first check wrongs everybody it
  adds to, a lost reset the client it belongs to; the next heartbeat puts either right.
* `AcceptedAreEstablished`: `Spec => []MadeIsAwaited`: who was accepted and is not established yet has its `connectEstablished()` to
  come. It is stated beside its proof and is not a property of a run. `AwaitInv` is inductive beside `ServerInv`: taking a batch moves the calls that are to be run, dropping one that
  has been run takes none away (`BatchesKeepPending`), and running the call establishes the connection.
* `LoopsImplementCallQueue`: `LoopsSpec => LoopsAreCallQueues`, for every loop of the pool at once. The line of a loop is what it has run, the rest of its batch and its
  queue. That `CallQueue` takes a call once only is a promise of the server: `RanInv` says that a `connectEstablished()` is in a line only of a client that came,
  who comes once, and a `connectDestory()` only of one that has left the map, or is about to. So what is handed over is in no line yet.
* `FunctorsRunOnce`: no functor has been run twice, in one loop or in two, since a client has one loop for all of its calls.

`ClientConnectionProofs.tla`, for any sizes of the buffers, numbers of messages and manners of users:

* `IndexIsTrue`, `StaysArmed`, `FaultsNeedPeer`: `IndexTracksEpoll`, `Armed` and `FaultsComeFromPeer` always hold. `Armed` speaks of the time between two
  events. Within one, `getActiveEvents()` has cleared `monitorEvents_`, broadcasts from other connections' callbacks may come (`waits`), and the callbacks put it right one by one; `ArmedInv` says meanwhile what
  the kernel's entry has and which callback to come will see to the rest, `OutInv` that a read callback never finds more output than functors
  have sent, `ReadInv` that there is something to read, or an urgent byte, until the peer resets.

`ChatServerProofs.tla`, for any connections, loops, names and messages:

* `SendersAreInOrder`: `Spec => []SenderOrder`, and `HomeIsIntact`: `Spec => []IntactAtHome`. What a client got says nothing of what is on its way. `OrderInv` orders the queue of each loop
  too, and puts all of it behind what was received; `SaidInv` has no message later than the last that was said; `HomeInv` has no call in a
  queue from that loop itself, which sends at once. So a message that is sent at once cannot overtake one that was queued. `TaskInv`: during
  `onMessage()` the message is its client's last, and not deleted.
* `NobodyIsPassedOver`: `Spec => OwedUntilSent`. Nothing takes a connection from the list of a broadcast or out of a queue but the step that sends to it or
  hands over its call (`SendNextOwes`, `RunCallOwes`); owners of names do not change, and a registration disturbs scans, never a broadcast (`DisturbedFacts`). The property
  ends where the process does, at a connection that was freed.

`BufferProofs.tla`, for any bytes, sizes and strings (`Cheap` and the others are natural numbers):

* `BytesAreAQueue`: `Spec => QueueSpec`. `BufferInv` has the indices in order inside a vector with room for a header. From it each operation is shown
  to do to the bytes between the indices what `ByteQueue` does to its queue: lemmas say what `CopyTo`, `makeSpace()` and the second
  area of `readFd()` leave there. An operation that `ByteQueue` has no step for does not move these bytes.
* `VectorIsBounded`: `Spec => []NeverOutgrows`. The vector has at most what it was made with or what the user leaves unread, the header and one string.

The same module extends `MessageParser` too (prefix `Parser`), for any number of messages:

* `MessagesInOrder`: `ParserSpec => []HandledInOrder`. `ParserInv` says where in the stream the parser is: what is handled are the first messages, what is taken from the buffer
  are exactly these and the header in hand, and this is the next message's. The units before a message are a fold over those before it; `Begins` and `HeaderIsNext`
  show by induction that no two messages begin at one place, so that the header read there is that message's own.

`LoggingProofs.tla`, about `StartSpec`, which is everything from `main()` to the file, for any threads, messages, sizes and places of
failure. Assumed of the constants: the two fixed parts of a line and the messages are pieces, a number with its NUL is not longer than
`kMaxNumericSize` (`StreamAssumption`; a 64-bit integer has 20 characters and `snprintf` is given the limit), a large buffer holds a
line, two buffers are not too many.

* `StreamsFit`: `[]NeverOverruns`. A stream always has room for one byte, because `append()` takes what is strictly shorter than the rest. This is
  shown for `Put`, and for the line, a fold over its pieces, by induction.
* `BuffersGoRound`: `[]AssertionsHold`. The assertions are about one place of `threadFunc()`; `RoundInv` is about the whole turn: a buffer that is missing has
  been taken by the batch, which has so many at least (three are left when there are too many).
* `NoLineIsMislaid`: `[]LinesInOrder`. `LineInv` takes the file, the rest of the buffer being written, the rest of the batch, the full buffers and the current one as one
  row. Swapping moves the boundary between two of its parts; dropping and losing take lines out of it, into `dropped` and `lost`.
  Whatever fails in the file, a write that stops within a line, gives up or tears it, or a flush, is one kind of move (`FileMove`): of what the file has taken and is to take one stretch is
  lost, and the rest stays in its order (`WriteMoves`, `FlushMoves`).
* `OneProcessServes`, `LogIsServed`: `[]OneServes`, `[]LogHasThread`. Until the fork nobody has logged, so the thread of the log, which does not
  survive one, is not there (`StartInv`). `OneServes` includes `LogHasThread`. It says that nobody serves beside the process that goes on; that this one comes to serve is
  `StartServes`, and left to TLC.

`StorageProofs.tla`, for any number of blocks and nodes, and any sizes asked for:

* `BlocksFit`: `[]BlockFits`. The ranges of sizes (`Ranges`) and the block sizes of the pools (`MemBlockSize`, made up to whole pointers by `BlockSize`) are two tables in the code;
  `PoolServes` says that they agree: every size up to `MAX_MEMORY_SIZE` lies in a range, and the blocks of that range's pool are large enough (`TheRanges`, `TheBlockSizes`).
* `MemoryIsApart`: `[]NodesApart`. The stack of a size class is what its links reach, which no step changes in a way that could be seen from the step alone.
  `MemoryInv` says instead that *some* set has the stack's top, is closed under the links, none of which leads to the top or to where another leads, and has no block that is with a user
  or that was given back twice (those have count -1 and are out of use). `StackIsFree` shows the stack to be in any such set. `NodeInv` has the nodes of
  `operator new` each in a block of its own that is held.
* `NodesAreWhole`: `[]EveryNodeOnce`. No node may be lost, so for the object pool the invariant says what the stack *is*: `PoolInv` has a sequence with each
  node once, from the top along the links, of all nodes that are with nobody. `PoolStackIs` shows that `Stack` finds exactly these, because there are no more of them than links are
  followed.

The proof that a step keeps the invariant has a case for each action, or for each group of actions that leave it alone. What
holds after folds, flattened sequences and links followed step by step is proved by induction, in the form that a set of natural numbers that
is not empty has a least one (`SetInduction`). Each inductive invariant was checked by TLC, as an invariant of the run, before it was proved.

Out of the prover's reach and left to TLC: everything under fairness (`OthersCallsRun`, `QuitEnds`, `AllCallsRun`,
`EofIsNoticed`, `SilentIsFreed`, `StartServes`, …). Every safety property of the passing runs is
stated by a theorem.

## 5. Plan

Done, in this order: `CallQueue` and `EventLoop` with their proofs, `ClientConnection`, `LightServer`,
`EventLoopThreads`, `Buffer`, `MessageParser`, `ChatServer`, `TimerQueue`, memory, log; then the log as a whole with the start of the
program (`LogStream`, `LogFile`, `Logging`, `Startup`), the end of the server (`ServerEnd`), timers across the wrap, accepting as a promise to each client, and the proofs about `ServerEnd`; then the proofs about all the modules.
Then `ServerLoops`, which has every loop of the server implement `CallQueue`, and what must not be lost on the way to what must happen in the end
(`MadeIsAwaited`, `NoTimerLost`, `OwedUntilSent`).
Left to TLC is liveness, for the reason given above. `ClientConnection` and `EventLoop` are reduced in `LightServer` to what their own modules show: that the
reduction of the loop is right is shown for its calls, and only described for the connection.
