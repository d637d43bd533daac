# jsntp_lcdd in TLA+

`jsntp_lcdd` is a daemon for a Raspberry Pi (32-bit ARM) that shows the state of
the local NTP server and GPS receiver on a 20x4 character display. This
directory holds its verification: TLA+ modules of its parts, the TLC
configurations that check them on small instances, and TLAPS proofs of what
matters most for every size. `PROJECT.json` lists components, runs, mutants,
hazards and theorems, and maps each definition to the lines it models.

## The system

| part | source | state | operations |
|---|---|---|---|
| recursive lock | `JsCPPUtils/LockableEx.h`, `TSSimpleMap.h`, `Lockable.h` | a plain pthread mutex, a map from thread to nesting count with a mutex of its own | `lock`, `unlock` |
| atomic number | `JsCPPUtils/AtomicNum.h` | a value under a recursive lock | `operator=`, `get`, `getifset`, comparisons |
| daemon | `JsCPPUtils/Daemon.cpp` | options, pid file, groups, identity, logger, `m_runstatus` | `main`, `signalhandler`, `getRunStatus` |
| main loop | `main.cpp` | `timers[]`, the rows being made | one pass every 250 ms: read peers, draw |
| GPS worker | `GPSWork.cpp` | `m_worker_run`, `m_gpsconn_status`, the gpsd context | worker thread, destructor |
| GPS sample | `GPSWork.cpp` (`Data`) | one `gps_data_t` under a recursive lock | `setData`, two counts |
| display driver | `I2CLCD.cpp`, `I2CDevice.cpp` | bus, slave address, backlight bit | `init`, `backlight`, `puts_newline`, ... |
| peers | `ntpqmod.c` | one `peerinfo` | `ntpqmod_readpeer`, `when`, `prettyinterval` |
| smart pointers | `JsCPPUtils/SmartPointer.h`, `SmartPointerNTS.h` | handles, and a root with a count and a lock | copy, assign, `detach`, `attach`, destroy; a library class |
| logger, byte order helpers | `JsCPPUtils/` | - | not used while the daemon runs |
| service | `systemd/`, `install.sh`, `uninstall.sh` | - | start, restart on failure |
| NTP library | `include/`, `lib/`, `ntpq/` | vendored | queries to ntpd |

How they interact. systemd starts the program, which reads its options, forks and
changes its user; the parent writes the pid file and ends, and the child goes on.
`Daemon::main()` installs a signal handler, sets
`m_runstatus` to 1 and calls `daemon_main()`, whose loop runs while it is 1; the
handler, which runs on whichever thread the signal meets, sets it to 2. The GPS
worker copies each sample of gpsd into `m_last_data`, and the main loop makes a
row from it: shared state under the recursive lock. The main loop calls the
display driver and the NTP queries synchronously and looks at none of their
results. Signals end its `usleep()` early. When the loop ends, the destructor of `GPSWork` asks the worker to stop
by `m_worker_run`, and waits for at most 750 ms.

What is hard: a fork whose parent and child go on side by side, and a change of
user in steps whose results nobody looks at; three-step lock operations of
several threads; a signal handler
that takes a non-recursive mutex on the thread it interrupts; a destructor that
waits for a time and does not join; sleeps that signals cut short, under timers
that are compared with the start of a pass; a count of references that several
threads raise and lower; a half-sent byte on the display's bus with
no error handling but a periodic re-initialisation; failing queries into one
reused structure; counters that wrap around. What makes each part correct:

- *lock*: exclusion, no waiting for oneself, only the owner releases; in short,
  it is a recursive lock.
- *start-up*: the main loop runs as one user that was asked for, or wholly as its
  starter; the pid file names the process that runs.
- *run status*: it only moves on; a request to stop ends the loop; where a
  signal is unsafe, and that it is safe everywhere else.
- *GPS worker*: the context is opened, used and closed in order; a silent
  connection is given up; the worker leaves the object before it goes away.
- *GPS sample*: a row speaks of one sample, and never of an older one.
- *display*: an `init()` without failure repairs everything; rows do not
  overwrite each other; after the last fault every pass is shown.
- *row of peers*: each piece comes from its own peer's answer; it fits.
- *main loop*: clock row and set-up keep their time whatever signals do; a request
  to stop ends the daemon within a bound.
- *smart pointers*: nothing is used after it is deleted, the last holder deletes,
  and the locked version does what the one for a single thread does.
- *times*: right across wrap-around, close after rounding, never going back.

## Modules

| module | models | composed with |
|---|---|---|
| `RecursiveLock` | what a recursive lock promises (abstract) | |
| `LockableEx` | `LockableEx.h`, one action per part of `lock()`/`unlock()` | refines `RecursiveLock` |
| `RunStatus` | `m_runstatus`: `AtomicNum` down to the map's mutex, main thread, worker and signal handlers as stacks of operations | |
| `DaemonStart` | `Daemon::main` up to the main loop, parent and child, restarts | |
| `GPSWork` | worker thread and destructor, with time | |
| `MainLoop` | `daemon_main()` in time: timers, signals, its end | extends `GPSWork`, whose owner it is |
| `GPSData` | `GPSWork::Data` and the row made from it | uses `RecursiveLock` as its lock |
| `HD44780` | the display and its port expander (external) | |
| `I2CLCD` | the driver as operators on a device | `HD44780` |
| `Display` | the drawing half of a pass, faults, restarts | `I2CLCD` |
| `StatusRow` | `main.cpp:59-123` and `ntpqmod_readpeer` | |
| `PeerTimes` | `when` and `prettyinterval` | |
| `SmartPointerNTS` | what shared ownership promises: the version for one thread (abstract) | |
| `SmartPointer` | `SmartPointer.h`, one action per locked part | refines `SmartPointerNTS` |
| `MC...` | constants for TLC; `MCStatusRow` also a row put together by hand, to check `Joined` against | |
| `...Proofs` | theorems about the module in the name; `MainLoopProofs` also those about `GPSWork`, `PeerProofs` those about `StatusRow` and `PeerTimes` | |

How the modules correspond to the code:

- **LockableEx.** `pc` names the part of `lock()`/`unlock()` a thread is at,
  `locked` is the local `_locked`, `mutex` is `m_lock`, `tinfo` is `m_tinfo`.
  `TSSimpleMap::get` and `set` are one step each, as they hold the map's mutex
  throughout and take no other lock. Callers pair their calls, as every caller
  in the program does.
- **DaemonStart.** `pc` is where the process is that goes on, the child after a
  fork, and `parent` where the parent is. The option loop takes a word, or a
  value option and its value, per step; `opts` has the local variables it sets.
  A user's name stands for its uid and its primary gid, and `started` for the
  child's pid. `SetGroups`, `SetGid` and `SetUid` are the kernel's: without root
  they change nothing, and the code does not notice. A line of `/etc/group` is
  its gid and its members; one that `strbuf[256]` cuts, or that has an empty
  field, is not `plain`. `pidfailed` is history: the file could not be opened or
  not be written, which the code does not notice. Groups are compared as sets, as
  the kernel takes them.
- **RunStatus.** Takes the same operations apart further, as a signal may come
  inside `TSSimpleMap` too. Each thread has a stack: a handler pushes a
  `getifset` onto what the thread was doing. `by` names the signal whose handler
  an operation belongs to: the kernel blocks it on that thread until the handler
  returns (`Blocked`), but neither the other signal there nor the same one on the
  other thread. Every action is one access to a mutex or to a shared variable. The window between `signal()` and the
  assignment of 1 is there (`pc = "installed"`), as is a signal before its
  handler is installed, which kills the process. The body of a pass is one
  point. SIGHUP is left out, for `main.cpp` sets no reload handler, and so is the
  memory that `m_map[key]` allocates for a thread that is new to the map.
- **GPSWork.** `wpc` is where the worker is; inside a blocking call it is the
  call's name and `wleft` the ticks (10 ms) until it returns. Every result of
  every libgps call is possible, limited by the state of the peer: a silent one
  has nothing to read, and only a good one delivers. `gps_read()` returning -1
  keeps the connection, as the code does. Time passes only when both threads
  wait; computing takes none. `AtomicNum` operations are single steps here,
  which `LockableEx` justifies, but for the last `unlock()` of the worker: the
  mutex is free before the nesting count is stored (`Tail`). A signal ends the
  `usleep()` of the thread it meets: `CutSleep` and `CutPoll`. The worker's is cut
  only after a tick, so that signals without end at one instant do not stop time.
- **MainLoop.** Extends `GPSWork`, so that worker, destructor and loop share its
  ticks; every action of the loop is a step of its owner or leaves it alone. `at`
  is where the loop is and `left` the ticks until what it does there returns.
  The timers are ages: `workAge` is the time since `timers[3]`, which is set to the
  start of a pass, and `setUpAge` since `timers[2]`. `SkipPass` is a pass that a
  signal has brought about too early; it goes back to sleep for the whole period,
  as the code does. `AskedTo` is a signal that sets the status, at any point of
  the loop; `RunStatus` says when it does and that the loop sees it. A request that
  finds the destructor at work changes nothing and is left out. What peers and
  display do in a pass only takes time here (`MaxQuery`, `MaxDraw`).
- **GPSData.** `memcpy` is any order of element copies; `gpsdata` holds, for each
  element, the sample it comes from, which is all the properties tell apart.
- **Display.** One step is one call of the driver: an ioctl, a nibble or a byte.
  A transfer fails with or without having reached the display. `InitCalls` has
  the very bytes `init(0x27, 20, 4, 0)` sends, and `HD44780` decodes them bit by
  bit. On a falling edge of the enable line the display may take either the old
  or the new values of the other lines, where they change together. `clean` and
  `screen` are history variables. `age` counts passes since the last set-up and
  stands for `timers[2]`. Every row of a pass is given by `Wants`; the rows'
  contents are the other modules'.
- **StatusRow.** A character is a pair of its kind and its peer, so a piece of
  another peer in a row is told from its own. `peerinfo` holds the fields the row
  uses, its binary address as the address written out. `InetNtop` is the call with
  the size it is given, which an address of 28 characters and its NUL exceed.
  `answers` is history.
- **SmartPointer.** `call` has, for each thread, the operation it is in: target,
  source, the root it lets go (`drop`), the one it takes (`take`) and what comes
  next. Every operation is a drop of the old reference, a move of the pointers and
  an addition to the new root, as in the code; `delRef()` and `addRef()` are split
  at the lock and between load and store of `m_refCount`. A root stands for root
  object and owned object. The constructors are the assignments on a handle that
  holds nothing. `owns` is history: the reference a place has been counted for. The
  caller's duties are guards of `Begin` and `Copy`: no thread writes a handle that
  another uses, and none assigns a handle to itself. Both versions of the class
  have the same operations; the abstract one has them as atomic steps.
- **PeerTimes.** The word width is the constant `Half`. `elapsed` is the true
  time since the last packet, negative after the clock has been set back; `now`
  is the counter that shows it.

## Runs

| run | module | properties | what it shows |
|---|---|---|---|
| `lock` | `LockableEx` | `TypeOK` `MutualExclusion` `NoSelfDeadlock` `OwnerUnlocks` `ImplementsRecursiveLock` | the lock is a recursive lock; no deadlock of paired callers |
| `status` | `RunStatus` | `TypeOK` `OnlyCaughtIsStuck` `StatusMovesOn` `CaughtHangs` `AskedStops` | exactly where a signal hangs its thread, and that every other request ends the loop |
| `status_doc` | `RunStatus` | `StoppedIsZero` (violated) | see Findings |
| `gps` | `GPSWork` | `TypeOK` `ContextUsedInOrder` `WorkerLeavesFirst` `SilenceEndsConnection` `WorkerStops` | order of use of the context, the destructor's wait, the end of silent connections |
| `loop` | `MainLoop` | `ClockInTime` `SetUpInTime` `StopsInTime` `StopsAtAll` | the timers and the end of the daemon under signals at any time |
| `gps_data` | `GPSData` | `TypeOK` `SnapshotConsistent` `RowsGoForward` | one sample per row, in order; no deadlock up to the last sample |
| `display` | `MCDisplay` | `TypeOK` `InitRecovers` `KeepsShowing` | recovery from any one fault |
| `display_wide` | `MCDisplay` | `RowsShowText` | no row runs into another |
| `row` | `MCStatusRow` | `TypeOK` `RowIsJoin` `RowFits` | the row is the one due with the answers of this pass; six peers fit |
| `start` | `MCDaemonStart` | `TypeOK` `IdentityIsWhole` `PidFileIsCurrent` | the user the main loop runs as; the pid file against the child's progress |
| `pointers` | `SmartPointer` | `TypeOK` `HeldIsAlive` `LastOneDeletes` `ImplementsNTS` | no use after deletion, no leak, each drop and copy atomic |
| `times` | `MCPeerTimes` | `TimesTypeOK` `WhenIsElapsed` `ShownIsClose` `ShownGrows` | the column at every boundary |

Every property has a mutant of the code's model, listed in `PROJECT.json`, under
which its run fails.

Bounds, and why they are enough:

- `lock`: three threads, one more than share any lock in the program; depth 3,
  one more than the program nests (the row's lock and a count's). The proofs are
  for any.
- `status`: three signals, each SIGINT or SIGTERM, the same one again too. While a
  handler runs, its own signal is blocked on the thread, so two handlers on one
  stack is the most there can be; with three signals there can be two on one
  thread and a third on the other, or one after a handler has returned. The
  proofs are for any number.
- `gps`: the times of the code in ticks; `MaxCall = 6` and one cut poll, the longest
  calls for which the destructor's polls suffice then (10 + 50 + 2 x 6 + 1 < 75).
  Without a signal 70 ms suffice; beyond that `WorkerLeavesFirst` makes no promise.
  The proof is for any.
- `loop`: small times, each at least the least for which its case happens: a period of
  four ticks can be cut after one, two or three; the set-up falls due between two
  passes; `Sleep`, `Wait` and `Polls` are as small as `WaitSuffices` allows. The
  three bounds are tight: with any of them one tick less TLC finds a violation. The
  proofs are for any durations.
- `pointers`: two threads, three handles (two of one object and the one being
  written), one raw pointer, two objects: an object can be dropped by one thread
  while the other copies it, and be replaced by the second one. The
  proofs are for any number of all of them.
- `gps_data`: two elements per array, the least in which a copy can be half
  done in one of them; three samples, so that a row can meet an older and a
  newer one. The proof is for any.
- `display`: two columns, as what is at stake is bytes and nibbles and not the
  length of a row; one fault, after which the history of the half-byte is
  arbitrary, while a second fault is no different from the first one at a later
  time unless both fall into one set-up; then `clean` is false and the next one
  repairs it. Two passes between set-ups instead of up to 240. `Floating` takes
  both extremes of what unwired lines may read.
- `display_wide`: twenty columns and the four row addresses as in the code, for
  what depends on the length of the rows; a text of 21 characters, which has to be
  cut, and short ones. The proof is for any width
  up to twenty, which is where the rows of the display's memory still lie apart,
  and for texts of any length.
- `row`: six associations, as many as are promised to fit; unread, unselected or
  selected, with a reference id that is an address, is kept or is dropped, and with
  addresses of 15, 27 and 28 characters: all longer than the eight that are shown,
  on both sides of what `inet_ntop()` takes. `JoinedIsRowOf` compares what `RowIsJoin`
  says of a row with a row put together by hand, and with two that are altered,
  for all answers of up to three associations. The proofs are for any number of
  associations and any lengths.
- `start`: every command line of up to three words out of nine, which has the
  unit's own, each pair of the value options in both forms, two `--user` options
  and a value option last. Two starts, the least for a pid file that is stale.
  `MaxGroups = 2` stands for 64, with a file that lists the user once and one that
  lists it three times; a third has a line that is not
  plain. Started as root and as an ordinary user.
- `times`: words of 30 bits, as TLC's integers have 32, and intervals within a
  few seconds of each threshold of the text, of each rounding point and of the
  wrap-around. The proofs are for any width and interval.

`CHECK_DEADLOCK FALSE` is set where the system really stops: a daemon that has
returned or been killed, and (by the code) one that waits for itself
(`status`); a worker and an owner that are both through (`gps`, `loop`); a service
that has used up its starts (`start`).

Fairness:

- `RunStatus`: weak for the main thread's own steps, strong for the steps inside
  an operation. A thread waits for a mutex that the other takes again and again;
  the main loop sleeps 250 ms between two polls, so the mutex is free almost
  always and the waiter gets it. No signal need arrive.
- `GPSWork`: weak for the worker, for the destructor and for time. That libgps
  calls return is in the model (`MaxCall`); that gpsd ever answers, or that the
  daemon is ever asked to stop, is not assumed.
- `MainLoop`: weak for the loop's own steps, for time, for the worker and for the
  destructor: each is a thread that is scheduled, whose calls return. Signals and
  gpsd are free; a signal cuts a sleep only after a tick of it, since otherwise
  signals at one instant could stop time for ever.
- `Display`: weak for the main loop. Faults are limited in number, as no
  display recovers from faults that never end.

## Proofs

All of them by TLAPS, from the assumptions on the constants only.

| module | theorems | argument |
|---|---|---|
| `LockableExProofs` | `TypeCorrect`, `MutualExclusionHolds`, `NoSelfDeadlockHolds`, `OwnerUnlocksHolds`, `RefinesRecursiveLock` | None of the properties is inductive, since each speaks of one place in the code. `IInv` adds, for each place, how local count, stored count and the caller's balance agree (`CountsAgree`), and that the mutex belongs to the thread whose count in force is positive (`OwnerIsHolder`). For the refinement, `LockMutex` and `UnlockMutex` map to acquiring and releasing; the rest stutters. |
| `MainLoopProofs` (`GPSWork`) | `TypeCorrect`, `ContextUsedInOrderHolds`, `WorkerLeavesFirstHolds` | `ConnAgrees` ties `m_gpsconn_status` to the connection at each place. For time, `InTime` says at each place that the longest way to the end is shorter than what is left of the destructor's wait; it holds when the wait begins since `WaitSuffices`, a tick takes one from both sides, and a cut poll takes one of `MaxCuts`. |
| `MainLoopProofs` (`MainLoop`) | `LoopIsOwner`, `LoopWorkerLeavesFirst`, `ClockInTimeHolds`, `SetUpInTimeHolds`, `StopsInTimeHolds` | Every step of the loop is a step of `GPSWork` or none (`LoopStepIsStep`), so what is proved there holds here. `LInv` says at each place of the loop how old each timer can be at most, what is left to do counted in: a pass is followed by a pause, and a pause that is cut finds a timer that is less than a period old (`WorkRecent`); the others are bounded relative to it. |
| `GPSDataProofs` | `TypeCorrect`, `SnapshotConsistentHolds`, `RowsGoForwardHolds` | `LockAgrees` ties holder and depth to the two threads' places; `SamplesAgree` says that all that is not still to be copied is of the last sample. |
| `DisplayProofs` | `TypeCorrect`, `InitRecoversHolds`, `RowsShowTextHolds` | The invariant follows a clean `init()` call by call: `SetUpProgress` says what is known of the display with n calls to go. Three 3s and a 2 bring a display in any state in step: the first 3 completes a byte that was begun or begins one; whichever it is, after the third the display is in 8-bit mode, which the 2 ends (`NibbleOfInit`), and each command then sets its mode (`CommandOfInit`). A clean call gives its byte exactly once (`SendExecutes`), so drawing keeps the modes (`DrawingKeepsReady`). For the texts, `TextsAgree` says with n calls of a row to go: the address counter stands at the column that comes next, and the columns before it show the text (`RowUnderWay`, `RestOfRow`). A call that gives a character changes one cell (`PutCharDraws`) and moves on to the next (`AdvanceInRow`), and the rows lie apart (`RowsApart`), so the other rows stay as they are. |
| `RunStatusProofs` | `TypeCorrect`, `OnlyCaughtIsStuckHolds`, `StatusMovesOnHolds` | The stacks are the difficulty. A blocked signal bounds their depth: one operation of the thread's own and a handler of each signal (`StackOK`). `Base` says for each place in a stack how many of the operations below it the nesting count contains, which ties each local count and the stored one to the stack (`CountAgrees`); `HasMutex` says which operation has `m_lock` in hand, so that the owner is a thread whose stack has one (`MutexAgrees`), and `MapAgrees` does it for the map's mutex. As long as nobody was caught, no operation that has been interrupted has a mutex in hand that the count does not show (`NothingInHand`), so a handler never waits for its own thread. For the order of the values, a handler can pass `m_lock` while the operation below it is inside `unlock()`, but what an operation has read is never above the status, and 1 is stored before the loop only (`StatusAgrees`). |
| `DaemonStartProofs` | `TypeCorrect`, `IdentityIsWholeHolds`, `PidFileIsCurrentHolds` | The pid file's name is local to each process: the invariant adds that there is no parent while the options are read, so that it does not change under a parent that has ended. For the identity, `IdInv` follows it from one place to the next: a known name agrees with its uid, the groups found are those of the lines read so far or as many as fit (`GroupLineKeeps`), and until `setgroups()` nothing has changed. |
| `SmartPointerProofs` | `TypeCorrect`, `HeldIsAliveHolds`, `LastOneDeletesHolds`, `ImplementsNTSHolds` | None is inductive. The invariant adds that the count of a root is the number of places that own it, that what a thread has loaded under the lock is still the count, and which places an operation under way reads and writes; a thread that brings the count to 0 is then the only one that can still use the root. Each store and each taking over maps to a step of `SmartPointerNTS`, the rest stutters. |
| `PeerProofs` (`StatusRow`) | `TypeCorrect`, `RowFitsHolds`, `RowIsJoinHolds` | A piece has at most nine characters, whatever `inet_ntop()` makes of the address (`PieceShort`), so a row of n has at most 10 n - 1 (`RowBounded`). For what the row says, `JoinAgrees` holds between two associations: the row is the one due with those before (`Joined`), and peerinfo is what its own answer makes of it (`PieceIsWanted`). The place of a piece is the number of characters before it, counted as a set so that no recursion is needed; `BeforeNext` is the induction step, and `JoinedGrows` and `JoinedSkips` are one association appended or passed over. |
| `PeerProofs` (`PeerTimes`) | `TimesTypeCorrect`, `WhenIsElapsedHolds`, `ShownIsCloseHolds`, `ShownGrowsHolds` | The invariant: the counter is the packet's time plus `elapsed`, modulo the word. Rounding is bounded step by step with lemmas about division, and each is monotone. |

Every safety property that a run checks is proved. Only model-checked is liveness,
which the prover does not reach: `CaughtHangs`, `AskedStops`, `WorkerStops`,
`SilenceEndsConnection`, `StopsAtAll` and `KeepsShowing`.

Some properties have exceptions, where the code does not keep more: `AskedStops`
speaks of requests after the status is 1, `KeepsShowing` of a bus that was opened,
`WhenIsElapsed` of packets that did not come in second 0 of the counter,
`PidFileIsCurrent` of a file that could be opened and written.

## Findings and known behaviour

- `status_doc`: `src/JsCPPUtils/Daemon.h:22-24` says of `m_runstatus` "0 :
  stopped / 1 : running / 2 : stopping". Nothing sets it back to 0: when
  `Daemon::main()` returns it is 2.

The models show these too; no document of the repository says otherwise:

- A signal that meets its thread while it holds the map's mutex, or holds
  `m_lock` and has not stored the count yet, hangs the thread (`CaughtHangs`).
- A signal between `signal()` and `m_runstatus = 1` is lost.
- If the bus cannot be opened the daemon runs on with a dark display.
- With an unknown `--user` the daemon goes on as its starter; if a known one came
  before, with the known one's uid and the groups listed for the unknown name.
- A value option as the last word, or a line of `/etc/group` without four fields
  in its first 255 characters, ends the program by a null pointer that is read.
- The child may be in the main loop, or have ended, before the pid file is
  written; until then the file may be empty or of an earlier start.
- libgps calls of 80 ms and more may outlast the destructor, and each signal that
  meets the destructor shortens its wait.
- A signal that cuts the main loop's sleep short makes it leave the next pass out
  and sleep again: the rows may come after nearly 500 ms instead of 250.
- A `SmartPointer` assigned to itself uses its root after the reference is dropped,
  and a deleted one if it was the last. One that is assigned or attached null
  keeps `m_ptr`. `SmartPointerNTS.h:109` initialises a member `pLock` that the class
  does not have: that constructor cannot be instantiated, and is left out.
- A connection whose reads fail while there is something to read is kept.
- After a connection is lost the last sample is still shown.
- A seventh selected peer may exceed `strstatus1`.
- Of a peer whose IPv6 address has 28 characters or more only the tally code is
  shown: `inet_ntop()` is told that the text has the 28 bytes of `sockaddr_u`.
- A packet that came in the second in which the NTP counter was 0 counts as none.

## Not modelled

- The allocator. `m_map[key]` allocates for a thread that is new to the map, also in
  a handler that may have met its thread inside `malloc()`.
- Users of the smart pointers: neither the daemon nor anything else here
  instantiates the class, so `SmartPointer` has callers of its own, within the
  duties stated above.
- Peer fields that are only printed in the foreground, and the poll column: each is
  decoded by a vendored function and nothing else reads it.
- The logger, which the daemon makes and never writes to, and the byte order
  helpers, which it does not use.
- Waits of microseconds in the display driver: nothing else runs on the bus.
- Build files and scripts, which have no behaviour.
- The vendored NTP code. It is most of the repository: about 2400 lines are the
  project's own, all the others, `include/`, `lib/`, `ntpq/`, `config_ntp.h` and the
  `gcc_*.h` files, are headers of the NTP distribution, with declarations and macros
  and no function that could be translated. What the program asks of it is the
  nondeterministic input of `StatusRow` and `PeerTimes`. Of the whole repository the
  map therefore covers a few per cent only, of the project's own lines about half.

## Plan

Done, in this order: the lock and its refinement; run status; GPS worker; GPS
sample; display; row of peers; times; start-up; the main loop in time over the
GPS worker; smart pointers and their refinement; proofs of all safety properties.

What could follow:

1. `AtomicRegister`: what an `AtomicNum` promises, implemented by `AtomicNum` over
   `RecursiveLock`; then the single steps of `GPSWork` are those of the register.
