# fuse_planetfs in TLA+

fuse_planetfs is a FUSE file system that offers the network as files: packet sockets
below `/eth` and `/ip`, TCP sessions below `/tcp` in the manner of Plan 9, names in
`/dns`, and `/modules` to load and unload operation types while it is mounted. This
directory holds TLA+ models of it, the TLC configurations that check them on small
instances, and proofs that TLAPS checks. `PROJECT.json` is the index: which lines of
the source a definition stands for, which run checks which property, a mutant of the
code for every property, the hazards of the code and the theorems.

Paths below are those of the repository.

## 1. The system

| part | source | state | operations |
|---|---|---|---|
| libfuse callbacks | `src/planetfs_operations.cpp` | the global `fs` | one per request; every exception becomes an errno |
| tree of entries | `src/planet/fs_core.cpp`, `fs_entry.cpp`, `include/planet/fs_entry.hpp` | `root`, `entries_` of each directory, `data_` and `inode_` of each file | mknod, unlink, mkdir, rmdir, getattr, readdir, chmod, chown, utimens, truncate |
| open files | `fs_core.cpp`, `include/planet/handle.hpp` | `ops_`, `current_`, `mtx_` | open, read, write, close, poll |
| poller | `src/planet/fuse_poller.cpp` | `phs_`, `phs_mtx_`, the polling thread | register_new, unregister, get_pollmask, a round every 100 ms |
| registry | `src/planet/ops_type_db.cpp` | `ops_types_` | register, unregister, lookup by path and by name, clear |
| installers, start-up | `net/*/installer.hpp`, `src/planetfs_main.cpp` | none | what is registered, in which order |
| module loader | `src/planet/module_loader/`, `module_ops_type.cpp`, `dl_loader.hpp` | libltdl's libraries | load and unload through `/modules` |
| TCP sessions | `src/planet/net/tcp/` | `current_fd_`, `fdtable` | clone; connect, announce, hangup on ctl; data; listen; rmdir of a session |
| address files | `net/tcp/address_op.cpp` | the contents of `local` and `remote` | a read writes the address into the entry first |
| client and server files | `net/tcp/client_op.cpp`, `server_op.cpp` | a socket in `fdtable` for each path, `client_fd_` for each open server file | connect or listen at mknod, accept at the open of a server file, close at unlink |
| packet files | `net/eth/` | a packet socket for each open file | read and write of packets |
| name service | `net/dns/resolver_op.cpp` | `resolved_names_` of each open file | write a question, read the names |
| request parser | `request_parser.cpp` | the last match | parse, get_args |
| life cycle | `include/planet/filesystem.hpp`, `planetfs_main.cpp` | `root`, the thread | start, main loop, destruction |

### How the parts interact

- The kernel calls libfuse, whose worker threads call the callbacks; with `-s` there is
  one thread. Every callback goes to `core_file_system`. A path is looked up in the
  tree; the entry's `ops_name` is looked up in the registry; the type found there is
  asked to make an operation (`create_op`), or told that an entry came (`mknod`) or is
  about to go (`rmnod`).
- Types call back into `core_file_system`: `tcp_dir` makes `clone`, a session directory
  makes its five files, `clone` makes session directories and opens their `ctl`,
  `listen` opens `clone`. Installers register further types.
- An open file is an operation in the handle table. Workers call through the table's
  entry; so does the polling thread, which holds `phs_mtx_` for a whole round while it
  asks the operations. The table is written under `mtx_` and read without it.
- `fdtable` is shared by all TCP types, without a lock; what an operation keeps from it
  is a descriptor number.

### What is hard in it

1. *Open, close, poll and the polling thread* (`fs_core.cpp:246-306`,
   `fuse_poller.cpp`). The reference that `get_op_entry` returns outlives the lookup,
   the lookup is not locked, poll handles pass from libfuse to the poller to libfuse,
   sleepers depend on what other callers of the same file do.
2. *The registry under loading and unloading.* The first match decides, and what was
   made under one set of types is removed under another.
3. *mknod, rmdir and their hooks.* Hooks make and remove further entries and sockets;
   one of several steps may fail; rmdir asks only the directory's own type.
4. *clone and the sessions.* The counter, the directory, the socket and the connection
   of a session are four pieces of state that nothing holds together.
5. *Descriptors as values.* A number that was copied means another socket after a
   close.
6. *Reads that write.* An address file rewrites contents that all its readers share.
7. *Modules and their code*: an open file keeps an operation of a module, the polling
   thread calls it, and only the type keeps the library; at the end of the process the
   polling thread keeps the `core_file_system` and goes on.
8. *Sockets under entries and open files*: connect and accept wait, several addresses are
   tried, calls fail half-way; each descriptor is to have one place where it is kept.

### What makes each part correct

| part | it is correct when | stated as |
|---|---|---|
| handle table | no operation is called after its entry was erased; entries go with their files | `NoDanglingOp`, `NoLeakedEntry` |
| poller | a poll handle has one owner until it is destroyed; no sleeper is forgotten; input ends a wait | `PollHandlesOwned`, `NoLostWaiter`, `ReadyEndsWait` |
| open, close, poll together | programs see the contract of poll(2) | `KeepsContract` (refinement of `PollContract`) |
| registry | the default types come last, in whatever order others are loaded | `DefaultsComeLast` |
| tree and hooks | what is made is made whole or not at all; sockets live as long as their entries; the TCP service stays complete | `AllOrNothing`, `SocketsMatchEntries`, `TcpServed` |
| clone | a new session is new | `CounterNotBehind`, `AcceptedAlone`, `AcceptedInNewSession` |
| fdtable | open descriptors, none twice; connections end by request only | `TableSound`, `ConnectionsKept`, `DataOfSession` |
| files | a file of bytes; an address is read whole, not another's piece | `KeepsContents` (refinement of `ByteFile`), `WholeName` |
| client, server and packet files | a file uses its own socket; nothing but failed attempts leaves a descriptor; calls end | `OwnSocket`, `NothingElseOpen`, `EveryCallEnds` |
| request parser | requests are taken as they were written, argument by argument | `CommandsUnderstood`, `ArgumentsUnderstood` |
| name service | the answer to the last question, in order | `AnswerInOrder` |
| module types | no hook of a closed library is called; a library stays only while somebody has it | `CallsMapped`, `MappedForAReason` |
| files of modules | no operation of a closed library is called, also by the polling thread | `OperationsMapped` |

## 2. The modules

    HandleManager <- FusePoller <- PolledFiles <- MCPolledFiles, PolledFilesProofs
    PolledFiles --(refines) PollContract
    Subsequences <- OpsTypeDb <- FsCore <- MCFsCore, FsCoreProofs
    Subsequences <- RequestParser <- NameService <- MCNameService, NameServiceProofs
    Subsequences <- ModuleTypes <- ModuleFiles <- MCModuleFiles, ModuleFilesProofs
    TcpSessions <- MCTcpSessions, TcpSessionsProofs
    DeviceFiles <- MCDeviceFiles, DeviceFilesProofs
    FileEntry <- MCFileEntry, FileEntryProofs
    FileEntry --(refines) ByteFile
    Subsequences <- OrderTheorems <- all *Proofs but those of PolledFiles and FileEntry

An arrow is EXTENDS. `MC*` modules hold only values for TLC. Definitions named
"Mutant of ..." are not part of any specification: each is a plausible bug of the
definition it names and breaks a property. `Subsequences` is what `std::remove_if` leaves
of a vector, as a function of positions (`Picked`), so that it can be reasoned about; the
registry, the installers and the answers of the resolver are built with it.

### HandleManager, FusePoller, PolledFiles

State: `ops` is the key set of `ops_` (the pair of a key never changes), `mtx` the
thread inside a critical section of the table, `polled`, `ph`, `mask` the vector
`phs_`, `pat`, `todo`, `cursor` the polling thread in its round, `at` and `file` the
workers in their requests, `newph` the poll handle a request brought.

| action | code |
|---|---|
| `OpenBegin`, `OpenRegister`, `OpenLookup`, `OpenSucceeds`, `OpenFails` | `core_file_system::open`, `register_op`, and the catch block |
| `AccessBegin`, `AccessEnd` | `read`, `write` |
| `CloseBegin`, `CloseThrows`, `CloseRelease`, `CloseUnpoll`, `EraseBegin`, `EraseEnd` | `close` with its two finalizers in the order of destruction |
| `PollBegin`, `PollOnce`, `PollRegister`, `PollStatus`, `PollAgain`, `PollGivesUp` | `poll`, `poll_status`, `register_new`, and the kernel's poll(2) |
| `RoundBegin`, `Visit`, `VisitThrows`, `Ask`, `Notify`, `RoundEnd` | the polling thread |

Steps are cut where another thread can see the difference: a critical section of
`mtx_` is two steps, because lookups do not take the mutex; a critical section of
`phs_mtx_` other than a round is one, because everything it touches is under that
mutex. A lookup while another thread changes the map may find the key or miss it
(`LookupThrows`): that is the data race of `handle.hpp`, reduced to the two outcomes in
which the program goes on. The read by a worker of a `pollmask` of zero or not is all
that is kept of event masks.

The code numbers handles upwards and never gives one out twice. `OpenRegister` takes any
handle that has no entry: what has a handle has let it go before the entry is erased
(`RequestsHaveEntries`, `CloseComesLast`), so nobody can tell a new number from an old
one, and files can be opened and closed without end in a finite model.

External parts: the kernel sends the release of a file after all other requests on it;
a notification wakes every sleeper of the file; libfuse allocates poll handles and
ignores a null one.

### PollContract

What a program may rely on, without thread, list, lock and poll handles: a caller asks
and sleeps; it is woken only after input was seen; what wakes one wakes every sleeper of
that file; a file is not closed under a caller. `PolledFiles` implements it under the
mapping at its end (`due` is `woken`, `seen` is the element being notified).

### OpsTypeDb, FsCore

`db` is `ops_types_`; `match_path` of all types is one operator over abstract paths
(sequences of names, of which only "is a number", "begins with a star" and the fixed
names matter). `tree` maps a path to the type of its entry, `socks` holds the path keys
of `fdtable`, `open` the files open in the kernel. One step is one request from
beginning to end with every hook it runs: `Mknod`/`MknodFails`, `Mkdir`, `Unlink`,
`Rmdir`, `Open`/`OpenFails`, `OpenClone`/`CloneStuck`, `Accept`, `Close`,
`Load`/`LoadFails`, `Unload`. `Made` is `core_file_system::mkdir`: the entry is added, the
hook makes its files in their order up to the first that fails (`ChildrenMade`), and when
it throws, `RemoveEntry` takes the entry away with what is below it. An unload
goes by the name of a type, whose uninstall hook runs only if `get_ops` finds it
(`UninstallOps`). `Init` is the tree and the registry that `planetfs_main.cpp` builds,
computed from the same operators.

External parts: the kernel sends mknod and mkdir only for missing names below existing
directories; libfuse answers the unlink of an open file by itself (it renames it) and
refuses requests on files that went with their directory.

A run gives `Workloads`, and `Init` chooses one: the names that programs use, and what
they load and unload.

### TcpSessions

`current` is `current_fd_`, `dirs` the session directories, `table` the session keys of
`fdtable`, `os` what the kernel has behind each descriptor. `job`, `at`, `sess`,
`newfd` are the handlers, cut at the questions of clone, at each load and store of the
counter, around connect(2) and inside `fd_table::insert` and `erase`. With `Serial` no
handler begins while another runs. Descriptors are given out lowest first, as the kernel
does, so numbers are used again. `byhand` is history: the directories that a program made
with mkdir, which clone does not hear of.

| action | code |
|---|---|
| `OpenClone`, `CloneAsk` | `clone_type::create_op` up to its questions |
| `CloneTake`, `CloneStore`, `CloneConstruct` | the counter is read, written, and read again for the `clone_op` |
| `CloneConfirm`, `CloneMkdir`, `CloneDone`, `CloneThrows` | `clone_op::open` |
| `Connect`, `Connected`, `SocketFails`, `Announce`, `AnnounceFails`, `Hangup` | `ctl_op::write` |
| `Accept`, then the steps of clone, `AcceptDropped` | `listen_op::read`; the last is a buffer too small for the session's name |
| `Mkdir`; `Rmdir`, `RemoveEntry` | mkdir and rmdir of a session directory by a program |
| `CloseOld`, `Erase`, `Insert` | `fd_table::insert` and `erase` |
| `OpenCtl`, `CloseCtl`, `OpenData`, `CloseData` | open and release of `ctl` and `data` |

Three things are coarser than the code: both questions of clone are one step, a
directory comes with its files in one, and a socket is closed in the step in which the
table is searched for it.

### FileEntry, ByteFile

`data` is `data_`; `WriteBytes` and `ReadBytes` are `default_file_op`, `UpdateAddress`
is that of `address_op`. The attributes are the mode, the owner, and whether a time was
last set by a program or by the clock. `ByteFile` is the promise: one byte for every
position, zero where nothing was written, a length. `got` remembers what a sequential
reader of an address has been told, and under which names, for `WholeName` only.

`ReadAddress` is the read of `local` and `remote`. Which text getsockname or getpeername
and getnameinfo give for the number that the operation keeps is chosen anew at every
read: the socket may have been closed and the number be another's, and names are looked
up each time. `WholeName` is therefore about readers that were given one and the same
name for every piece; what others get is some of each, and the model has that too.

### DeviceFiles

The files that are sockets: `entries` are the client and server files that exist,
`table` the path keys of `fdtable`, `os` what the kernel has behind each descriptor,
`at`, `path`, `fd`, `tries` the handlers, `file` the open files with the descriptor
their operation keeps, `lost` the descriptors that the code forgot. A handler is cut
where it waits and between the two halves of `fd_table::erase`.

| action | code |
|---|---|
| `MakeClient`, `NextSocket`, `NoSocket`, `GoesOn`, `Connected`, `ConnectFails` | `mknod` of a client file: `client_type::mknod`, the loop of `sock_connect_to` |
| `MakeServer`, `MakeServerFails` | `mknod` of a server file: `establish_server` |
| `Insert` | `fd_table::insert`, for both |
| `OpenClient`; `OpenServer`, `Accept`, `AcceptFails`; `OpenPacket`, `OpenPacketFails` | the opens of `client_op`, `server_op` and `raw_op` |
| `Release` | their releases |
| `Unlink`, `UnlinkRefused`, `CloseSocket`, `Erase` | unlink with `rmnod` and `fd_table::erase` |

External parts: the kernel makes and removes the names of a directory one at a time;
libfuse lets an unlink wait for the opens of its file, and refuses it while the file is
open; peers connect (`PeerConnects`).

### RequestParser, NameService

A text is a sequence of pieces (a blank, a comma, a newline, another character, a run of
characters that `\w` or `.` match). `WithArgs` and `WordAlone` are all ways in which the
two alternatives of `request_` match a text; `Preferred` chooses as xpressive does, the
first alternative and in it the longest of each repetition, from the left. `Fields` is
`sregex_token_iterator` with -1, `GetArgs` is `get_args`. `ParsedAsWritten` and
`ArgumentsSplit` are the reference: a scan of the text from its ends, and the arguments
put together again. `NameService` asks them while no file is open, because the parser
keeps nothing between requests.

`resolved_names[h]` is `resolved_names_` of the operation behind h. `Write` and
`LookupFails` clear it and store names one after the other, in whole or in part; `Read`
takes one name when its line fits the buffer. `request` and `told` remember the last
question and what was read since, for the properties. getaddrinfo is external:
`Answers` says which lists it may give, and may differ from call to call. That each
address is there once is the filter in `forward_lookup` by socket type.

### ModuleTypes

What `FsCore` leaves out of loading: the objects behind the registrations. `alive` are
the `module_ops_type` objects, `handle` the library each has open, `db` the registry
(its dynamic part), `own` the `shared_ptr` that a thread holds while it calls a hook,
`peek` the object whose `match_path` is called without one; `refs` and `inits` are
libltdl's counters, `phase` is where `main` is. Destruction is not an action: whatever
takes the last `shared_ptr` away destroys in the same step (`Assign`, `Destroy`).

| action | code |
|---|---|
| `LoadBegin`, `LoadOpens`, `LoadThrows`, `Register`, `ModInit`, `ModInitFails` | `install_module`: the constructor of `module_ops_type`, `install_ops` and its finalizer |
| `UnloadBegin`, `UnloadMissing`, `ModFin`, `Forget` | `uninstall_module`: the hook under the temporary `shared_ptr`, or `get_ops` that throws, then the finalizer |
| `HookBegin`, `HookEnd` | `create_op`, `mknod`, `rmnod` of an entry's type |
| `MatchBegin`, `MatchEnd` | `get_name_by_path` |
| `Unmount`, `UninstallNext`, `ClearDb` | `~filesystem`, after `fuse_main` or a failed start |

Whether the file system is mounted with `-s` is chosen by `Init`. External parts:
libltdl counts the opens of a library, and the last `lt_dlexit` closes all; libfuse has
ended its threads when `fuse_main` returns.

### ModuleFiles

The open files of modules above `ModuleTypes`, whose every step is a step here
(`TypesStep`). `code[f]` is the library that has the functions of the operation in the
handle table, or `Gone` when a step of the types closed it; `call[t]` is the file whose
operation a thread calls; `polling`, `polled` and `asked` are the polling thread, reduced
to the file it asks under `phs_mtx_`.

| action | code |
|---|---|
| `Created`, `OpenReturns`, `OpenFails` | `open`, from the return of `create_op` on |
| `ReadOrWrite`, `Used`, `Poll`, `Close`, `Closed` | `read`, `write`, `poll`, `close` |
| `Ask`, `Answered` | a round of the polling thread |
| `DestroyOp`, `OpDestroyed` | `~core_file_system`, which runs only if the polling thread was never started |

Nothing in the code keeps the library of an operation. Programs are therefore `careful`
or not (chosen by `Init`): careful ones load and unload a module only while none of its
files is open or being opened, open none meanwhile, and close their files before they
unmount. `OperationsMapped` says that this is enough, whatever happens to other modules,
to the same module before and after, and to loads that fail; for the others it says only
that the operations called are those of files that are open.

## 3. The runs

All runs say `CHECK_DEADLOCK FALSE`: programs may
stop calling, all threads then wait, and that is how the mounted file system rests.

| run | checks | shows |
|---|---|---|
| `PolledFiles` | `TypeOK`, `NoDanglingOp`, `PollHandlesOwned`, `NoLostWaiter`, `NoLeakedEntry`, `KeepsContract` | three workers and the polling thread use nothing after it was freed, lose nobody, and keep the contract of poll(2) |
| `PolledFilesLive` | `ReadyEndsWait` | with fair threads, and if rounds are not cut short for ever, nobody waits for ever on a file that stays ready, however many files are opened and closed |
| `FsCore` | `TypeOK`, `TcpServed`, `SocketsMatchEntries`, `AllOrNothing`, `DefaultsComeLast` | entries and TCP types come and go, or modules for `/eth` are loaded and unloaded in every order; the service stays whole as long as its types are there, and the default types stay last |
| `TcpSessions` | `TableSound`, `CounterNotBehind`, `ConnectionsKept` | one request at a time, directories made by clone and by hand, and removed: the table is sound, the counter keeps up with clone, and neither connect nor clone closes an established connection |
| `TcpSessionsThreads` | `TypeOK` | every step of concurrent requests finds what it needs |
| `TcpSessionsByHand` | `AcceptedInNewSession`, violated | see findings |
| `TcpSessionsAccept` | `AcceptedAlone`, violated | see findings |
| `TcpSessionsData` | `DataOfSession`, violated | see findings |
| `FileEntry` | `TypeOK`, `WholeName`, `KeepsContents` | the contents of plain and address files |
| `DeviceFiles` | `TypeOK`, `OwnSocket`, `NothingElseOpen`, `EveryCallEnds` | two programs and the peers of a client, a server and a packet file: each file has its own socket, only failed attempts leave descriptors, and calls end |
| `NameService` | `TypeOK`, `AnswerInOrder`, `CommandsUnderstood`, `ArgumentsUnderstood` | texts of up to five pieces are parsed as written; questions, failing lookups, small buffers, two handles |
| `ModuleFiles` | `FilesTypeOK`, `CallsMapped`, `MappedForAReason`, `OperationsMapped` | modules and their files loaded, used and unloaded by three threads and the polling thread, from start to end |

### Bounds

- `MaxHandle = 2` bounds the entries of the table at one time, not the opens of a run;
  three workers, five poll handles. Two files are needed for a round that is cut short before
  one of them; three workers for two sleepers of one file beside a closer, or a lookup
  beside an erase and a poll. As many poll handles as can be in use at once (two in
  the list, three in requests); one that a close leaked may be allocated again, since
  nobody has it any more. Handle 1 is pollable and 2
  is not. The live run has two workers and four poll handles and no symmetry.
- `FsCore`: two sessions so that the counter can turn over, one peer and one star name,
  one interface. The names of a workload are the paths programs name; with them
  every hook runs and fails; one of them is a mknod with the name of a session. They are
  in three workloads, below `/tcp`, below `/eth`, and one in which a session's directory
  cannot be made whole (the types of `local` and of plain files are unloaded), to keep
  the run small; the tree and the registry are whole in all. `MaxTypes` lets the second
  load a type twice.
- `TcpSessions`: two programs, `MaxSession = 1` (two sessions), three descriptors. One
  descriptor for each session and one that was closed and is used again; two programs
  suffice for one to be overtaken by the other. `Readers` are the programs that open data
  files: nothing but `DataOfSession` and the types look at these, so the other runs have none. The
  threads run needs no descriptors to spare (`MaxFd = 1`).
- `ConnectionsKept` names what may close an established connection. Two of the cases are
  accepts into a session that clone did not ask about: it had no directory (which was
  removed, while the session was connected through a clone file that was still open), or
  a program had made it and the counter turned to it. The second is a finding; the first
  is listed as a hazard.
- `FileEntry`: `MaxSize = 2` with bytes 0 and 1, writes and reads up to 3. A write past
  the end that leaves a hole, a cut and a regrowth over it, a longer and a shorter
  address, and a memory limit that is hit, all fit in it. Two handles with two names: the
  readers of one socket, of two, and of one whose number was used again.
- `NameService`: answers of three names in two orders and of one name, buffers in which
  an IPv4 line fits and an IPv6 line does not, or neither.
  Texts of five pieces hold a word, two blanks or none, an argument with a comma on
  either side, or newlines in the middle and at the end; every operator of the parser
  treats pieces of one kind alike, and there is one piece of each kind (two blanks).
- `DeviceFiles`: two programs, one file of each kind, hosts of up to two addresses (one
  that is passed over and the last), four descriptors: one in the table, one in each
  open file, one lost, or all lost. Lost descriptors are never given back, so behaviours
  in which they run out are among those checked.
- `ModuleFiles`: three workers (one unloads while one uses the type or a file of it and
  one loads it again), two libraries, three objects: a library registered twice, with one
  of its objects kept by a thread only, or beside one of the other library; two files, so
  that the poller has one while the other is closed.

### Fairness

Two runs assume any.

`PolledFilesLive` (`Fairness` in `PolledFiles`): weak fairness of the polling thread and
of the workers' own steps: they are threads of a running process. Strong fairness of the
two steps that wait for `phs_mtx_`: the mutex is no queue, but it is free for 100 ms
after each round, which nobody who waits can miss for ever. No fairness for what programs
do, for a read, which may block, for the hook of an open, which may be slow, or for who
gets `mtx_`.

That is not enough: an exception ends a round, the next starts again with the first
element, and opens and closes without end may have the table's mutex whenever a round
looks an earlier element up. TLC finds that behaviour, in which a sleeper is starved, and
nothing in the code excludes it. `ReadyEndsWait` therefore has as its premise
`RoundsGetThrough`: from some point on no lookup of a round throws. The premise allows
any number of rounds that were cut short before, and opens and closes for ever after,
and the property then says that neither these nor re-registrations and other sleepers
keep a ready file from its notification.

`DeviceFiles` (`Fairness` there): weak fairness of what a handler does by itself, where
connect(2) is one step that succeeds or fails; strong fairness of accept(2) for each
caller, since the kernel hands connections to those who wait in turn. That peers connect
again and again, and that descriptors do not run out for good, is not the code's doing:
`EveryCallEnds` has both as its premise. No fairness for programs, which need not close
what they have open.

## 4. What is proved

TLAPS checks the following for every value of the constants: any number of threads,
files, sessions, descriptors, modules and paths. `PROJECT.json` lists the theorems.

| module | theorems | properties |
|---|---|---|
| `PolledFilesProofs` | `TypeCorrect`, `NoDanglingOpHolds`, `PollHandlesOwnedHolds`, `NoLostWaiterHolds`, `NoLeakedEntryHolds`, `Refinement` | `TypeOK`, `NoDanglingOp`, `PollHandlesOwned`, `NoLostWaiter`, `NoLeakedEntry`, `KeepsContract` |
| `FsCoreProofs` | `CoreTypes`, `MadeWholeOrNotAtAll`, `DefaultsAreUsedLast`, `SocketsAreThoseOfEntries`, `ConnectionsCanBeHad` | `TypeOK`, `AllOrNothing`, `DefaultsComeLast`, `SocketsMatchEntries`, `TcpServed` |
| `TcpSessionsProofs` | `CounterNotBehindHolds`, `SessionTypesHold`, `TableSoundHolds`, `ConnectionsKeptHolds` | `CounterNotBehind`, `TypeOK`, `TableSound`, `ConnectionsKept` |
| `FileEntryProofs` | `FileTypes`, `ReadersGetWholeNames`, `KeepsContentsHolds` | `TypeOK`, `WholeName`, `KeepsContents` |
| `DeviceFilesProofs` | `DeviceTypes`, `EveryFileHasItsOwnSocket`, `OnlyFailedAttemptsLeak` | `TypeOK`, `OwnSocket`, `NothingElseOpen` |
| `NameServiceProofs` | `ServiceTypes`, `AnswersAreInOrder`, `RequestsAreUnderstood`, `ArgumentsAreSplit` | `TypeOK`, `AnswerInOrder`, `CommandsUnderstood`, `ArgumentsUnderstood` |
| `ModuleFilesProofs` | `ModuleFilesTypes`, `HooksAreMapped`, `NothingStaysMapped`, `OperationsAreMapped` | `FilesTypeOK`, `CallsMapped`, `MappedForAReason`, `OperationsMapped` |

### Assumptions

The constants have named assumptions in the modules that declare them; TLC evaluates
them in every run.

- `ThreadsAssumption`, `PollerAssumption`, `ModuleAssumption`, `FilesAssumption`, parts of
  `SessionAssumption`, `DeviceAssumption` and `EntryAssumption`: special values such as
  "no thread" are none of the ordinary ones, and bounds are numbers. `ModuleAssumption`
  has the objects in a finite set, as those of a process are.
- `PollableAssumption`: what can be polled are handles.
- `DeviceAssumption`: no path is of two types; the type of an entry never changes.
- `EntryAssumption`: an address fits in memory.
- `LookupAssumption`: whatever getaddrinfo answers to a request that was understood is a
  list of addresses.
- `PiecesAssumption`: a run of word characters is no blank, comma or newline; texts are
  sequences.
- `ModulesAssumption`: loadable modules do not have the name of a type that is linked
  into the program; the repository's are called `mod_*`. `register_ops` does not look for
  a name that is taken, so this is up to who provides the modules.
- `NamesAssumption`: no number begins with a star, `clone` is neither, and neither a number
  nor `clone` is the name of a peer or port that a socket can be had for. A client file's
  name without a "!" is host and port at once: there is no port `clone`, and the number
  n of a session would be port n of the host 0.0.0.n. Sessions are named by numbers.
- `WorkloadsAssumption`: programs name paths, that is, sequences of names that are not
  empty, and load what is loadable.

### Arguments

*PolledFiles.* All six rest on one inductive invariant, `IndInv`:

- `RequestsHaveEntries`: a request past `register_op` has an entry in the table, and so
  have the open files and the poller's list. This gives `NoDanglingOp`, and it is
  inductive only because close takes the element off the poller's list before it
  erases the entry;
- `CloseComesLast`: an open or a close in progress has its handle for itself; this is
  the kernel's order of release after everything else, carried through the handlers;
- `CursorIsPolled`: what a round visits is on the list until `phs_mtx_` is released;
- `PollHandlesPlaced`, `PollHandlesOwned`: each live poll handle that somebody holds has
  one holder;
- `WaitersArmed`: `NoLostWaiter`, which speaks of sleepers, made inductive by starting
  at the registration.

`NoLeakedEntryHolds` is an action property from the same invariant: the entry of a file
that has lost its last owner stays only if another thread was inside `mtx_`.
`Refinement` maps each action to an action of the contract or to a stutter.

*FsCore.* `BaseInv` has four parts. `DbInv`: the registry is in the order of the
priorities, each type has the priority it is always registered with, and `clone` comes
before `client`, which matches the same path. `TreeInv`: each entry has a type and
its directory is there. `OpenInv`: an open `/modules` is a file as long as its type is
registered, so a load through it goes where it should. `TcpDirInv`: `/tcp` stays as long
as its type does. It is kept by the classification `TreeSteps`, which says of every
request that it leaves the tree, adds one file, adds one directory with what its hook
makes, or removes one entry or one directory with all below it; what the hooks do in
between is not looked at again. `DbStep` says that types that are linked into the program
never come back once they are unloaded, except those of `/eth`, which a module brings:
this is why the properties that speak of registered types can look back to the step
before. From it:

- `DefaultsComeLast` follows from the order and the lookups (`FirstMatch`,
  `DefaultsAreLast`);
- `AllOrNothing` from what `Made` leaves: when the hook throws, what it made is below the
  entry that is removed, and nothing else was there below a missing path (`TreeInv`);
- `SocketsMatchEntries` is inductive above `BaseInv`, by what the rmnod hooks erase in
  each kind of removal;
- `ServedInv` is `TcpServed` made inductive: every directory of sessions has all its files
  and none of them can be removed while its type is there, what has the name of a session
  below `/tcp` is a directory of a session, so that opening clone finds or makes one.

The proof showed that a case was missing: programs can give the name of a session to a
mknod, which no workload did. With `client` unloaded that makes `/tcp/0` a plain file, in
the place of a session, and opens of clone fail. `TcpServed` therefore has `client` among
the types it presupposes, and the workload below `/tcp` has such a mknod.

*TcpSessions.* The types hold with and without `-s` (`TypesInv`, with `JobsPlaced`: which
requests come to which step). Everything else needs `-s` (`SerialInv`): one request is
served at a time, the descriptor it has in hand is open and in no session's place, the
session it erased is not in the table when it inserts, the handler's number is the
counter's or, when it is about to be stored, not below it (`RequestPlaced`), and the
sessions that clone made are counted (`Counted`). For `ConnectionsKept` the same invariant
says that between the question of clone and the end of the request nobody connects the
session that was found unused, and that the one the counter advances to has no connection
if it has a directory that no program made: there is none, by `Counted`. So at the only step that closes a descriptor
(`OnlyThoseClose`) a connect has a session without a connection, and an accept has one or
is among the exemptions of `MayDisconnect`. `TableSoundHolds` is stated under `Serial`:
with threads the property is false.

*FileEntry.* What `Resize`, `WriteBytes` and `ReadBytes` give is stated element by element
(`ResizeElements`, `WriteElements`, `ReadElements`); with it each read, write and truncate
is one of `ByteFile`'s, position by position, and everything else a stutter. For
`WholeName` the invariant says that a reader of an address has been told its beginning;
the step is that the next piece is cut from the same address (`PieceContinues`), because
`update_address` writes the whole of it before each read.

*DeviceFiles.* `DeviceInv` says for each descriptor who knows it: the table, an open file,
a handler, or nobody (`DescriptorsKnown`), and for each handler what it has in hand
(`HandlersPlaced`). It needs that one program at a time changes the directory
(`OneChanges`), which is the kernel's lock, and that what is being erased is neither open
nor waited for (`FilesPlaced`), which is libfuse's.

*NameService.* What was told and what is left make up what was stored (`ResolveKeeps`,
`NameMoves`).

*RequestParser.* `PartsFound` says where the reference cuts a text: the line, the first
word, the blanks after it. `WithArgsFacts` says that every match of the first alternative
has the same command, takes blanks of those only, and pieces of the line only; so one
match has the longest of each repetition at once, and it is the preferred one
(`PreferredIs`). For the arguments, `EndsFacts` says that the positions at which fields end
follow each other with no comma between two of them, and `Flattened` that what is put
together grows from one such position to the next.

*ModuleTypes, ModuleFiles.* `TypesInv`: each live object is registered or held by a thread,
`refs[l]` is the number of live objects that have library l open and `inits` that of
all (`Counted`), and what each thread holds at each of its steps (`ThreadsPlaced`,
`PhasesPlaced`). So a library that a thread's object has open has a count above zero,
and one that is open has an object. `FilesInv` adds which file each thread works on, what
the poller has, and `InUseKept`: what careful programs have in use is registered and
being changed by nobody. That the steps of the types do not disturb the files is one
lemma about their effects (`StepEffects`).

*OrderTheorems* has what the others need about numbers and sequences: that a set of
numbers has a smallest one (the lowest free descriptor, the end of a word), and what
`Picked` leaves of a sequence and in which order. Both would go by induction; here they use that the inclusion
of finite sets is well-founded, which the library states without an operator parameter.

### Only model-checked

- `ReadyEndsWait` and `EveryCallEnds`: liveness under fairness.
- `ByteFile` and `PollContract` have no properties of their own: they are the promise.
- The findings: they are counterexamples.

## 5. Findings

- `TcpSessionsAccept`: `listen_op.cpp:60` opens clone "to create new session", and gets
  the current one if its socket is not yet connected, although another program has its
  ctl open; the accepted connection becomes that program's session.
- `TcpSessionsData`: `data_op` keeps the number of the descriptor. After a hangup and a
  connect of another session the number is that session's socket, and an open data file
  of the first reads from and writes to it.
- `TcpSessionsByHand`: with nothing but one request at a time, a program makes `/tcp/1`
  and connects through its `ctl`; another opens clone, announces in session 0 and reads
  `listen`. The counter goes on to 1, which nobody asks about, and the accepted connection
  closes the established one. `listen_op.cpp:60` says "to create new session".

## 6. What is not modelled

- What happens to statics (`fdtable`, the log) between the return of `main` and the end of
  the process, while the polling thread, which nothing stops, still runs.
- What programs that are not careful meet: an operation does not own its type, so nothing
  in the code keeps the library of a file that is open when its module is unloaded. The
  model has the step and calls the operation `Gone`; no property speaks of it, and no
  text of the repository does.
- Data races on `ops_types_`, `entries_`, `fdtable`, `data_` and `resolved_names_` when
  the file system is mounted with threads. `FsCore`, `FileEntry`, `NameService` and the
  sessions with `-s` take one request at a time, as with `-s`; `TcpSessionsThreads`, `DeviceFiles`
  and `ModuleFiles` interleave requests between steps but take each access as atomic.
  `match_path` runs in the registry without a `shared_ptr`; `CallsMapped` claims nothing
  of it when there are threads.
- What the sessions promise with threads. The steps are modelled, the unlocked counter
  load by load, but nothing in the repository says what should hold, and what one would
  want does not: an older value of the counter may be stored over a newer one, a connect
  may close a connection that was made while it waited. `CounterNotBehind` and
  `ConnectionsKept` are about `-s`, and with threads the types are checked and proved.
  `TableSound` too fails with threads (`Serial = FALSE`, `MaxFd = 2`): `fd_table::erase` is
  overtaken between close(2) and the erasure by an announce of the same session, whose
  new socket gets the closed number; it finds the old key, closes its own socket and
  inserts the number, which is nobody's then and another session's later.
- That an entry which `rmnod` is told of is not in use, as `fs_ops_type.hpp:59` has it: an
  unload of `planet.module_loader` through `/modules` unlinks that file, which the request
  came through. The step is in `FsCore`; entry and operation live on in the handle table.
- What the resolver does with the family it is asked for: `hints.ai_family` is handed to
  getaddrinfo, and the model lets it answer accordingly.
- A module that is unloaded by a request on one of its own files, from inside its
  operation: only `/modules` unloads, and its type is linked into the program.
- Packets, the bytes of a connection, event masks beyond "ready", modes and permissions
  as such (the kernel checks them), readdir and getattr, which only read, logging.
- The expressions that `ctl` has for single arguments (`ctl_op.cpp:79-104`): `TcpSessions`
  and `FsCore` take parsed requests, as `RequestParser` would give them.
- `example/` and `pkg/`: programs and packaging. `doc/` was read for what it promises.

## 7. Plan

Done in the order of importance: the open files and the poller with the contract and
the proofs; the registry and the tree; the sessions; files, names and the module types;
the files that are sockets, the files of modules with the end of the process, and the
request parser; then the proofs of every safety property that a run checks. What is left:

1. `FsCore` and `TcpSessions` have the sessions twice: that the steps of the second, with
   `-s`, are requests of the first under a mapping of descriptors to path keys.
