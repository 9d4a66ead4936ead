# Verification of the University-Courses systems

This directory holds TLA+ models of the networked programs of this repository
(course work of COE768, 892 and 817), the TLC configurations that check them on
small instances, and proofs of their main safety properties that TLAPS checks.
Every definition is translated from the source; `PROJECT.json` maps each one to
the lines it stands for, lists the hazards of the code with the properties that
cover them, and gives for each checked property a mutant of the code that
violates it.

To check a run: `tlc -workers 2 -config MCDirectory.cfg MCDirectory.tla`. To
check the proofs of a module: `tlapm DirectoryProofs.tla`.

Contents: 1 the systems, 2 what is modelled where, 3 the runs, 4 fairness,
5 the proofs, 6 findings and other facts the models show, 7 what is not
modelled, 8 the plan.

## 1. The systems

The repository is not one program but several, one directory each. They share
no code at run time; each is described by its parts, their state, their
operations, how the parts interact, what is hard about them, and what makes
them correct.

### 1.1 Rover control server (`892/Lab4-5`)

| part | state | operations |
| --- | --- | --- |
| store (`store.py`) | `width`, `height`, the dicts `mines` and `rovers`, the id counters `_mine_id`, `_rover_id` | create, update and delete a mine; resize the map; create, program, delete and save a rover; defuse a mine; look-ups |
| request handlers (`app.py`) | the module variable `store`, the session cookie | one function per route; `/ui/reset-demo` binds `store` to a new MemoryStore |
| simulator (`simulator.py`) | locals of `dispatch_rover`: a deep copy of the rover, the mine found in the cell | runs a rover's commands over the live store and saves the copy |
| dashboard (`templates/`, `static/`) | what the page last drew | polls `/api/dashboard` every 20 s, draws, submits forms |

*Interaction.* The handlers are plain functions, so the framework runs each
request on a thread of a pool; they share the store by reference and no lock
exists anywhere. The simulator reads mines from the live store and the rover
from its copy.

*Hard.* Check-then-write in every mutating operation; a copy read at the start
of a dispatch and written over the store at its end; a mine deleted between
look-up and defusal; a reset while requests run; map edges tested in three
forms.

*Correct when* mines and rovers stay on the map, no two mines share a cell, a
dispatch never drives off an active mine, ids are never given twice, a stored
rover's status, position and progress fit together, a finished dispatch belongs
to the program the store holds, and every request is answered.

### 1.2 Peer-to-peer file sharing (`768/Standalone`)

| part | state | operations |
| --- | --- | --- |
| index server (`directory_server.c`) | `peers[MAX_PEERS]` (name, address, port, content and count arrays), `npeers` | datagrams R register, S search, T deregister, O list, B bye; ack, error or answer |
| peer (`peer_node.c`, main) | `contentList`, its sockets, the child's pid, its working directory | menu commands R, D, O, T, Q; end of input |
| hosting child (`hosting_loop`) | the parent's memory as it was at the fork | accepts a connection, answers with the file or an E |
| bootstrap script (`768/*-Peer-To-Peer-Project.sh`) | — | writes the sources, builds, starts and kills the processes |

*Interaction.* UDP datagrams between peers and server, with no sequence numbers
and no timeout; TCP between a peer and the child of another (or its own) peer;
parent and child share nothing after the fork but the files.

*Hard.* Lost, repeated and reordered datagrams; an answer left in the socket by
an earlier command; the server identifies the sender of a T by address alone;
the child's stale list; the copy truncated before it is received; a server
restart; a peer that leaves while others connect; slots and arrays reused.

*Correct when* the table implements a catalogue (each offer keeps its address
and its count, a search answers one answered least), the peers' lists agree
with it, every listed address has a listener, each answer reaches the command
that asked, a peer serves only what its directory holds, every command comes
back, and a peer that quit is forgotten.

### 1.3 Demining pipeline (`892/Lab3`)

| part | state | operations |
| --- | --- | --- |
| ground control (`ground_control.py`) | the map, mines and command files (constant while it runs) | gRPC: GetMap, GetCommandStream, GetMineSerialNumber |
| its listener thread | the queue `Defused-Mines-Log`, the log file | bind the queue, write a line per result, acknowledge |
| rover (`rover.py`) | position, the set `reported` | walk the command stream, publish a task to `Demine-Queue` on each new mine |
| deminer (`deminer.py`) | the unacknowledged delivery | take a task, find the PIN, publish a result, acknowledge |
| broker (RabbitMQ in a container) | the queues and the exchange's bindings | external |

*Interaction.* gRPC between rovers and ground control, AMQP for everything else;
`run_all.sh` starts the processes; `start_rabbitmq.sh` and `stop_rabbitmq.sh`
remove the broker's container, and its queues with it.

*Hard.* A process killed between publishing (or writing) and acknowledging; a
redelivery; results published before the log queue is bound; a broker removed
under running programs; the listener's silent death; processes started in any order; a rover that crosses a mine again.

*Correct when* no reported mine is forgotten, none is worked at by two deminers
at once or logged more often than the kills account for, and what runs on gets
every report logged.

### 1.4 gRPC ground control and rovers (`892/Lab2`, `817/Lab2`)

| part | state | operations |
| --- | --- | --- |
| ground control (`GCS.py`) | map, mines and command files (constant while it runs), `pin_log` | GetMap, StreamCommands, GetMineSerial, ShareMinePin, ReportExecution |
| rover thread (`run_single_rover`) | position, direction, `needs_disarm`, `exploded`, `commands_executed` | fetches map and commands, runs them, reports |
| `rover.py --all` | the results so far | sends rovers 1 to N out, one after the other or on a thread pool; prints a summary |

*Interaction.* gRPC calls, answered by a pool of handler threads; a call to a
server that is down or stops raises in the rover's thread.

*Hard.* Handlers of several rovers write one log; a mine must be disarmed by
the very next command, also when the map's edge keeps the rover on it; a call
that raises in one of several threads; a ground control that is started again
between two calls of a rover.

*Correct when* a report says what the program does on the map, the log has every
disarmed mine in each rover's order, a summary is printed only for a whole fleet,
and the run ends.

### 1.5 Command cache and PIN search (`892/Lab1/Lab1.py`)

| part | state | operations |
| --- | --- | --- |
| command cache | the dict `cache_obj`, its JSON file | look a rover up, fetch it over HTTP, save the whole dict |
| part 1 | per rover: its commands, its path file | fetch or look up, walk the map, write the visited cells; main's loop or a thread each |
| part 2 | the mines, their keys, a queue, the dict `out`, `disarmed_mines.json` | load the mines, give each a key, search a PIN for each; main's loop, threads or a pool of processes |
| main | the flags, what is still to do | each part in one mode or in two, one after the other |

*Interaction.* Threads of one process share the dict and the queue; the lock is
taken around a change of the dict and its saving, not around a look-up. Runs of
the program meet in the files only.

*Hard.* Look-ups without the lock; a cache file truncated before it is written,
in a run that may be stopped there; a thread that raises and is joined all the
same; two modes in one run, of which the second starts from the file; a queue
that is empty while others still search; keys made from serials that repeat.

*Correct when* the file loses no entry and nothing is fetched twice, the path
files tell where the cached commands lead, each mine has a PIN of its own, and a
run ends.

### 1.6 UDP file transfer (`768/COE768-Computer-Networks-Lab-4.sh`)

| part | state | operations |
| --- | --- | --- |
| server (`udp_server.c`) | the file it is sending | answers a request C with blocks D and a last block F, or with an error E |
| client (`udp_client.c`) | socket, output file of the download | asks, writes what comes, removes the file when it fails |

*Interaction.* UDP datagrams without numbers, checksums or timeouts; the server
sends a whole file before it takes the next request.

*Hard.* Loss, repetition, reordering; leftovers of a failed download in the
socket; failed writes; a server killed or not there (ECONNREFUSED).

*Correct when* a download that is reported has written the file that was asked
for, a failed one leaves nothing, and every download ends.

### 1.7 The rest

The script of Lab 4 also holds a UDP time service (one request, one answer,
stateless). The generated gRPC modules, Makefile, Dockerfile, the set-up scripts
(`892/Lab3/make.sh` and the peer-to-peer script write copies of the programs
above), styles and pictures keep no state of their own.

## 2. What is modelled where

| module | models | extends / uses |
| --- | --- | --- |
| `FieldLifecycle` | abstract: what a client of the rover server may rely on about each mine and rover | — |
| `RoverControl` | `store.py`, `simulator.py`, the handlers of `app.py` | instantiates `FieldLifecycle` |
| `Catalogue` | abstract: a directory of offers with their counts | — |
| `DirectoryServer` | `directory_server.c` | instantiates `Catalogue` |
| `PeerToPeer` | `peer_node.c`, its child, the network | extends `DirectoryServer` |
| `DeminePipeline` | the programs of `892/Lab3` and the broker as they use it | — |
| `GroundControl` | `GCS.py` and `rover.py` of `892/Lab2` | — |
| `FileTransfer` | `udp_server.c`, `udp_client.c` | — |
| `CommandCache` | part 1 of `Lab1.py`: cache, fetches, path files | — |
| `PinWork` | part 2 of `Lab1.py`: mines, keys, workers | — |
| `Lab1` | main of `Lab1.py`, its runs, kills and exceptions | extends `CommandCache` and `PinWork` |
| `MC*` | instances for TLC | the module they check |
| `Selections` | what a loop keeps of a list | — |
| `DataLemmas` | facts about sequences, selections and loops used in several proofs | `Selections` |
| `DirectoryProofs` | theorems about `DirectoryServer` | `DirectoryServer`, `DataLemmas` |
| `PeerProofs` | theorems about `PeerToPeer` | `PeerToPeer`, `DirectoryProofs` |
| `RoverControlProofs`, `DeminingProofs`, `TransferProofs`, `GroundControlProofs`, `Lab1Proofs` | theorems | the module they are about, `DataLemmas` |

Definitions that end a comment "A plausible bug" are not part of a model: each
is a wrong form of the definition that follows it, named under `mutants` in
`PROJECT.json`, and the property given there fails with it.

**RoverControl.** A worker is a thread of the request pool. The dicts map ids to
objects (`mines` to places in `mine`, `rovers` to places in `rover`), which
handlers change in place and may hold after the id was deleted or given to
another object. A step is what a handler checks, or one attribute or dict entry
it writes, or one attribute it copies, and `pc` names the point between two of
them: `create_mine` is `CheckCreateMine`, `MakeMine`, `InsertMine`, `CountMine`;
`update_mine` writes x, y and the serial one after the other and then files the
object (`WriteMine`, `FileMine`); `update_rover_commands` writes its five
attributes and files the object (`WriteRover`, `FileRover`); `defuse_mine`
looks the mine up, writes its status and its PIN and files it, which brings a
mine deleted meanwhile back (`BeginDefuse`, `Defuse`, `FileDefused`).
`dispatch_rover` copies the rover attribute by attribute (`BeginDispatch`,
`CopyPlace`, `CopyCommands`), so that its copy may be of a half-written rover;
then come `Look` and an acting step for each command, and `SaveRover`, which
stores the copy as a new object. `form` holds what a handler is about to write,
`held` and `here` the rover and the mine object it has in hand. Rover objects
that nobody refers to any more are given up (`Objects` is a place for each
rover and each worker). `ResetDemo` binds a new store: requests that hold the
old one finish on it, unseen (`OrphanReturns`). Still one step each: a loop over
a dict (the RuntimeError that CPython may raise when another thread inserts
meanwhile is left out), a look-up with the check of the status it reads, the
two coordinates of a rover's position (one attribute, `position`), and `+= 1` on
an id counter. A serial stands for its PIN, the number of executed commands for
the list. One worker gives serial requests.

**DirectoryServer.** The server is one loop, so a handler is one action. A slot
is a record of the arrays of a `Peer`, cut to `nContent`. `out` holds the
datagrams of the last answer. Parsing and length checks are one refusal.
**PeerToPeer** adds, per peer, where its command stands (`pc`, `arg`), its list,
the queue of answers in its socket, its child with the list it was forked with,
its connection, and the files of its directory. `faults`, chosen at
the start among the sets of `Conditions`, says what the network (which may lose,
repeat and reorder requests and answers) and the host of the server may do, so
that a property can say which of it it holds under. A file is served in one step and is only
whole or empty. Answers to a peer that has ended are dropped.

**DeminePipeline.** Each program's sends, receives, acknowledgements and writes
are actions of their own; `publish_task` with the entry in `reported` is one,
because nothing in the process can come between. `held` is an unacknowledged
delivery; it goes back to the head of the queue when its consumer is killed. The
listener asks for up to 25 messages in advance (`prefetch_count`), but its one
thread handles and acknowledges them one by one in their order, and those it has
not reached go back to their places when its connection ends: the model leaves
them in the queue until then. The writing of a line and its acknowledgement are
two actions. `RemoveBroker` is a
start or stop script run again: the queues and bindings go, every open connection
raises in its process, and what only the queues knew is gone; `dropped` records
those reports, because the rovers remember them as reported. Serials and PINs
are left out.

**GroundControl.** A call that only reads is one action of both sides. That of a
PIN is two: the handler appends to `pin_log` (`ShareMinePin`), and the answer
reaches the rover later (`Acknowledged`) or never, if ground control was stopped
in between and the call cut (`CallFails`). A report is one action, or printed and
not answered (`ReportUnanswered`). A rover whose call was open when ground control stopped is
in `cut` and may be told so, also by a server started again. PINs are left out:
both sides compute them with one function from one serial, so each is accepted.
A rover ends on no blocked cell but its start, which the type invariant says.

**FileTransfer.** A PDU is a type and a block, a block the name of its file and
its place in it. The server's loop is one action per PDU sent, the client's one
per PDU received. `refused` is the ICMP error that waits in a connected socket.
A write that fails is one of two things: an `fopen` or `fwrite` that tells
(`WriteFails`: the file is removed and the rest of the answer stays in the
socket), or a full disk that the stream's buffer hides until the `fclose` behind
the last block, whose result nobody reads (`CloseFails`: the download is
reported and the end of its file is missing). A server that is killed takes the
requests in its socket with it, of any of the clients (`KillServer`). `happened`
records which kinds of fault there were, so that a property can say which it
holds under.

**CommandCache, PinWork, Lab1.** The cache file is absent, torn or whole: `open`
with "w" tears it until the dump is closed, and so is the PIN file. The lock is
"some thread is saving". A failed fetch, open or write ends the thread that did
it (`pc` is "failed"); in the sequential mode it raises out of the loop and ends
the program (`Raise`). `Die` may come between any two steps; what is on the disk
stays. `todo` is the list of stages that the flags ask for, `phase` how far the
first of them is. `known` is a history variable: the rovers that the cache file
has ever had. A serial or a key is the sequence of its parts between
underscores; numbers in `Words` stand for parts that `int()` does not take, so
that a line of a list may fail to be a mine with a place (`mine_of`). A PIN is
what it was searched with (`find_pin_for_serial`), and it opens that text alone
(`Opens`): that the digest of another text begins with the zeros too is chance,
and left out. The PIN file has its PINs under their keys (`pins.entries`). The
queue, filled before anyone takes from it, is the number of keys taken. Commands are letters;
`simulate_rover` is a recursive function over them. The API may answer with any of a set of
strings, some of whose letters are no commands.

## 3. The runs

All runs that pass are complete explorations.

| run | states | shows |
| --- | --- | --- |
| `rover_serial` | 1,246,071 | with one request at a time: mines and rovers on the map, no shared cell, no active mine left behind by a dispatch, results that belong to the stored program, and the refinement of `FieldLifecycle` |
| `rover_concurrent` | 920,227 | two requests side by side that write and copy one attribute at a time: types, stored rovers that tell a possible story, except while an update writes them, and an answer to every request, also a defusal whose mine is deleted meanwhile |
| `rover_two_dispatches` | violation | the guard of a dispatch does not keep a second one out |
| `directory` | 5,650 | entries stay whole, `npeers` counts, the table implements `Catalogue` whatever slots and arrays are reused and whichever table is full |
| `peers` | 3,674,971 | answers reach the command that asked, lists agree, listed addresses listen, though datagrams may be lost; a peer hosts only files it has, also under repetition, reordering and restarts of the server |
| `peers_one_host` | 127,016 | every command comes back, a peer that quit is forgotten |
| `peers_snapshot` | violation | a child refuses what its peer hosts |
| `demining` | 123,914 | no mine forgotten, repeats bounded by the faults, one deminer per task, reports logged; a fault is a process killed or the broker removed |
| `transfer` | 1,399,273 | whole files, gaps only under loss, no remnants unless an `fclose` failed, nothing left over, downloads end |
| `ground_control` | 174,418 | true reports, a complete PIN log, whole summaries, the run ends |
| `lab1` | 1,149,878 | no entry of the cache lost, nothing fetched twice, path files that fit the cached commands, a PIN for each key and a key for each mine that can be told apart, runs end |
| `lab1_documented` | violation | for a list with one mine three times: the PIN of a repeated serial does not open the serial, and two mines have one identifier |

*Bounds, and why they are enough.* `MaxMines`, `MaxRovers`, `MaxCommands`,
`MaxFaults`, `MaxStops`, `MaxQueue` bound the models; each is a guard of the
actions that count. Two mines are the least with which one can take the cell of
another, a side of two the least with an inside and an edge in each direction;
the serial programs turn both ways, leave the map and stand on a mine. Two
workers are enough for every pair of handlers; the concurrent program defuses and
moves, since it is mines and places that requests share; with a map of one cell every
request is about the same place, which is where they meet. `Objects` has a place
for each rover of the store and one for each worker, which is all that can be
referred to at once. The directory has one
name more than slots (a full table), two addresses for three names (T by address
is ambiguous), three contents for tables of two (a full content table) and a count
limit of two (it is reached); nothing in the server looks at a port, so there is
one. Two peers
are the least with which one serves the other; seven commands let both register,
download, deregister and leave, where datagrams may only be lost, and two are
given where every fault may happen, any number of times. The pipeline has one fault, so that "1 + faults"
lines are exceeded by any second repetition, and two rovers on one mine. The
transfer has two faults (loss and a kill, or a failed write after a repetition)
and three downloads (one whose leftovers meet the next one, another client in
between). Ground control has three rovers on two threads and two stops.
Lab 1 has two rovers (one saves while the other looks up or fetches) and two
workers, every combination of the flags, and any number of runs, kills and
failures; one of the three answers leads round to the mine, disarms it and comes
back, one dies on it, one holds no command; of the three mine files one is a
map, one a list with a serial three times, and one an empty map, which raises.
The violated run of Lab 1 has one list.

*Symmetry.* `MCDirectory` permutes names, addresses and contents: the code only
compares them. It checks a safety refinement, no liveness. No other run uses
symmetry.

*Deadlock* is not checked where the system may stop: users give no more
commands (`peers`, `peers_one_host`), the demining processes end or wait for messages, all
downloads are done, a run of `rover.py` is over. It is checked in the
other runs.

## 4. Fairness

- `rover_concurrent`: weak fairness of `Continue(w)`: a thread that has taken a
  request is scheduled. Nothing makes a client send one.
- `peers_one_host`: weak fairness of each peer's own steps, of the child's
  answers and of the server's handling of each peer's datagrams: processes run
  and kernel queues are first in, first out. Users are not bound to anything.
- `demining`: weak fairness of the listener, of each rover that runs and of each
  deminer. Starting a process is not fair, so `ReportsAreLogged` assumes that
  from some time on a deminer and the listener are up.
- `transfer`: weak fairness of the server's steps and of each client's
  receiving. `DownloadsEnd` is claimed for runs without faults only: without a
  timeout one lost PDU leaves a client waiting.
- `ground_control`: weak fairness of each rover's thread, calls included (gRPC
  answers or raises), and of the end of the run. Starting ground control is not
  fair: the run ends without it.
- `lab1`: weak fairness of `program`, all steps of a running program taken
  together: some thread of it is scheduled, a request is answered or times out
  (`requests.get` has a timeout), and a PIN search finds one. Starting, killing and
  removing files are not fair. No fairness between threads is needed: each has
  finitely many steps.

## 5. The proofs

TLAPS checks all of them, for all values of the constants that satisfy the named
assumptions (`StoreAssumption`, `DirectoryAssumption`, `PipelineAssumption`,
`TransferAssumption`, `GroundControlAssumption`, ...). They say of the constants
what the code takes for granted: commands are strings of letters, mines lie on
the map and not in a blocked cell, a loaded map is rectangular and the parts of a
line are not empty (`PinAssumption`). Every property that a run checks is stated by
a theorem, but for those about liveness.

- **RoverControl, any number of workers** (`RoverControlProofs`): `TypeCorrect`,
  `RecordsTell`. `RecordInv` adds to the types that an object filed under an id
  has that id (`IdsTrue`), what each worker holds between two steps and how far
  the resets of its update have come (`WorkersHold`: nobody writes anything else
  over them, since every update of one object resets it to the same values), and
  that every rover object, filed or not, is half-written or tells its story
  (`AllTell`). The last must be said of all objects: a rover that was deleted or
  replaced while an update holds it is filed again at the end of the update. A
  dispatch may copy a rover half-written; what it saves is right all the same,
  because its loop settles status and progress (`LoopTells`).
- **RoverControl, one worker** (`RoverControlProofs`): `FieldCorrect`,
  `FieldStaysInMap`, `NoMineLeftBehind`, `LifecycleRefined` (the refinement of
  `FieldLifecycle`). `SerialInv` adds that what a handler has checked is still
  true of the store when it writes (`ChecksHold`) and that a dispatch's copy
  agrees with the store. The hypothesis of one worker is needed: with two, each
  of these fails (section 6).
- **DirectoryServer** (`DirectoryProofs`): `TableCorrect`, `EntriesCorrect`,
  `CounterCorrect`, `TypeCorrect` (the table and every datagram sent, the pages
  of a listing included) and `CatalogueImplemented`, the refinement of `Catalogue`.
  `TableInv` is the conjunction of types, unique names, whole entries and the
  counter; each handler replaces one slot (`ReplaceSlot`), and the shifting of
  the two arrays keeps an entry whole (`ShiftWhole`). The refinement needs all of
  it: because names are unique, replacing a slot is replacing one entry of the
  catalogue (`PutEntry`, `DropEntry`); because entries are whole, what a handler
  does to the two arrays is what the catalogue does to the counts by content
  (`AppendSent`, `CountSent`, `ShiftSent`).
- **PeerToPeer** (`PeerProofs`): `HostedFilesExist` and `PeersTypeCorrect`,
  under any faults. `HostInv` adds that a content about to be registered is a
  file of the directory, and that files stay: it needs no types of the network,
  whatever the server answers. `PeerInv` adds the table, the datagrams on their
  way (`MessagesOK`) and the commands (`CommandsOK`).
  `AnswersAlwaysMatch`, `ListsAlwaysAgree` and `AddressesAlwaysListen` have a
  condition on `faults` in the property itself; `faults` never changes
  (`FaultsStay`), so that each proof starts from a run whose faults are known.
  Where datagrams may be lost and the server restarted, `AnswersInv` says that of each peer at most one request, or its
  answers, is under way (`OneAnswer`). The condition is needed: the code tells
  answers apart by their order alone, so a repeated or overtaken datagram is
  taken for the answer to the next command.
  `ListsAlwaysAgree` and `AddressesAlwaysListen` hold where datagrams may at most be
  lost (`LossyInv`), with one peer on a machine (`OnePeerPerHost`: T finds the peer by the
  sender's address) and a slot for each (`RoomForAll`). `ListsInv` says of each
  peer what the server has of it at each point of each command (`Agreed`): while
  the request is on its way, what the peer had; once the answer is, what it will
  have when it has read it; nothing is promised of a peer that waits for a lost
  datagram. A server restarted forgets its table, which is why `restart` is
  excluded here.
- **DeminePipeline** (`DeminingProofs`): `TypeCorrect`, `ReportsKept`,
  `DeminersApart`, `RepeatsBounded`. The invariant adds that a published result
  is told (`PublishedTold`), a written line is in the log (`WrittenLogged`), a
  waiting task is in its rover's `reported` (`WaitingReported`), and a task about
  to be published is not (`FreshReports`), without which the uniqueness of tasks
  is not inductive. For the repeats, `RepeatInv` counts for each task its lines
  and one that is due: more than one of them is paid for by a fault.
- **FileTransfer** (`TransferProofs`): `TypeCorrect`, under any faults;
  `NoRemnantsEver`, under any but an `fclose` that fails; `WholeFilesSaved`, where servers may be killed;
  `NothingStaysBehind` and `GapsOnly`, where PDUs may be lost too. `RemnantInv` adds that each
  F on its way carries the last block of some file, which loss, repetition and
  reordering preserve. `AnswerInv` says what a waiting client may wait for: one
  thing at most is its request, its server's job or an ending on its way
  (`OneAnswer`), and what it has written, what is on its way and what the server
  will send are together the file it asked for (`Follows`). With losses only
  the order is left of that: written, on its way and to be sent, the numbers of
  the blocks rise (`GapInv`).
- **GroundControl** (`GroundControlProofs`): `TypeCorrect`, `SummariesWhole`,
  `EveryReportTrue`, `EveryPinLogged`, for any fleet, pool and number of stops.
  `TypeInv` adds that a rover which must disarm stands on a mine; `FleetInv`, that
  the reports are those of the rovers that have ended, one each, and that
  sequential mode has one rover out at a time. `CourseInv` says that a rover
  is where the letters it has executed take it and must disarm exactly if it
  stands on a mine, with none left armed behind it (`OnCourse`), and that its
  stage tells how far its loop is (`InLoop`). `PinsInv` says that the log's lines of
  a rover are the mines it has disarmed, in its order, with one more while an
  answer is on its way (`Taken`).
- **Lab 1** (`Lab1Proofs`): `TypeCorrect`, `EntriesNeverLost`, `AskedOnce`,
  `PathsAlwaysTell`, `EachMineAlwaysHasPin`. `Inv` says that while part 1 runs the
  dict has all that the file ever had (`CacheHolds`), that a saved dict is the
  file (`DictSaved`), that who has been fetched is in the dict or is about to be
  stored (`AskedFound`), and that a run's stages come in main's order
  (`InOrder`): only because part 1's modes come first and each loads the file
  again does the second mode find what the first fetched.
  `CommandsInv` says that whatever commands there are came from an answer, that
  the dict has what a rover walks once it is past its save, and that a whole
  file has what the dict has, except for rovers that failed. What `simulate_rover`
  returns is then a lemma about its loop: up to the first armed mine the rover
  stands where its letters so far lead (`OnTrack`, `VisitedIsWalked`).
  `WorkInv` says where each mine of part 3 is: queued, with one worker or solved,
  never nowhere (`NoneDropped`), and with nothing left when the workers are
  through; the file then has a PIN for each key, and one that opens that key. That
  the keys are as many as the mines is `KeysCount`, for mines that `TellApart`
  tells apart; those of a map always are (`MapApart`: two cells
  of a map differ in row or column (`CellsApart`), no cell gives two mines
  (`KeptApart`), and their serials have one length, so that one which begins with
  another is that other (`PrefixSame`)). Of other lists the
  property promises no more than the PINs of the keys, and `lab1_documented` shows
  where they part from what `lab1.md` says.

What a recursive function computes for every input is proved without induction
over data. The induction theorems of the library take an operator as a
parameter, which is out of the provers' reach; instead a loop is followed by the
least stage at which its invariant would fail (`LeastNatural`, `LoopInvariant`,
`LoopHolds` in `DataLemmas`): a non-empty set of naturals has a least element,
and the stage before it gives the contradiction. For the same reason the model
writes its loops as functions of the number of steps taken, and its selections as
`Kept`.

Only model-checked: liveness, which rests on fairness and `ENABLED`:
`EveryRequestReturns`, `EveryCommandReturns`, `QuitLeavesNothing`,
`ReportsAreLogged`, `DownloadsEnd` and the `RunEnds` of Lab 1 and of Lab 2. The
violated properties of section 6 are shown by their runs.

## 6. Findings and other facts

Violated, each by a run:

1. `rover_two_dispatches`: `Moving` is set in the deep copy only
   (`simulator.py:50`), so a second dispatch of a rover is accepted while the
   first runs (`simulator.py:48` says it is not). For the same reason
   `update_rover_commands` takes new commands for a rover that a dispatch moves
   (`store.py:150` says it does not), and the dispatch then saves the old program
   over them.
2. `peers_snapshot`: the child is forked once and serves the list of its fork
   (`peer_node.c:128`): what is registered later cannot be downloaded.
3. `lab1_documented`: `lab1.md:166-168` asks for sha256(pin + serial) of each mine
   serial; for a serial that occurs again the code searches with its suffixed
   key (`Lab1.py:481`), and the PIN does not open the serial. `lab1.md:94` has
   repeated serials made unique by a suffix; the key of a located mine whose serial
   is in use is serial, row and column, which is not looked up (`Lab1.py:475`), so
   that a mine listed three times has two keys for its three entries.

Facts of the code met while modelling, which no run lists as violated:

- Two concurrent creates (or a create and an update) at one place both pass the
  conflict check (`store.py:81`); a resize between check and write leaves a mine,
  one during a dispatch a rover, outside the map. The serial properties
  therefore are claimed for one request at a time.
- A rover deleted during its dispatch comes back when it is saved
  (`store.py:160`).
- T finds the peer by the sender's address (`directory_server.c:319`): of several
  peers on one machine the first slot's content is withdrawn, or missed.
- A peer that downloads within one directory, or from itself, truncates the file
  before it is read (`peer_node.c:234`).
- A content that was answered 2^31-1 times is not found any more
  (`directory_server.c:271`).
- A deminer killed after it published and before it acknowledged has its mine
  defused and logged again; a result published before the listener first binds
  its queue is lost. `start_rabbitmq.sh` run again drops the waiting tasks, and
  their mines are never defused: the rovers hold them for reported.
- In Lab 2 a program that ends on an armed mine is reported as a success, as is
  a rover without a command file; a rover kept on a mine by the map's edge has
  to disarm it again. In concurrent mode, one call that raises costs the whole
  summary.
- In the rover server two updates of one rover may mix: commands of one with what
  the other resets, which is the same. A dispatch may copy a rover that an update
  is writing, and runs the new program from an old place. A mine deleted while a
  dispatch defuses it comes back (`store.py:117`).
- In Lab 4 a lost D leaves a shorter file that is reported as downloaded. So does
  a full disk that shows only in the `fclose` behind the last block, whose result
  is ignored (line 431): the client prints "Downloaded to". A download that fails
  in `fopen` or `fwrite` leaves the rest of its answer in the socket (line 427),
  and the next download of the session saves that and is reported. `WholeFiles`
  is stated for runs in which neither happened, `NoRemnants` for all but the first.
  `time_client` with one argument converts a null pointer.
- `Lab1.py` as committed ends with lines of prose and does not parse;
  `lab1.md` names `trace_<id>.txt` where the code writes `path_<id>.txt`.
- In Lab 1 a run stopped while it saves leaves a torn cache file, and every later
  run with `--cache` raises until it is removed (`Lab1.py:208`). A map without a mine given
  as `--mines` is read again as lines and yields spurious mines. The mines of a
  map always have keys of their own (`MapApart`); in a list a serial that looks
  like another's suffixed key shares it, as does a mine that is listed three
  times (`TellApart` excludes both). In the sequential mode one rover
  that fails ends the program before part 2; in the threaded mode it is passed
  over.
- The dashboard's `deleteRover` calls a function that does not exist
  (`templates/index.html:1258`), so that every deletion is reported as failed.
  `get_map` raises if a mine lies outside the map, and `/api/dashboard` looks each
  rover up after it has listed them, so that one deleted meanwhile is an error.

## 7. What is not modelled, and why

- Login and dashboard of the rover server: a signed cookie of one constant user,
  routes that only read the store, and a page that polls every 20 s; no state of
  the server beyond what the modelled handlers do. The drawing of maps and paths
  is layout.
- The bootstrap script of the peer-to-peer project: writes the same sources,
  builds, starts and kills.
- The time service: stateless. Generated code and set-up scripts: no logic of
  their own.
- `817/Lab2` has the same ground control and an earlier `rover.py`, which is a
  fleet of one in `GroundControl`.
- Of the modelled parts: text, parsing and formatting; the bytes of files; a
  second run of a peer under its name; a hosting child killed from outside.

## 8. The plan

Written, in this order, the most important first: `RoverControl` with
`FieldLifecycle`, `DirectoryServer` with `Catalogue`, `PeerToPeer`,
`DeminePipeline`, `FileTransfer`, `GroundControl`, then `CommandCache`, `PinWork`
and `Lab1`, the removed broker of the pipeline, and the proofs of section 5.

Left, in the order of what it would add:

1. Proofs: the safety that the liveness properties rest on, such as that a
   waiting worker, rover or client always has something under way that can end
   its wait.
2. `PeerToPeer`: a second run under one name, a child killed from outside.
