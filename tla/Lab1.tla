-------------------------------- MODULE Lab1 --------------------------------
(***************************************************************************)
(* The program of 892/Lab1/Lab1.py: main does part 1, then part 2, each    *)
(* in one mode or in two.  The program may be run again and again, be      *)
(* killed at any point or end with an exception; what stays is the cache   *)
(* file, the path files and the PIN file.                                  *)
(***************************************************************************)
EXTENDS CommandCache, PinWork

VARIABLES
    todo,   \* what main has still to do, <<>> when the program does not run
    phase,  \* how far it is with the first of it
    known   \* history: the rovers the cache file has ever had since it was removed

control == <<todo, phase, known>>
part1 == <<opts, file, cache, pc, cmds, fetched, paths>>
part2 == <<mines, taken, holding, left, out, pins>>
vars == <<opts, file, cache, pc, cmds, fetched, paths,
          mines, taken, holding, left, out, pins, todo, phase, known>>

Init == CacheInit /\ PinInit /\ todo = <<>> /\ phase = "begin" /\ known = {}

-----------------------------------------------------------------------------
(* main.                                                                    *)

Flags == [p1 : BOOLEAN, p2 : BOOLEAN, seq : BOOLEAN, threaded : BOOLEAN, mp : BOOLEAN]

Stages == {"paths_sequential", "paths_threaded", "load_mines",
           "pins_sequential", "pins_threaded", "pins_processes"}

PathStages(args) ==
    IF args.seq THEN <<"paths_sequential">>
    ELSE IF args.threaded THEN <<"paths_threaded">>
    ELSE <<"paths_sequential", "paths_threaded">>

PinStages(args) ==
    IF args.mp THEN <<"pins_processes">>
    ELSE IF args.seq THEN <<"pins_sequential">>
    ELSE IF args.threaded THEN <<"pins_threaded">>
    ELSE <<"pins_sequential", "pins_threaded">>

Plan(args) ==
    (IF args.p1 \/ ~args.p2 THEN PathStages(args) ELSE <<>>)
    \o (IF args.p2 \/ ~args.p1 THEN <<"load_mines">> \o PinStages(args) ELSE <<>>)

Doing(stage) == todo # <<>> /\ todo[1] = stage
Paths == Doing("paths_sequential") \/ Doing("paths_threaded")
Pins == Doing("pins_sequential") \/ Doing("pins_threaded") \/ Doing("pins_processes")

Phase(from, to) == phase = from /\ phase' = to

\* A program that is not running has no arguments and has asked for nothing.
Over == opts' = NoOpts /\ fetched' = [r \in RoverIds |-> 0]

\* The stage is over; a program that has ended keeps nothing in memory.
Return ==
    /\ todo' = Tail(todo) /\ phase' = "begin"
    /\ IF Tail(todo) = <<>> THEN Over ELSE UNCHANGED <<opts, fetched>>

Start ==
    /\ todo = <<>> /\ todo' \in {Plan(args) : args \in Flags}
    /\ opts' \in [cache : BOOLEAN, refresh : BOOLEAN]
    /\ UNCHANGED <<disk, cache, threads, fetched, part2, phase, known>>

-----------------------------------------------------------------------------
(* Part 1.                                                                  *)

BeginPart1 ==
    /\ Paths /\ Phase("begin", "run")
    /\ load_cache
    /\ UNCHANGED <<part2, todo, known>>

\* What the file has when it is whole is known from then on.
Remember == known' = IF file'.state = "whole" THEN known \cup DOMAIN file'.entries ELSE known

RunRover(r) ==
    /\ Paths /\ phase = "run"
    /\ \/ LookUp(r) /\ (Doing("paths_sequential") => InTurn(r))
       \/ run_part1_one(r)
    /\ Remember
    /\ UNCHANGED <<part2, todo, phase>>

\* A plausible bug: main waits until every thread has written its file.
AwaitFiles ==
    /\ Paths /\ phase = "run" /\ Return
    /\ AllDone
    /\ ForgetPart1
    /\ UNCHANGED <<disk, part2, known>>

\* The loop over the rovers is through, or all threads have been joined.
EndPart1 ==
    /\ Paths /\ phase = "run" /\ Return
    /\ IF Doing("paths_sequential") THEN AllDone ELSE AllEnded
    /\ ForgetPart1
    /\ UNCHANGED <<disk, part2, known>>

-----------------------------------------------------------------------------
(* Part 2.                                                                  *)

LoadMines ==
    /\ Doing("load_mines") /\ Return
    /\ mines' \in Loaded \ {<<>>}
    /\ UNCHANGED <<disk, cache, threads, search, pins, known>>

BeginPart2 ==
    /\ Pins /\ Phase("begin", "run")
    /\ BeginSearch
    /\ UNCHANGED <<part1, mines, pins, todo, known>>

\* main itself is the only worker of the sequential mode.
RunWorker(w) ==
    /\ Pins /\ phase = "run"
    /\ Doing("pins_sequential") => w = 1
    /\ Take(w) \/ Solve(w) \/ (Doing("pins_threaded") /\ Leave(w))
    /\ UNCHANGED <<part1, control>>

\* A plausible bug: an empty queue is taken for the end of the work.
QueueEmpty == taken = Len(serials)

\* All threads are joined; the loop is over, or each result has come back.
WorkersEnded ==
    IF Doing("pins_threaded") THEN left = WorkerIds
    ELSE taken = Len(serials) /\ holding = Idle

\* write_part2_output: the file is opened...
OpenPins ==
    /\ Pins /\ Phase("run", "write") /\ WorkersEnded
    /\ pins' = [state |-> "torn", of |-> <<>>, entries |-> NoPins]
    /\ UNCHANGED <<part1, mines, search, todo, known>>

\* ... and gets what is in out.
WritePins ==
    /\ Pins /\ phase = "write" /\ Return
    /\ pins' = [state |-> "whole", of |-> mines,
                entries |-> [key \in {serials[i] : i \in out} |-> find_pin_for_serial(key)]]
    /\ BeginSearch
    /\ mines' = IF Tail(todo) = <<>> THEN <<>> ELSE mines
    /\ UNCHANGED <<disk, cache, threads, known>>

-----------------------------------------------------------------------------
(* The end.                                                                 *)

\* The program ends: what it had in memory is gone.
Gone ==
    /\ todo # <<>> /\ todo' = <<>> /\ phase' = "begin"
    /\ Over /\ ForgetPart1 /\ BeginSearch /\ mines' = <<>>
    /\ UNCHANGED <<disk, pins, known>>

\* json.load of load_cache raises.
CacheUnreadable == Paths /\ phase = "begin" /\ opts.cache /\ file.state = "torn"

\* run_part1_one raises in the loop of run_part1_sequential.
LoopRaises == Doing("paths_sequential") /\ \E r \in RoverIds : pc[r] = "failed"

\* load_mines finds no mine in the file.
NoMines == Doing("load_mines") /\ <<>> \in Loaded

Raise == (CacheUnreadable \/ LoopRaises \/ NoMines) /\ Gone

\* It is killed, or a directory or the PIN file cannot be written.
Die == Gone

\* The user removes a cache file.
RemoveCache ==
    /\ todo = <<>> /\ file.state # "absent"
    /\ file' = [state |-> "absent", entries |-> NoEntries]
    /\ known' = {}
    /\ UNCHANGED <<opts, cache, threads, fetched, paths, part2, todo, phase>>

-----------------------------------------------------------------------------
main == BeginPart1 \/ EndPart1 \/ LoadMines \/ BeginPart2 \/ OpenPins \/ WritePins \/ Raise

program ==
    \/ main
    \/ \E r \in RoverIds : RunRover(r)
    \/ \E w \in WorkerIds : RunWorker(w)

Next == Start \/ program \/ Die \/ RemoveCache

Spec == Init /\ [][Next]_vars

\* Some thread of a program that runs is scheduled, a request is answered or
\* times out, and a search finds a PIN.
FairSpec == Spec /\ WF_vars(program)

-----------------------------------------------------------------------------
(* Properties.                                                              *)

Program == Seq(Letters) \ {<<>>}

CacheTypeOK ==
    /\ opts \in [cache : BOOLEAN, refresh : BOOLEAN]
    /\ file.state \in {"absent", "torn", "whole"}
    /\ DOMAIN file.entries \subseteq RoverIds /\ DOMAIN cache \subseteq RoverIds
    /\ \A r \in DOMAIN file.entries : file.entries[r] \in Program
    /\ \A r \in DOMAIN cache : cache[r] \in Program
    /\ pc \in [RoverIds -> PC] /\ cmds \in [RoverIds -> Seq(Letters)]
    /\ fetched \in [RoverIds -> Nat] /\ paths \in [RoverIds -> SUBSET Cells]

PinTypeOK ==
    /\ mines \in Loaded \cup {<<>>} 
    /\ taken \in 0..Len(serials) /\ out \subseteq 1..taken
    /\ holding \in [WorkerIds -> 0..taken] /\ left \subseteq WorkerIds
    /\ pins.state \in {"absent", "torn", "whole"} /\ pins.of \in Loaded \cup {<<>>}
    /\ DOMAIN pins.entries \subseteq ToSet(KeyLists[pins.of])
    /\ todo \in Seq(Stages) /\ phase \in {"begin", "run", "write"} /\ known \subseteq RoverIds

\* Every variable has its type; the cache, its file and the rovers hold
\* nothing but commands, whatever the API has answered.
TypeOK == CacheTypeOK /\ PinTypeOK

\* A cache file that is whole has every rover it ever had: neither a thread
\* that saves while others change the dict, nor a second mode or run, a failed
\* save or a kill in an earlier run loses an entry.
EntriesKept == file.state = "whole" => known \subseteq DOMAIN file.entries

\* With a cache and no refresh a rover is asked for at most once in a run, and
\* not at all if the file has ever had its commands: the second of two modes
\* finds everything in the cache.
FetchedOnce ==
    [][opts.cache /\ ~opts.refresh =>
         \A r \in RoverIds : fetched'[r] > fetched[r] => fetched[r] = 0 /\ r \notin known]_vars

\* Where a rover is after k commands if no mine stops it.
Course(commands) ==
    LET pose[k \in 0..Len(commands)] ==
            IF k = 0 THEN Pose(<<0, 0>>, 2)
            ELSE LET p == pose[k - 1]
                     there == Ahead(p.at, p.dir)
                 IN  CASE commands[k] = "M" -> Pose(IF there \in Cells THEN there ELSE p.at, p.dir)
                       [] commands[k] = "D" -> p
                       [] OTHER -> Pose(p.at, Turned(p.dir, commands[k]))
    IN  pose

\* The rover stands on a mine that it has not been told to disarm there, and
\* its next command is another.
Fatal(commands) ==
    {k \in 0..(Len(commands) - 1) :
        /\ commands[k + 1] # "D" /\ Course(commands)[k].at \in Mined
        /\ \A i \in 1..k : commands[i] = "D" => Course(commands)[i].at # Course(commands)[k].at}

Walked(commands) ==
    LET last == IF Fatal(commands) = {} THEN Len(commands) ELSE Min(Fatal(commands))
    IN  {Course(commands)[k].at : k \in 0..last}

Walk == [commands \in Programs |-> Walked(commands)]

\* The path file of a rover that is done has the cells its commands lead to up
\* to the first mine it leaves armed, and these commands are the ones that the
\* cache file keeps for it, whatever the other threads save or fail to save.
PathsTell ==
    \A r \in RoverIds : pc[r] = "done" =>
        /\ paths[r] = Walk[cmds[r]]
        /\ opts.cache /\ file.state = "whole" =>
             r \in DOMAIN file.entries /\ file.entries[r] = cmds[r]

\* No two mines of one serial have one place, and no serial looks like a key
\* that is made from another.
TellApart(ms) ==
    \A i, j \in DOMAIN ms :
        /\ i # j /\ ms[i].serial = ms[j].serial /\ ms[i].row >= 0
             => <<ms[i].row, ms[i].col>> # <<ms[j].row, ms[j].col>>
        /\ ms[i].serial # ms[j].serial => ~IsPrefix(ms[i].serial, ms[j].serial)

MapLoaded == {mines_from_map(src.grid) : src \in {s \in Sources : s.grid # <<>>}}

\* A PIN file that is whole has a PIN for each key, and one that opens it, in
\* every mode: main has waited for all workers, and none has dropped a key.
PinsComplete ==
    pins.state = "whole" =>
        /\ DOMAIN pins.entries = ToSet(KeyLists[pins.of])
        /\ \A key \in DOMAIN pins.entries : Opens(pins.entries[key], key)

\* And if the mines are those of a map, or can be told apart, it has as many PINs
\* as there were mines: no two share a key, though they may share their serial
\* (make_unique_serial_map).  Of other mines see PinsAsDocumented.
EachMineHasPin ==
    /\ PinsComplete
    /\ pins.state = "whole" /\ (pins.of \in MapLoaded \/ TellApart(pins.of)) =>
         Cardinality(DOMAIN pins.entries) = Len(pins.of)

\* The key that make_unique_serial_map gives to the i-th mine.
Identifier(ms, i) == KeyFor(ToSet(make_unique_serial_map(SubSeq(ms, 1, i - 1))), ms[i])

\* lab1.md: each mine gets an identifier of its own, also if its serial was there
\* already, and the PIN written for it is one for its serial.  The code does not
\* keep this: a mine listed again has no identifier of its own, and for a serial
\* that occurs again the PIN is one for the identifier.
PinsAsDocumented ==
    pins.state = "whole" =>
        \A i \in DOMAIN pins.of :
            /\ \A j \in DOMAIN pins.of \ {i} :
                 Identifier(pins.of, i) # Identifier(pins.of, j)
            /\ Opens(pins.entries[Identifier(pins.of, i)], pins.of[i].serial)

\* A run ends: by returning, or by an exception.
RunEnds == todo # <<>> ~> todo = <<>>
=============================================================================
