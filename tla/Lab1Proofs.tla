----------------------------- MODULE Lab1Proofs -----------------------------
(***************************************************************************)
(* Theorems about Lab1.py: its cache, path files and PIN file, for any     *)
(* rovers, answers, map, mine files and workers, any flags, and kills and  *)
(* failures at any points.                                                 *)
(***************************************************************************)
EXTENDS Lab1, DataLemmas

-----------------------------------------------------------------------------
(* The inductive invariant.  A part 1 that runs with a cache holds whatever  *)
(* the file has ever had, so that a save loses nothing; a rover that is      *)
(* asked for is in no cache and has not been asked for in this run; and when *)
(* no rover has failed and none is being saved, the file has the whole dict, *)
(* which is what the second mode of the run finds.                           *)

Running == Paths /\ phase = "run"

\* Part 1 comes before part 2, and one by one before with threads.
InOrder(stages) ==
    /\ stages \in Seq(Stages)
    /\ \A i \in 2..Len(stages) :
         /\ stages[i] # "paths_sequential"
         /\ stages[i] = "paths_threaded" => i = 2 /\ stages[1] = "paths_sequential"

MainOK ==
    /\ InOrder(todo)
    /\ phase \in {"begin", "run", "write"}
    /\ phase = "run" => Paths \/ Pins
    /\ phase = "write" => Pins

ThreadsOK ==
    /\ pc \in [RoverIds -> PC] /\ fetched \in [RoverIds -> Nat]
    /\ \A r \in RoverIds : pc[r] # "off" => Running
    /\ \A r \in RoverIds : pc[r] \in {"update", "saving"} => opts.cache
    /\ todo = <<>> => \A r \in RoverIds : fetched[r] = 0

FileKnown ==
    /\ file.state \in {"absent", "torn", "whole"}
    /\ file.state # "whole" => DOMAIN file.entries = {}
    /\ file.state = "absent" => known = {}
    /\ DOMAIN file.entries \subseteq known

CacheHolds == Running /\ opts.cache => known \subseteq DOMAIN cache

Cached ==
    Running /\ opts.cache =>
        \A r \in RoverIds : pc[r] \in {"saving", "walk", "writing", "done"} => r \in DOMAIN cache

DictSaved ==
    Running /\ opts.cache /\ (\A r \in RoverIds : pc[r] \notin {"failed", "saving"})
    => DOMAIN cache \subseteq DOMAIN file.entries

Thrifty == opts.cache /\ ~opts.refresh

\* Whom a thrifty run has asked for before, it finds in the file or the dict.
AskedFound ==
    Thrifty =>
        \A r \in RoverIds :
            /\ pc[r] = "fetch" => fetched[r] = 0 /\ r \notin DOMAIN cache
            /\ pc[r] = "new" /\ r \notin DOMAIN cache => fetched[r] = 0
            /\ Paths /\ phase = "begin" /\ file.state # "torn" /\ fetched[r] # 0
                 => r \in DOMAIN file.entries

Inv ==
    /\ MainOK /\ ThreadsOK /\ FileKnown /\ EntriesKept
    /\ CacheHolds /\ Cached /\ DictSaved /\ AskedFound

-----------------------------------------------------------------------------
(* What main has to do.                                                      *)

Later == {"load_mines", "pins_sequential", "pins_threaded", "pins_processes"}

LEMMA PinStagesLater ==
    ASSUME NEW args \in Flags
    PROVE  <<"load_mines">> \o PinStages(args) \in Seq(Later)
  <1>1. <<"load_mines">> \in Seq(Later)
    BY DEF Later
  <1>2. /\ <<"pins_processes">> \in Seq(Later) /\ <<"pins_sequential">> \in Seq(Later)
        /\ <<"pins_threaded">> \in Seq(Later)
        /\ <<"pins_sequential", "pins_threaded">> \in Seq(Later)
    BY DEF Later
  <1>3. PinStages(args) \in Seq(Later)
    BY <1>2 DEF PinStages
  <1> QED BY <1>1, <1>3, ConcatProperties

LEMMA PathStagesFirst ==
    ASSUME NEW args \in Flags
    PROVE  LET a == PathStages(args) IN
           /\ a \in Seq(Stages) /\ Len(a) \in 1..2
           /\ Len(a) = 2 => a[1] = "paths_sequential" /\ a[2] = "paths_threaded"
  <1>1. \/ PathStages(args) = <<"paths_sequential">>
        \/ PathStages(args) = <<"paths_threaded">>
        \/ PathStages(args) = <<"paths_sequential", "paths_threaded">>
    BY DEF PathStages
  <1>2. /\ <<"paths_sequential">> \in Seq(Stages) /\ <<"paths_threaded">> \in Seq(Stages)
        /\ <<"paths_sequential", "paths_threaded">> \in Seq(Stages)
    BY DEF Stages
  <1>3. CASE PathStages(args) = <<"paths_sequential">>
    BY <1>2, <1>3
  <1>4. CASE PathStages(args) = <<"paths_threaded">>
    BY <1>2, <1>4
  <1>5. CASE PathStages(args) = <<"paths_sequential", "paths_threaded">>
    BY <1>2, <1>5
  <1> QED BY <1>1, <1>3, <1>4, <1>5

LEMMA JoinInOrder ==
    ASSUME NEW a \in Seq(Stages), NEW b \in Seq(Later), Len(a) \in 0..2,
           Len(a) = 2 => a[1] = "paths_sequential" /\ a[2] = "paths_threaded"
    PROVE  InOrder(a \o b)
  <1>1. a \o b \in Seq(Stages) /\ Len(a \o b) = Len(a) + Len(b)
    <2>1. b \in Seq(Stages)
      BY DEF Later, Stages
    <2> QED BY <2>1, ConcatProperties
  <1>2. ASSUME NEW i \in 2..Len(a \o b)
        PROVE  /\ (a \o b)[i] # "paths_sequential"
               /\ (a \o b)[i] = "paths_threaded" => i = 2 /\ (a \o b)[1] = "paths_sequential"
    <2>1. CASE i <= Len(a)
      <3>1. Len(a) = 2 /\ i = 2 /\ (a \o b)[2] = a[2] /\ (a \o b)[1] = a[1]
        BY <2>1, <1>1, ConcatProperties, SMTT(20)
      <3> QED BY <3>1
    <2>2. CASE i > Len(a)
      <3>1. (a \o b)[i] = b[i - Len(a)] /\ i - Len(a) \in 1..Len(b)
        BY <1>1, <2>2, ConcatProperties
      <3>2. b[i - Len(a)] \in Later
        BY <3>1
      <3> QED BY <3>1, <3>2 DEF Later
    <2> QED BY <1>1, <2>1, <2>2
  <1> QED BY <1>1, <1>2 DEF InOrder

LEMMA PlanInOrder ==
    ASSUME NEW args \in Flags
    PROVE  InOrder(Plan(args))
  <1> DEFINE a == IF args.p1 \/ ~args.p2 THEN PathStages(args) ELSE <<>>
             b == IF args.p2 \/ ~args.p1 THEN <<"load_mines">> \o PinStages(args) ELSE <<>>
  <1>1. /\ a \in Seq(Stages) /\ Len(a) \in 0..2
        /\ Len(a) = 2 => a[1] = "paths_sequential" /\ a[2] = "paths_threaded"
    BY PathStagesFirst
  <1>2. b \in Seq(Later)
    BY PinStagesLater
  <1>3. InOrder(a \o b)
    BY <1>1, <1>2, JoinInOrder
  <1> QED BY <1>3 DEF Plan

LEMMA TailInOrder ==
    ASSUME NEW stages, InOrder(stages), stages # <<>>
    PROVE  /\ InOrder(Tail(stages))
           /\ Tail(stages) # <<>> => /\ Tail(stages)[1] # "paths_sequential"
                                     /\ Tail(stages)[1] = "paths_threaded" =>
                                          stages[1] = "paths_sequential"
  <1>1. /\ stages \in Seq(Stages) /\ Tail(stages) \in Seq(Stages)
        /\ Len(stages) \in Nat \ {0} /\ Len(Tail(stages)) = Len(stages) - 1
        /\ \A i \in 1..Len(Tail(stages)) : Tail(stages)[i] = stages[i + 1]
    BY DEF InOrder
  <1>2. ASSUME NEW i \in 1..Len(Tail(stages))
        PROVE  /\ Tail(stages)[i] # "paths_sequential"
               /\ Tail(stages)[i] = "paths_threaded" => i = 1 /\ stages[1] = "paths_sequential"
    <2>1. i + 1 \in 2..Len(stages) /\ Tail(stages)[i] = stages[i + 1]
      BY <1>1
    <2> QED BY <1>1, <2>1 DEF InOrder
  <1>3. InOrder(Tail(stages))
    BY <1>1, <1>2 DEF InOrder
  <1>4. Tail(stages) # <<>> => 1 \in 1..Len(Tail(stages))
    BY <1>1
  <1> QED BY <1>2, <1>3, <1>4

-----------------------------------------------------------------------------
(* The steps of main outside part 1, and those of users and kills.           *)

LEMMA InitInv == Init => Inv
  <1> SUFFICES ASSUME Init PROVE Inv
    OBVIOUS
  <1>1. todo = <<>> /\ phase = "begin" /\ known = {} /\ opts = NoOpts
    BY DEF Init, CacheInit
  <1>2. MainOK /\ ~Paths
    <2>1. Len(<<>>) = 0 /\ <<>> \in Seq(Stages)
      BY EmptySeq
    <2> QED BY <1>1, <2>1 DEF MainOK, InOrder, Paths, Doing
  <1>3. pc = [r \in RoverIds |-> "off"] /\ fetched = [r \in RoverIds |-> 0]
    BY DEF Init, CacheInit
  <1>4. ThreadsOK
    BY <1>3 DEF ThreadsOK, PC
  <1>5. file.state = "absent" /\ DOMAIN file.entries = {}
    BY DEF Init, CacheInit, NoEntries
  <1>6. FileKnown /\ EntriesKept
    BY <1>1, <1>5 DEF FileKnown, EntriesKept
  <1>7. CacheHolds /\ Cached /\ DictSaved /\ AskedFound
    BY <1>1, <1>2, <1>3 DEF CacheHolds, Cached, DictSaved, AskedFound, Running, Thrifty, NoOpts
  <1> QED BY <1>2, <1>4, <1>6, <1>7 DEF Inv

\* When all threads are off, the disk is as it was and main is not in part 1 or
\* only about to begin it, little can go wrong.
LEMMA IdleInv ==
    ASSUME Inv, MainOK', ~Running',
           file' = file, known' = known, pc' = [r \in RoverIds |-> "off"],
           fetched' \in [RoverIds -> Nat],
           todo' = <<>> => \A r \in RoverIds : fetched'[r] = 0,
           Paths' /\ phase' = "begin" /\ Thrifty' /\ file.state # "torn" =>
               \A r \in RoverIds : fetched'[r] # 0 => r \in DOMAIN file.entries
    PROVE  Inv'
  <1>1. ThreadsOK'
    BY DEF ThreadsOK, PC
  <1>2. FileKnown' /\ EntriesKept'
    BY DEF Inv, FileKnown, EntriesKept
  <1>3. CacheHolds' /\ Cached' /\ DictSaved'
    BY DEF CacheHolds, Cached, DictSaved
  <1>4. AskedFound'
    BY DEF AskedFound
  <1> QED BY <1>1, <1>2, <1>3, <1>4 DEF Inv

LEMMA StartInv == Inv /\ Start => Inv'
  <1> SUFFICES ASSUME Inv, Start PROVE Inv'
    OBVIOUS
  <1>1. todo = <<>> /\ ~Paths /\ ~Pins
    BY DEF Start, Paths, Pins, Doing
  <1>2. phase = "begin"
    BY <1>1 DEF Inv, MainOK
  <1>3. MainOK' /\ ~Running'
    <2>1. InOrder(todo')
      BY PlanInOrder DEF Start
    <2>2. phase' = "begin"
      BY <1>2 DEF Start
    <2> QED BY <2>1, <2>2 DEF MainOK, Running
  <1>4. pc' = [r \in RoverIds |-> "off"]
    BY <1>1 DEF Inv, ThreadsOK, Running, Start, threads
  <1>5. fetched' \in [RoverIds -> Nat] /\ \A r \in RoverIds : fetched'[r] = 0
    BY <1>1 DEF Inv, ThreadsOK, Start
  <1>6. file' = file /\ known' = known
    BY DEF Start, disk
  <1> QED BY <1>3, <1>4, <1>5, <1>6, IdleInv

LEMMA GoneInv == Inv /\ Gone => Inv'
  <1> SUFFICES ASSUME Inv, Gone PROVE Inv'
    OBVIOUS
  <1>1. todo' = <<>> /\ phase' = "begin"
    BY DEF Gone
  <1>2. MainOK' /\ ~Running' /\ ~Paths'
    <2>1. Len(<<>>) = 0 /\ <<>> \in Seq(Stages)
      BY EmptySeq
    <2> QED BY <1>1, <2>1 DEF MainOK, InOrder, Running, Paths, Doing
  <1>3. pc' = [r \in RoverIds |-> "off"] /\ fetched' = [r \in RoverIds |-> 0]
    BY DEF Gone, Over, ForgetPart1
  <1>4. file' = file /\ known' = known
    BY DEF Gone, disk
  <1> QED BY <1>2, <1>3, <1>4, IdleInv

LEMMA RemoveInv == Inv /\ RemoveCache => Inv'
  <1> SUFFICES ASSUME Inv, RemoveCache PROVE Inv'
    OBVIOUS
  <1>1. todo' = todo /\ phase' = phase /\ pc' = pc /\ fetched' = fetched /\ opts' = opts
    BY DEF RemoveCache, threads
  <1>2. todo = <<>> /\ ~Paths /\ ~Running /\ ~Paths' /\ ~Running'
    BY <1>1 DEF RemoveCache, Paths, Running, Doing
  <1>3. MainOK' /\ ThreadsOK'
    BY <1>1, <1>2 DEF Inv, MainOK, ThreadsOK, Paths, Pins, Doing
  <1>4. FileKnown' /\ EntriesKept'
    BY DEF RemoveCache, FileKnown, EntriesKept, NoEntries
  <1>5. \A r \in RoverIds : pc[r] = "off"
    BY <1>2 DEF Inv, ThreadsOK
  <1>6. CacheHolds' /\ Cached' /\ DictSaved' /\ AskedFound'
    BY <1>1, <1>2, <1>5 DEF CacheHolds, Cached, DictSaved, AskedFound
  <1> QED BY <1>3, <1>4, <1>6 DEF Inv

\* A stage that returns leaves main in order; of the stages of part 1 only the
\* second comes after another.
LEMMA ReturnOrder ==
    ASSUME Inv, Return, todo # <<>>
    PROVE  /\ MainOK' /\ ~Running'
           /\ Paths' => Doing("paths_sequential") /\ opts' = opts
           /\ fetched' \in [RoverIds -> Nat]
           /\ todo' = <<>> => \A r \in RoverIds : fetched'[r] = 0
           /\ fetched' = fetched \/ todo' = <<>>
  <1>1. InOrder(todo)
    BY DEF Inv, MainOK
  <1>2. todo' = Tail(todo) /\ phase' = "begin"
    BY DEF Return
  <1>3. /\ InOrder(todo')
        /\ todo' # <<>> => /\ todo'[1] # "paths_sequential"
                           /\ todo'[1] = "paths_threaded" => todo[1] = "paths_sequential"
    BY <1>1, <1>2, TailInOrder
  <1>4. MainOK' /\ ~Running'
    BY <1>2, <1>3 DEF MainOK, Running
  <1>5. Paths' => Doing("paths_sequential") /\ opts' = opts
    BY <1>2, <1>3 DEF Paths, Doing, Return
  <1>6. /\ fetched' \in [RoverIds -> Nat]
        /\ todo' = <<>> => \A r \in RoverIds : fetched'[r] = 0
        /\ fetched' = fetched \/ todo' = <<>>
    <2>1. fetched \in [RoverIds -> Nat]
      BY DEF Inv, ThreadsOK
    <2>2. CASE Tail(todo) = <<>>
      BY <1>2, <2>2 DEF Return, Over
    <2>3. CASE Tail(todo) # <<>>
      BY <1>2, <2>1, <2>3 DEF Return
    <2> QED BY <2>2, <2>3
  <1> QED BY <1>4, <1>5, <1>6

LEMMA Part2Inv ==
    Inv /\ (LoadMines \/ BeginPart2 \/ OpenPins \/ WritePins
             \/ \E w \in WorkerIds : RunWorker(w)) => Inv'
  <1> SUFFICES ASSUME Inv, LoadMines \/ BeginPart2 \/ OpenPins \/ WritePins
                           \/ \E w \in WorkerIds : RunWorker(w)
               PROVE  Inv'
    OBVIOUS
  <1>1. todo # <<>> /\ ~Paths
    BY DEF LoadMines, BeginPart2, OpenPins, WritePins, RunWorker, Pins, Paths, Doing
  <1>2. \A r \in RoverIds : pc[r] = "off"
    BY <1>1 DEF Inv, ThreadsOK, Running
  <1>3. pc' = pc /\ file' = file /\ known' = known
    BY DEF LoadMines, BeginPart2, OpenPins, WritePins, RunWorker, part1, control, disk, threads
  <1>4. pc' = [r \in RoverIds |-> "off"]
    BY <1>2, <1>3 DEF Inv, ThreadsOK
  <1>5. CASE LoadMines \/ WritePins
    <2>1. Return
      BY <1>5 DEF LoadMines, WritePins
    <2>2. ~Paths'
      BY <1>1, <2>1, ReturnOrder DEF Paths
    <2> QED BY <1>1, <1>3, <1>4, <2>1, <2>2, ReturnOrder, IdleInv
  <1>6. CASE BeginPart2 \/ OpenPins \/ \E w \in WorkerIds : RunWorker(w)
    <2>1. todo' = todo /\ fetched' = fetched
      BY <1>6 DEF BeginPart2, OpenPins, RunWorker, part1, control
    <2>2. ~Paths' /\ ~Running'
      BY <1>1, <2>1 DEF Paths, Running, Doing
    <2>3. Pins /\ phase' \in {"run", "write"}
      BY <1>6 DEF BeginPart2, OpenPins, RunWorker, Phase, control
    <2>4. MainOK'
      BY <2>1, <2>3 DEF Inv, MainOK, Paths, Pins, Doing
    <2> QED BY <1>1, <1>3, <1>4, <2>1, <2>2, <2>4, IdleInv DEF Inv, ThreadsOK
  <1> QED BY <1>5, <1>6

-----------------------------------------------------------------------------
(* The steps of part 1.                                                      *)

LEMMA BeginPart1Inv == Inv /\ BeginPart1 => Inv'
  <1> SUFFICES ASSUME Inv, BeginPart1 PROVE Inv'
    OBVIOUS
  <1>1. /\ Paths /\ phase = "begin" /\ phase' = "run" /\ todo' = todo /\ opts' = opts
        /\ ~(opts.cache /\ file.state = "torn")
        /\ cache' = IF opts.cache THEN file.entries ELSE NoEntries
        /\ pc' = [r \in RoverIds |-> "new"]
        /\ fetched' = fetched /\ file' = file /\ known' = known
    BY DEF BeginPart1, load_cache, Phase, disk
  <1>2. Paths' /\ Running'
    BY <1>1 DEF Paths, Running, Doing
  <1>3. MainOK' /\ todo' # <<>>
    BY <1>1, <1>2 DEF Inv, MainOK, Paths, Doing
  <1>4. ThreadsOK'
    BY <1>1, <1>2, <1>3 DEF Inv, ThreadsOK, PC
  <1>5. FileKnown' /\ EntriesKept'
    BY <1>1 DEF Inv, FileKnown, EntriesKept
  <1>6. CacheHolds'
    BY <1>1 DEF Inv, FileKnown, EntriesKept, CacheHolds
  <1>7. Cached' /\ DictSaved'
    BY <1>1 DEF Cached, DictSaved
  <1>8. AskedFound'
    BY <1>1 DEF Inv, AskedFound, Thrifty
  <1> QED BY <1>3, <1>4, <1>5, <1>6, <1>7, <1>8 DEF Inv

LEMMA EndPart1Inv == Inv /\ EndPart1 => Inv'
  <1> SUFFICES ASSUME Inv, EndPart1 PROVE Inv'
    OBVIOUS
  <1>1. /\ Paths /\ phase = "run" /\ Return
        /\ pc' = [r \in RoverIds |-> "off"]
        /\ file' = file /\ known' = known
    BY DEF EndPart1, ForgetPart1, disk
  <1>2. todo # <<>> /\ Running
    BY <1>1 DEF Paths, Doing, Running
  <1>3. ASSUME Paths', Thrifty'
        PROVE  \A r \in RoverIds : r \in DOMAIN file.entries
    <2>1. Doing("paths_sequential") /\ opts.cache
      BY <1>1, <1>2, <1>3, ReturnOrder DEF Thrifty
    <2>2. \A r \in RoverIds : pc[r] = "done"
      BY <2>1 DEF EndPart1, AllDone
    <2>3. \A r \in RoverIds : r \in DOMAIN cache
      BY <1>2, <2>1, <2>2 DEF Inv, Cached
    <2>4. DOMAIN cache \subseteq DOMAIN file.entries
      BY <1>2, <2>1, <2>2 DEF Inv, DictSaved
    <2> QED BY <2>3, <2>4
  <1> QED BY <1>1, <1>2, <1>3, ReturnOrder, IdleInv

\* What a step of one rover leaves as it was.
LEMMA RoverStep ==
    ASSUME Inv, NEW r \in RoverIds, RunRover(r)
    PROVE  /\ Running /\ Running' /\ MainOK' /\ todo # <<>>
           /\ todo' = todo /\ phase' = phase /\ opts' = opts
           /\ file' = file => known' = known
           /\ Remember
  <1>1. Paths /\ phase = "run" /\ todo' = todo /\ phase' = phase /\ Remember
    BY DEF RunRover
  <1>2. opts' = opts
    BY DEF RunRover, LookUp, run_part1_one, get_rover_commands, write_path_file, Fetch,
           FetchFails, OpenCache, OpenFails, DumpCache, DumpFails, OpenPath, WritePath, PathFails
  <1>3. Running /\ Running' /\ MainOK' /\ todo # <<>>
    BY <1>1 DEF Inv, MainOK, Running, Paths, Pins, Doing
  <1>4. file' = file => known' = known
    BY <1>1 DEF Inv, FileKnown, Remember
  <1> QED BY <1>1, <1>2, <1>3, <1>4

\* A step that puts r elsewhere and touches neither the dict nor the file.
LEMMA QuietStep ==
    ASSUME Inv, NEW r \in RoverIds, RunRover(r), NEW to \in PC \ {"off", "saving"},
           pc' = [pc EXCEPT ![r] = to], cache' = cache, file' = file,
           pc[r] # "failed", pc[r] = "saving" => to = "failed",
           opts.cache /\ to \in {"walk", "writing", "done"} => r \in DOMAIN cache,
           to = "update" => opts.cache,
           to \in {"fetch", "new"} => fetched' = fetched,
           Thrifty /\ to = "fetch" => fetched[r] = 0 /\ r \notin DOMAIN cache,
           to # "new",
           fetched' \in [RoverIds -> Nat],
           \A q \in RoverIds : q # r => fetched'[q] = fetched[q]
    PROVE  Inv'
  <1>1. /\ Running /\ Running' /\ MainOK' /\ todo # <<>> /\ todo' = todo /\ phase' = phase
        /\ opts' = opts /\ known' = known
    BY RoverStep
  <1>2. pc \in [RoverIds -> PC] /\ pc'[r] = to /\ \A q \in RoverIds : q # r => pc'[q] = pc[q]
    BY DEF Inv, ThreadsOK
  <1>3. ThreadsOK'
    BY <1>1, <1>2 DEF Inv, ThreadsOK
  <1>4. FileKnown' /\ EntriesKept' /\ CacheHolds'
    BY <1>1 DEF Inv, FileKnown, EntriesKept, CacheHolds
  <1>5. Cached'
    BY <1>1, <1>2 DEF Inv, Cached
  <1>6. DictSaved'
    BY <1>1, <1>2 DEF Inv, DictSaved
  <1>7. AskedFound'
    BY <1>1, <1>2 DEF Inv, AskedFound, Thrifty, Running
  <1> QED BY <1>1, <1>3, <1>4, <1>5, <1>6, <1>7 DEF Inv

LEMMA OpenInv ==
    ASSUME Inv, NEW r \in RoverIds, RunRover(r), OpenCache(r) \/ OpenFails(r)
    PROVE  Inv'
  <1>1. /\ Running /\ Running' /\ MainOK' /\ todo # <<>> /\ todo' = todo /\ phase' = phase
        /\ opts' = opts /\ (file' = file => known' = known) /\ Remember
    BY RoverStep
  <1>2. PICK to \in {"saving", "failed"} : pc[r] = "update" /\ pc' = [pc EXCEPT ![r] = to]
    BY DEF OpenCache, OpenFails, Goto
  <1>3. /\ pc \in [RoverIds -> PC] /\ pc'[r] = to /\ \A q \in RoverIds : q # r => pc'[q] = pc[q]
        /\ opts.cache
    BY <1>2 DEF Inv, ThreadsOK
  <1>4. DOMAIN cache' = DOMAIN cache \cup {r} /\ fetched' = fetched
    BY DEF OpenCache, OpenFails, Stored
  <1>5. ThreadsOK'
    BY <1>1, <1>2, <1>3, <1>4 DEF Inv, ThreadsOK, PC, Ended
  <1>6. FileKnown' /\ EntriesKept' /\ known' = known
    <2>1. CASE OpenCache(r)
      <3>1. file'.state = "torn" /\ DOMAIN file'.entries = {}
        BY <2>1 DEF OpenCache, NoEntries
      <3>2. known' = known
        BY <1>1, <3>1 DEF Remember
      <3> QED BY <3>1, <3>2 DEF FileKnown, EntriesKept
    <2>2. CASE OpenFails(r)
      <3>1. file' = file /\ known' = known
        BY <1>1, <2>2 DEF OpenFails, disk
      <3> QED BY <3>1 DEF Inv, FileKnown, EntriesKept
    <2> QED BY <2>1, <2>2
  <1>7. CacheHolds' /\ Cached'
    BY <1>1, <1>3, <1>4, <1>6 DEF Inv, CacheHolds, Cached
  <1>8. DictSaved'
    BY <1>3 DEF DictSaved
  <1>9. AskedFound'
    BY <1>1, <1>3, <1>4 DEF Inv, AskedFound, Thrifty, Running
  <1> QED BY <1>1, <1>5, <1>6, <1>7, <1>8, <1>9 DEF Inv

LEMMA DumpInv ==
    ASSUME Inv, NEW r \in RoverIds, RunRover(r), DumpCache(r)
    PROVE  Inv'
  <1>1. /\ Running /\ Running' /\ MainOK' /\ todo # <<>> /\ todo' = todo /\ phase' = phase
        /\ opts' = opts /\ Remember
    BY RoverStep
  <1>2. /\ pc[r] = "saving" /\ pc' = [pc EXCEPT ![r] = "walk"]
        /\ file'.state = "whole" /\ file'.entries = cache /\ cache' = cache /\ fetched' = fetched
    BY DEF DumpCache, Goto
  <1>3. /\ pc \in [RoverIds -> PC] /\ pc'[r] = "walk"
        /\ \A q \in RoverIds : q # r => pc'[q] = pc[q]
        /\ opts.cache /\ r \in DOMAIN cache
    BY <1>1, <1>2 DEF Inv, ThreadsOK, Cached
  <1>4. known' = DOMAIN cache
    BY <1>1, <1>2, <1>3 DEF Remember, Inv, CacheHolds
  <1>5. ThreadsOK'
    BY <1>1, <1>2, <1>3 DEF Inv, ThreadsOK, PC
  <1>6. FileKnown' /\ EntriesKept' /\ CacheHolds' /\ DictSaved'
    BY <1>2, <1>4 DEF FileKnown, EntriesKept, CacheHolds, DictSaved
  <1>7. Cached'
    BY <1>1, <1>2, <1>3 DEF Inv, Cached
  <1>8. AskedFound'
    BY <1>1, <1>2, <1>3 DEF Inv, AskedFound, Thrifty, Running
  <1> QED BY <1>1, <1>5, <1>6, <1>7, <1>8 DEF Inv

LEMMA RunRoverInv ==
    ASSUME Inv, NEW r \in RoverIds, RunRover(r)
    PROVE  Inv'
  <1>1. /\ Running /\ pc \in [RoverIds -> PC] /\ fetched \in [RoverIds -> Nat]
        /\ pc[r] \in {"update", "saving"} => opts.cache
    BY RoverStep DEF Inv, ThreadsOK
  <1>2. CASE LookUp(r)
    <2>1. /\ pc[r] = "new" /\ cache' = cache /\ file' = file /\ fetched' = fetched
      BY <1>2 DEF LookUp, Goto, disk
    <2>2. CASE Thrifty /\ r \in DOMAIN cache
      <3>1. pc' = [pc EXCEPT ![r] = "walk"]
        BY <1>2, <2>2 DEF LookUp, Goto, Thrifty
      <3> QED BY <1>1, <2>1, <2>2, <3>1, QuietStep DEF PC, Ended
    <2>3. CASE ~(Thrifty /\ r \in DOMAIN cache)
      <3>1. pc' = [pc EXCEPT ![r] = "fetch"]
        BY <1>2, <2>3 DEF LookUp, Goto, Thrifty
      <3>2. Thrifty => fetched[r] = 0 /\ r \notin DOMAIN cache
        BY <2>1, <2>3 DEF Inv, AskedFound
      <3> QED BY <1>1, <2>1, <3>1, <3>2, QuietStep DEF PC, Ended
    <2> QED BY <2>2, <2>3
  <1>3. CASE Fetch(r) \/ FetchFails(r)
    <2>1. /\ pc[r] = "fetch" /\ cache' = cache /\ file' = file
          /\ fetched' = [fetched EXCEPT ![r] = @ + 1]
      BY <1>3 DEF Fetch, FetchFails, Goto, disk
    <2>2. /\ fetched' \in [RoverIds -> Nat]
          /\ \A q \in RoverIds : q # r => fetched'[q] = fetched[q]
      BY <1>1, <2>1
    <2>3. PICK to \in {"update", "walk", "failed"} :
              /\ pc' = [pc EXCEPT ![r] = to]
              /\ to = "update" => opts.cache
              /\ to = "walk" => ~opts.cache
      BY <1>3 DEF Fetch, FetchFails, Goto
    <2> QED BY <2>1, <2>2, <2>3, QuietStep DEF PC, Ended
  <1>4. CASE OpenCache(r) \/ OpenFails(r)
    BY <1>4, OpenInv
  <1>5. CASE DumpCache(r)
    BY <1>5, DumpInv
  <1>6. CASE DumpFails(r) \/ PathFails(r)
    <2>1. /\ pc[r] \in {"saving", "walk", "writing"} /\ pc' = [pc EXCEPT ![r] = "failed"]
          /\ cache' = cache /\ file' = file /\ fetched' = fetched
      BY <1>6 DEF DumpFails, PathFails, Goto, disk
    <2> QED BY <1>1, <2>1, QuietStep DEF PC, Ended
  <1>7. CASE OpenPath(r) \/ WritePath(r)
    <2>1. PICK to \in {"writing", "done"} :
              /\ pc[r] \in {"walk", "writing"} /\ pc' = [pc EXCEPT ![r] = to]
              /\ cache' = cache /\ file' = file /\ fetched' = fetched
      BY <1>7 DEF OpenPath, WritePath, Goto
    <2>2. opts.cache => r \in DOMAIN cache
      BY <1>1, <2>1 DEF Inv, Cached
    <2> QED BY <1>1, <2>1, <2>2, QuietStep DEF PC, Ended
  <1> QED BY <1>2, <1>3, <1>4, <1>5, <1>6, <1>7
       DEF RunRover, run_part1_one, get_rover_commands, write_path_file

\* All steps.
LEMMA NextInv == Inv /\ [Next]_vars => Inv'
  <1> SUFFICES ASSUME Inv, [Next]_vars PROVE Inv'
    OBVIOUS
  <1>1. CASE Raise \/ Die
    BY <1>1, GoneInv DEF Raise, Die
  <1>2. CASE \E r \in RoverIds : RunRover(r)
    BY <1>2, RunRoverInv
  <1>3. CASE UNCHANGED vars
    BY <1>3 DEF vars, Inv, MainOK, ThreadsOK, FileKnown, EntriesKept, CacheHolds, Cached,
                DictSaved, AskedFound, Running, Paths, Pins, Doing, Thrifty
  <1> QED BY <1>1, <1>2, <1>3, StartInv, RemoveInv, Part2Inv, BeginPart1Inv, EndPart1Inv
       DEF Next, program, main

LEMMA Invariance == Spec => []Inv
  <1> QED BY InitInv, NextInv, PTL DEF Spec

-----------------------------------------------------------------------------
(* The walk of a rover.                                                      *)

LEMMA ProgramsTyped == \A c \in Programs : c \in Seq(Letters)
  <1> SUFFICES ASSUME NEW raw \in Answers PROVE normalize_commands(raw) \in Seq(Letters)
    BY DEF Programs
  <1>1. raw \in Seq(STRING)
    BY CacheAssumption
  <1>2. \A i \in 1..Len(raw) : i \in {j \in DOMAIN raw : raw[j] \in Letters} => raw[i] \in Letters
    OBVIOUS
  <1>3. Kept(raw, {j \in DOMAIN raw : raw[j] \in Letters}) \in Seq(Letters)
    <2> DEFINE K == {j \in DOMAIN raw : raw[j] \in Letters}
    <2> HIDE DEF K
    <2>1. \A i \in 1..Len(raw) : i \in K => raw[i] \in Letters
      BY <1>2 DEF K
    <2>2. Kept(raw, K) \in Seq(Letters)
      BY <1>1, <2>1, KeptIn
    <2> QED BY <2>2 DEF K
  <1> QED BY <1>3 DEF normalize_commands

Headings == 0..3

Walkers == [at : Cells, dir : Headings, grid : SUBSET Mined, visited : SUBSET Cells,
            on_armed_mine : BOOLEAN, exploded : BOOLEAN]

Poses == [at : Cells, dir : Headings]

\* Course's step.
Passed(p, ch) ==
    LET there == Ahead(p.at, p.dir)
    IN  CASE ch = "M" -> Pose(IF there \in Cells THEN there ELSE p.at, p.dir)
          [] ch = "D" -> p
          [] OTHER -> Pose(p.at, Turned(p.dir, ch))

LEMMA TurnedHeading == ASSUME NEW d \in Headings, NEW ch PROVE Turned(d, ch) \in Headings
  BY DEF Headings, Turned, turn_left, turn_right

LEMMA LandedWalks == Landed \in Walkers /\ Pose(<<0, 0>>, 2) \in Poses /\ Landed.at = <<0, 0>>
  <1>1. <<0, 0>> \in Cells
    BY CacheAssumption DEF Cells
  <1> QED BY <1>1 DEF Landed, Walkers, Headings, Poses, Pose

LEMMA ObeyWalks ==
    ASSUME NEW s \in Walkers, NEW ch \in Letters
    PROVE  Obey(s, ch) \in Walkers
  <1>1. PICK there : there = Ahead(s.at, s.dir)
    OBVIOUS
  <1>2. Turned(s.dir, ch) \in Headings
    BY TurnedHeading DEF Walkers
  <1>3. ASSUME there \in Cells PROVE Advance(s, there) \in Walkers
    <2>1. PICK armed : armed = (there \in s.grid)
      OBVIOUS
    <2>2. armed \in BOOLEAN
      BY <2>1
    <2>3. [s EXCEPT !.at = there, !.visited = @ \cup {there}, !.on_armed_mine = armed] \in Walkers
      BY <1>3, <2>2 DEF Walkers
    <2> QED BY <2>1, <2>3 DEF Advance
  <1>4. [s EXCEPT !.grid = @ \ {s.at}, !.on_armed_mine = FALSE] \in Walkers
    BY DEF Walkers
  <1>5. [s EXCEPT !.exploded = TRUE] \in Walkers
    BY DEF Walkers
  <1>6. [s EXCEPT !.dir = Turned(@, ch)] \in Walkers
    BY <1>2 DEF Walkers
  <1> HIDE DEF Walkers
  <1> QED BY <1>1, <1>3, <1>4, <1>5, <1>6 DEF Obey

LEMMA PassedPoses ==
    ASSUME NEW p \in Poses, NEW ch \in Letters
    PROVE  Passed(p, ch) \in Poses
  <1>1. PICK there : there = Ahead(p.at, p.dir)
    OBVIOUS
  <1>2. Turned(p.dir, ch) \in Headings
    BY TurnedHeading DEF Poses
  <1>3. Pose(IF there \in Cells THEN there ELSE p.at, p.dir) \in Poses
    BY DEF Pose, Poses
  <1>4. Pose(p.at, Turned(p.dir, ch)) \in Poses
    BY <1>2 DEF Pose, Poses
  <1> QED BY <1>1, <1>3, <1>4 DEF Passed

\* What the recursions of simulate_rover and Course compute.
WalkIs(c, f) ==
    /\ f \in [0..Len(c) -> Walkers] /\ f[0] = Landed
    /\ \A k \in 1..Len(c) : f[k] = Obey(f[k - 1], c[k])

LEMMA WalkSteps ==
    ASSUME NEW c \in Seq(Letters)
    PROVE  \E f : WalkIs(c, f) /\ simulate_rover(c) = f[Len(c)]
  <1>1. PICK n \in Nat : n = Len(c)
    OBVIOUS
  <1>2. PICK base \in Walkers : base = Landed
    BY LandedWalks
  <1>3. PICK step \in [Nat \X Walkers -> Walkers] :
          \A k \in 1..n, s \in Walkers : step[<<k, s>>] = Obey(s, c[k])
    <2> DEFINE t == [ks \in Nat \X Walkers |->
                       IF ks[1] \in 1..n THEN Obey(ks[2], c[ks[1]]) ELSE ks[2]]
    <2>0. \A k \in 1..n : c[k] \in Letters
      BY <1>1
    <2> HIDE DEF Walkers
    <2>1. t \in [Nat \X Walkers -> Walkers]
      BY <2>0, ObeyWalks
    <2>2. \A k \in 1..n, s \in Walkers : t[<<k, s>>] = Obey(s, c[k])
      OBVIOUS
    <2> HIDE DEF t
    <2> QED BY <2>1, <2>2
  <1> HIDE DEF Walkers
  <1>4. PICK g \in [0..n -> Walkers] : g[0] = base /\ \A k \in 1..n : g[k] = step[<<k, g[k - 1]>>]
    <2>1. \E g : Runs(g, n, Walkers, base, step)
      BY LoopStates
    <2> QED BY <2>1 DEF Runs
  <1> DEFINE F(f) == [k \in 0..n |-> IF k = 0 THEN Landed ELSE Obey(f[k - 1], c[k])]
             after == CHOOSE after : after = F(after)
  <1>5. g = F(g)
    <2>1. ASSUME NEW k \in 1..n PROVE g[k] = Obey(g[k - 1], c[k])
      <3>1. k - 1 \in 0..n
        OBVIOUS
      <3>2. g[k - 1] \in Walkers
        BY <3>1
      <3> QED BY <1>3, <1>4, <3>1, <3>2
    <2>2. \A k \in 0..n : k = 0 \/ k \in 1..n
      OBVIOUS
    <2> QED BY <1>2, <1>4, <2>1, <2>2
  <1> HIDE DEF F
  <1>6. after = F(after)
    BY <1>5
  <1>7. simulate_rover(c) = after[n]
    BY <1>1 DEF simulate_rover, F
  <1> HIDE DEF after
  <1>8. PICK f : f = after /\ f = F(f)
    BY <1>6
  <1>9. f[0] = base /\ \A k \in 1..n : f[k] = Obey(f[k - 1], c[k])
    BY <1>2, <1>8 DEF F
  <1>10. \A k \in 0..n : f[k] \in Walkers
    <2>1. ASSUME NEW k \in 1..n, f[k - 1] \in Walkers PROVE f[k] \in Walkers
      <3>1. c[k] \in Letters
        BY <1>1
      <3> QED BY <1>9, <2>1, <3>1, ObeyWalks
    <2> QED BY <1>9, <2>1, LoopInvariant
  <1>11. f \in [0..n -> Walkers]
    BY <1>8, <1>10 DEF F
  <1>12. WalkIs(c, f)
    BY <1>1, <1>2, <1>9, <1>11 DEF WalkIs
  <1> QED BY <1>1, <1>7, <1>8, <1>12

CourseIs(c, q) ==
    /\ q \in [0..Len(c) -> Poses] /\ q[0] = Pose(<<0, 0>>, 2)
    /\ \A k \in 1..Len(c) : q[k] = Passed(q[k - 1], c[k])

LEMMA CourseSteps ==
    ASSUME NEW c \in Seq(Letters)
    PROVE  CourseIs(c, Course(c))
  <1>1. PICK n \in Nat : n = Len(c)
    OBVIOUS
  <1>2. PICK base \in Poses : base = Pose(<<0, 0>>, 2)
    BY LandedWalks
  <1>3. PICK step \in [Nat \X Poses -> Poses] :
          \A k \in 1..n, p \in Poses : step[<<k, p>>] = Passed(p, c[k])
    <2> DEFINE t == [kp \in Nat \X Poses |->
                       IF kp[1] \in 1..n THEN Passed(kp[2], c[kp[1]]) ELSE kp[2]]
    <2>0. \A k \in 1..n : c[k] \in Letters
      BY <1>1
    <2> HIDE DEF Poses
    <2>1. t \in [Nat \X Poses -> Poses]
      BY <2>0, PassedPoses
    <2>2. \A k \in 1..n, p \in Poses : t[<<k, p>>] = Passed(p, c[k])
      OBVIOUS
    <2> HIDE DEF t
    <2> QED BY <2>1, <2>2
  <1> HIDE DEF Poses
  <1>4. PICK g \in [0..n -> Poses] : g[0] = base /\ \A k \in 1..n : g[k] = step[<<k, g[k - 1]>>]
    <2>1. \E g : Runs(g, n, Poses, base, step)
      BY LoopStates
    <2> QED BY <2>1 DEF Runs
  <1> DEFINE F(f) == [k \in 0..n |-> IF k = 0 THEN Pose(<<0, 0>>, 2) ELSE Passed(f[k - 1], c[k])]
             pose == CHOOSE pose : pose = F(pose)
  <1>5. g = F(g)
    <2>1. ASSUME NEW k \in 1..n PROVE g[k] = Passed(g[k - 1], c[k])
      <3>1. k - 1 \in 0..n
        OBVIOUS
      <3>2. g[k - 1] \in Poses
        BY <3>1
      <3> QED BY <1>3, <1>4, <3>1, <3>2
    <2>2. \A k \in 0..n : k = 0 \/ k \in 1..n
      OBVIOUS
    <2> QED BY <1>2, <1>4, <2>1, <2>2
  <1> HIDE DEF F
  <1>6. pose = F(pose)
    BY <1>5
  <1>7. Course(c) = pose
    BY <1>1 DEF Course, Passed, F
  <1> HIDE DEF pose
  <1>8. PICK f : f = Course(c) /\ f = F(f)
    BY <1>6, <1>7
  <1>9. f[0] = base /\ \A k \in 1..n : f[k] = Passed(f[k - 1], c[k])
    BY <1>2, <1>8 DEF F
  <1>10. \A k \in 0..n : f[k] \in Poses
    <2>1. ASSUME NEW k \in 1..n, f[k - 1] \in Poses PROVE f[k] \in Poses
      <3>1. c[k] \in Letters
        BY <1>1
      <3> QED BY <1>9, <2>1, <3>1, PassedPoses
    <2> QED BY <1>9, <2>1, LoopInvariant
  <1>11. f \in [0..n -> Poses]
    BY <1>8, <1>10 DEF F
  <1> QED BY <1>1, <1>2, <1>8, <1>9, <1>11 DEF CourseIs

\* The cells that have been disarmed before or with command k, and the places
\* of the course where the rover dies.
Cleared(c, q, k) == {q[i].at : i \in {j \in 1..k : c[j] = "D"}}

Stops(c, q) ==
    {k \in 0..(Len(c) - 1) : c[k + 1] # "D" /\ q[k].at \in Mined \ Cleared(c, q, k)}

Seen(q, k) == {q[j].at : j \in 0..k}

Alive(c, q, k, s) ==
    /\ s.exploded = FALSE /\ s.at = q[k].at /\ s.dir = q[k].dir
    /\ s.grid = Mined \ Cleared(c, q, k)
    /\ (s.on_armed_mine <=> s.at \in s.grid)
    /\ s.visited = Seen(q, k)

\* The rover follows its course up to the first of these, and no further.
OnTrack(c, q, k, s) ==
    /\ (\A j \in Stops(c, q) : k <= j) => Alive(c, q, k, s)
    /\ \A m \in Stops(c, q) :
         m < k /\ (\A j \in Stops(c, q) : m <= j) => s.exploded /\ s.visited = Seen(q, m)

LEMMA AliveStep ==
    ASSUME NEW c \in Seq(Letters), NEW q, CourseIs(c, q), NEW k \in 1..Len(c),
           NEW s \in Walkers, Alive(c, q, k - 1, s), k - 1 \notin Stops(c, q)
    PROVE  Alive(c, q, k, Obey(s, c[k]))
  <1>1. PICK n \in Nat : n = Len(c)
    OBVIOUS
  <1>2. k \in 1..n /\ k - 1 \in 0..(n - 1) /\ k - 1 \in 0..n /\ (k - 1) + 1 = k /\ c[k] \in Letters
    BY <1>1
  <1>3. PICK p \in Poses : p = q[k - 1]
    BY <1>1, <1>2 DEF CourseIs
  <1>4. q[k] = Passed(p, c[k])
    BY <1>1, <1>2, <1>3 DEF CourseIs
  <1>5. /\ s.exploded = FALSE /\ s.at = p.at /\ s.dir = p.dir
        /\ s.grid = Mined \ Cleared(c, q, k - 1)
        /\ (s.on_armed_mine <=> s.at \in s.grid)
        /\ s.visited = Seen(q, k - 1)
    BY <1>3 DEF Alive
  <1>6. Seen(q, k) = Seen(q, k - 1) \cup {q[k].at}
    <2>1. \A j \in 0..k : j = k \/ j \in 0..(k - 1)
      OBVIOUS
    <2>2. k \in 0..k /\ \A j \in 0..(k - 1) : j \in 0..k
      OBVIOUS
    <2> QED BY <2>1, <2>2 DEF Seen
  <1>7. Cleared(c, q, k) = IF c[k] = "D" THEN Cleared(c, q, k - 1) \cup {q[k].at}
                           ELSE Cleared(c, q, k - 1)
    <2>1. \A j \in 1..k : j = k \/ j \in 1..(k - 1)
      OBVIOUS
    <2>2. k \in 1..k /\ \A j \in 1..(k - 1) : j \in 1..k
      OBVIOUS
    <2> QED BY <2>1, <2>2 DEF Cleared
  <1>8. p.at \in Seen(q, k - 1)
    <2>1. k - 1 \in 0..(k - 1)
      OBVIOUS
    <2> QED BY <1>3, <2>1 DEF Seen
  <1>9. CASE c[k] = "D"
    <2>1. q[k] = p
      BY <1>4, <1>9 DEF Passed
    <2>2. PICK t : t = Obey(s, c[k]) /\ t = [s EXCEPT !.grid = @ \ {s.at}, !.on_armed_mine = FALSE]
      BY <1>5, <1>9 DEF Obey
    <2>3. /\ t.exploded = FALSE /\ t.at = s.at /\ t.dir = s.dir /\ t.visited = s.visited
          /\ t.grid = s.grid \ {s.at} /\ t.on_armed_mine = FALSE
      BY <1>5, <2>2 DEF Walkers
    <2>4. t.visited = Seen(q, k)
      BY <1>5, <1>6, <1>8, <2>1, <2>3
    <2>5. t.grid = Mined \ Cleared(c, q, k)
      BY <1>5, <1>7, <1>9, <2>1, <2>3
    <2>6. t.on_armed_mine <=> t.at \in t.grid
      <3>1. t.on_armed_mine = FALSE /\ ~(t.at \in t.grid)
        BY <2>3
      <3> QED BY <3>1
    <2> QED BY <1>5, <2>1, <2>2, <2>3, <2>4, <2>5, <2>6 DEF Alive
  <1>10. CASE c[k] # "D"
    <2>1. s.at \notin s.grid
      BY <1>1, <1>2, <1>3, <1>5, <1>10 DEF Stops
    <2>2. Cleared(c, q, k) = Cleared(c, q, k - 1)
      BY <1>7, <1>10
    <2>3. PICK there : there = Ahead(p.at, p.dir)
      OBVIOUS
    <2>4. CASE c[k] # "M"
      <3>1. q[k] = Pose(p.at, Turned(p.dir, c[k]))
        BY <1>4, <1>10, <2>4 DEF Passed
      <3>2. q[k].at = p.at /\ q[k].dir = Turned(p.dir, c[k])
        BY <3>1 DEF Pose
      <3>3. PICK t : t = Obey(s, c[k]) /\ t = [s EXCEPT !.dir = Turned(@, c[k])]
        BY <1>5, <1>10, <2>1, <2>4 DEF Obey
      <3>4. /\ t.exploded = FALSE /\ t.at = s.at /\ t.dir = Turned(s.dir, c[k])
            /\ t.visited = s.visited /\ t.grid = s.grid /\ t.on_armed_mine = s.on_armed_mine
        BY <1>5, <3>3 DEF Walkers
      <3>5. t.visited = Seen(q, k)
        BY <1>5, <1>6, <1>8, <3>2, <3>4
      <3> QED BY <1>5, <2>2, <3>2, <3>3, <3>4, <3>5 DEF Alive
    <2>5. CASE c[k] = "M" /\ there \in Cells
      <3>1. q[k] = Pose(there, p.dir)
        BY <1>4, <2>3, <2>5 DEF Passed
      <3>2. q[k].at = there /\ q[k].dir = p.dir
        BY <3>1 DEF Pose
      <3>3. PICK t : t = Obey(s, c[k]) /\ t = Advance(s, there)
        BY <1>5, <2>1, <2>3, <2>5 DEF Obey
      <3>4. /\ t.exploded = FALSE /\ t.at = there /\ t.dir = s.dir
            /\ t.visited = s.visited \cup {there} /\ t.grid = s.grid
            /\ t.on_armed_mine = (there \in s.grid)
        BY <1>5, <3>3 DEF Walkers, Advance
      <3>5. t.visited = Seen(q, k)
        BY <1>5, <1>6, <3>2, <3>4
      <3> QED BY <1>5, <2>2, <3>2, <3>3, <3>4, <3>5 DEF Alive
    <2>6. CASE c[k] = "M" /\ there \notin Cells
      <3>1. q[k] = Pose(p.at, p.dir)
        BY <1>4, <2>3, <2>6 DEF Passed
      <3>2. q[k].at = p.at /\ q[k].dir = p.dir
        BY <3>1 DEF Pose
      <3>3. PICK t : t = Obey(s, c[k]) /\ t = s
        BY <1>5, <2>1, <2>3, <2>6 DEF Obey
      <3>4. t.visited = Seen(q, k)
        BY <1>5, <1>6, <1>8, <3>2, <3>3
      <3> QED BY <1>5, <2>2, <3>2, <3>3, <3>4 DEF Alive
    <2> QED BY <2>4, <2>5, <2>6
  <1> QED BY <1>9, <1>10

LEMMA TrackStep ==
    ASSUME NEW c \in Seq(Letters), NEW q, CourseIs(c, q), NEW k \in 1..Len(c),
           NEW s \in Walkers, OnTrack(c, q, k - 1, s)
    PROVE  OnTrack(c, q, k, Obey(s, c[k]))
  <1>1. PICK n \in Nat : n = Len(c)
    OBVIOUS
  <1>2. PICK St \in SUBSET Nat : St = Stops(c, q)
    <2>1. Stops(c, q) \subseteq 0..(n - 1)
      BY <1>1 DEF Stops
    <2>2. Stops(c, q) \subseteq Nat
      BY <2>1
    <2> QED BY <2>2
  <1>3. k \in Nat /\ k - 1 \in Nat
    OBVIOUS
  <1>4. PICK t : t = Obey(s, c[k])
    OBVIOUS
  <1>5. ASSUME \A j \in St : k <= j PROVE Alive(c, q, k, t)
    <2>1. \A j \in St : k - 1 <= j
      BY <1>3, <1>5
    <2>2. k - 1 \notin St
      BY <1>3, <1>5
    <2>3. Alive(c, q, k - 1, s)
      BY <1>2, <2>1 DEF OnTrack
    <2> QED BY <1>2, <1>4, <2>2, <2>3, AliveStep
  <1>6. ASSUME NEW m \in St, m < k, \A j \in St : m <= j
        PROVE  t.exploded /\ t.visited = Seen(q, m)
    <2>1. CASE m < k - 1
      <3>1. s.exploded /\ s.visited = Seen(q, m)
        BY <1>2, <1>6, <2>1 DEF OnTrack
      <3>2. t = s
        BY <1>4, <3>1 DEF Obey
      <3> QED BY <3>1, <3>2
    <2>2. CASE ~(m < k - 1)
      <3>1. m = k - 1
        BY <1>3, <1>6, <2>2
      <3>2. Alive(c, q, k - 1, s)
        BY <1>2, <1>6, <3>1 DEF OnTrack
      <3>3. c[k] # "D" /\ q[k - 1].at \in Mined \ Cleared(c, q, k - 1)
        BY <1>2, <1>3, <3>1 DEF Stops
      <3>4. s.exploded = FALSE /\ s.on_armed_mine /\ s.visited = Seen(q, k - 1)
        BY <3>2, <3>3 DEF Alive
      <3>5. t = [s EXCEPT !.exploded = TRUE]
        BY <1>4, <3>3, <3>4 DEF Obey
      <3>6. t.exploded /\ t.visited = s.visited
        BY <3>5 DEF Walkers
      <3> QED BY <3>1, <3>4, <3>6
    <2> QED BY <2>1, <2>2
  <1> QED BY <1>2, <1>4, <1>5, <1>6 DEF OnTrack

LEMMA FatalIs ==
    ASSUME NEW c, NEW q, q = Course(c)
    PROVE  Fatal(c) = Stops(c, q)
  BY DEF Fatal, Stops, Cleared

\* The cells that simulate_rover finds are those of the course up to the first
\* mine that is left armed.
LEMMA VisitedIsWalked ==
    ASSUME NEW c \in Seq(Letters)
    PROVE  simulate_rover(c).visited = Walked(c) /\ Walked(c) \subseteq Cells
  <1>1. PICK n \in Nat : n = Len(c)
    OBVIOUS
  <1>2. PICK q : q = Course(c) /\ CourseIs(c, q)
    BY CourseSteps
  <1>3. PICK f : WalkIs(c, f) /\ simulate_rover(c) = f[n]
    BY <1>1, WalkSteps
  <1>4. PICK St \in SUBSET (0..(n - 1)) : St = Stops(c, q) /\ St = Fatal(c)
    BY <1>1, <1>2, FatalIs DEF Stops
  <1>5. OnTrack(c, q, 0, f[0])
    <2>1. \A j \in St : 0 <= j /\ ~(j < 0)
      OBVIOUS
    <2>2. f[0] = Landed /\ q[0].at = <<0, 0>> /\ q[0].dir = 2
      BY <1>2, <1>3 DEF WalkIs, CourseIs, Pose
    <2>3. Seen(q, 0) = {<<0, 0>>}
      <3>1. 0 \in 0..0 /\ \A j \in 0..0 : j = 0
        OBVIOUS
      <3> QED BY <2>2, <3>1 DEF Seen
    <2>4. Cleared(c, q, 0) = {}
      BY DEF Cleared
    <2>5. Alive(c, q, 0, Landed)
      BY <2>2, <2>3, <2>4 DEF Alive, Landed
    <2> QED BY <1>4, <2>1, <2>2, <2>5 DEF OnTrack
  <1>6. ASSUME NEW k \in 1..n, OnTrack(c, q, k - 1, f[k - 1]) PROVE OnTrack(c, q, k, f[k])
    <2>1. k \in 1..Len(c) /\ k - 1 \in 0..Len(c)
      BY <1>1
    <2>2. PICK s \in Walkers : s = f[k - 1] /\ f[k] = Obey(s, c[k])
      BY <1>3, <2>1 DEF WalkIs
    <2> QED BY <1>2, <1>6, <2>1, <2>2, TrackStep
  <1>7. OnTrack(c, q, n, f[n])
    <2> DEFINE T == {k \in 0..n : OnTrack(c, q, k, f[k])}
    <2>1. 0 \in T /\ \A k \in 1..n : k - 1 \in T => k \in T
      BY <1>5, <1>6
    <2> HIDE DEF T
    <2>2. n \in T
      BY <2>1, LoopHolds
    <2> QED BY <2>2 DEF T
  <1>8. \E m \in 0..n : simulate_rover(c).visited = Seen(q, m) /\ Walked(c) = Seen(q, m)
    <2>1. CASE St = {}
      <3>1. f[n].visited = Seen(q, n)
        BY <1>4, <1>7, <2>1 DEF OnTrack, Alive
      <3>2. Walked(c) = Seen(q, n)
        BY <1>1, <1>2, <1>4, <2>1 DEF Walked, Seen
      <3>3. n \in 0..n
        OBVIOUS
      <3> QED BY <1>3, <3>1, <3>2, <3>3
    <2>2. CASE St # {}
      <3>1. \E m \in St : \A j \in St : m <= j
        <4>1. St \in SUBSET Nat
          BY <1>4
        <4> QED BY <2>2, <4>1, LeastNatural
      <3>2. PICK m : m = Min(St)
        OBVIOUS
      <3>3. m \in St /\ \A j \in St : m <= j
        BY <3>1, <3>2 DEF Min
      <3>4. m \in 0..n /\ m < n
        BY <3>3
      <3>5. f[n].visited = Seen(q, m)
        BY <1>4, <1>7, <3>3, <3>4 DEF OnTrack
      <3>6. Walked(c) = Seen(q, m)
        BY <1>2, <1>4, <2>2, <3>2 DEF Walked, Seen
      <3> QED BY <1>3, <3>4, <3>5, <3>6
    <2> QED BY <2>1, <2>2
  <1>9. \A m \in 0..n : Seen(q, m) \subseteq Cells
    <2>1. \A k \in 0..n : q[k].at \in Cells
      BY <1>1, <1>2 DEF CourseIs, Poses
    <2> QED BY <2>1 DEF Seen
  <1> QED BY <1>8, <1>9

LEMMA WalkTold ==
    ASSUME NEW c \in Programs
    PROVE  /\ c \in Seq(Letters) /\ Visited[c] = Walk[c]
           /\ Walk[c] \subseteq Cells
  BY ProgramsTyped, VisitedIsWalked DEF Visited, Walk

-----------------------------------------------------------------------------
(* What the rovers and the cache hold.  All commands come from an answer of  *)
(* the API.  While part 1 runs with a cache, a rover that has passed its     *)
(* save has its own commands in the dict, and a file that is whole agrees    *)
(* with the dict but for rovers whose save has failed.                       *)

Obtained == Programs \ {<<>>}

DataOK ==
    /\ opts \in [cache : BOOLEAN, refresh : BOOLEAN]
    /\ DOMAIN file.entries \subseteq RoverIds
    /\ \A r \in DOMAIN file.entries : file.entries[r] \in Obtained
    /\ DOMAIN cache \subseteq RoverIds /\ \A r \in DOMAIN cache : cache[r] \in Obtained
    /\ cmds \in [RoverIds -> Obtained \cup {<<>>}]
    /\ paths \in [RoverIds -> SUBSET Cells]
    /\ known \subseteq RoverIds

RoverHasCommands ==
    \A r \in RoverIds : pc[r] \in {"update", "saving", "walk", "writing", "done"} => cmds[r] # <<>>

DictAgrees ==
    Running /\ opts.cache =>
        \A r \in DOMAIN cache \cap RoverIds :
            pc[r] \in {"saving", "walk", "writing", "done"} => cache[r] = cmds[r]

FileAgrees ==
    Running /\ opts.cache /\ file.state = "whole" =>
        \A r \in DOMAIN cache \cap RoverIds :
            pc[r] # "failed" => r \in DOMAIN file.entries /\ file.entries[r] = cache[r]

PathsWalked == \A r \in RoverIds : pc[r] = "done" => paths[r] = Walk[cmds[r]]

CommandsInv == DataOK /\ RoverHasCommands /\ DictAgrees /\ FileAgrees /\ PathsWalked

\* A step that touches the commands of no rover and begins or ends no part 1.
LEMMA IdleCommands ==
    ASSUME CommandsInv, ~Running',
           opts' \in [cache : BOOLEAN, refresh : BOOLEAN],
           file'.entries = file.entries \/ file'.entries = NoEntries,
           cache' = cache \/ cache' = NoEntries,
           cmds' = cmds \/ cmds' = [r \in RoverIds |-> <<>>],
           paths' = paths, known' \subseteq known, pc' = [r \in RoverIds |-> "off"]
    PROVE  CommandsInv'
  <1>1. DataOK'
    BY DEF CommandsInv, DataOK, NoEntries
  <1>2. RoverHasCommands' /\ DictAgrees' /\ FileAgrees' /\ PathsWalked'
    BY DEF RoverHasCommands, DictAgrees, FileAgrees, PathsWalked
  <1> QED BY <1>1, <1>2 DEF CommandsInv

LEMMA InitCommands == Init => CommandsInv
  <1> SUFFICES ASSUME Init PROVE CommandsInv
    OBVIOUS
  <1>1. todo = <<>> /\ ~Running
    BY DEF Init, Running, Paths, Doing
  <1>2. /\ opts = NoOpts /\ file.entries = NoEntries /\ cache = NoEntries /\ known = {}
        /\ pc = [r \in RoverIds |-> "off"] /\ cmds = [r \in RoverIds |-> <<>>]
        /\ paths = [r \in RoverIds |-> {}]
    BY DEF Init, CacheInit
  <1>3. DataOK
    BY <1>2 DEF DataOK, NoOpts, NoEntries
  <1>4. RoverHasCommands /\ DictAgrees /\ FileAgrees /\ PathsWalked
    BY <1>1, <1>2 DEF RoverHasCommands, DictAgrees, FileAgrees, PathsWalked
  <1> QED BY <1>3, <1>4 DEF CommandsInv

LEMMA RestCommands ==
    ASSUME Inv, CommandsInv, ~Running', pc' = [r \in RoverIds |-> "off"],
           Start \/ LoadMines \/ BeginPart2 \/ OpenPins \/ WritePins \/ EndPart1 \/ Gone
           \/ RemoveCache \/ \E w \in WorkerIds : RunWorker(w)
    PROVE  CommandsInv'
  <1>1. opts \in [cache : BOOLEAN, refresh : BOOLEAN] /\ NoOpts \in [cache : BOOLEAN, refresh : BOOLEAN]
    BY DEF CommandsInv, DataOK, NoOpts
  <1>2. CASE Start
    <2>1. /\ opts' \in [cache : BOOLEAN, refresh : BOOLEAN]
          /\ file' = file /\ cache' = cache /\ cmds' = cmds /\ paths' = paths /\ known' = known
      BY <1>2 DEF Start, disk, threads
    <2> QED BY <2>1, IdleCommands
  <1>3. CASE LoadMines \/ WritePins
    <2>1. Return /\ file' = file /\ cache' = cache /\ cmds' = cmds /\ paths' = paths /\ known' = known
      BY <1>3 DEF LoadMines, WritePins, disk, threads
    <2>2. opts' \in [cache : BOOLEAN, refresh : BOOLEAN]
      BY <1>1, <2>1 DEF Return, Over
    <2> QED BY <2>1, <2>2, IdleCommands
  <1>4. CASE BeginPart2 \/ OpenPins \/ \E w \in WorkerIds : RunWorker(w)
    <2>1. /\ opts' = opts /\ file' = file /\ cache' = cache /\ cmds' = cmds
          /\ paths' = paths /\ known' = known
      BY <1>4 DEF BeginPart2, OpenPins, RunWorker, part1, control
    <2> QED BY <1>1, <2>1, IdleCommands
  <1>5. CASE EndPart1 \/ Gone
    <2>1. /\ file' = file /\ paths' = paths /\ known' = known
          /\ cache' = NoEntries /\ cmds' = [r \in RoverIds |-> <<>>]
      BY <1>5 DEF EndPart1, Gone, ForgetPart1, disk
    <2>2. opts' = opts \/ opts' = NoOpts
      BY <1>5 DEF EndPart1, Gone, Return, Over
    <2> QED BY <1>1, <2>1, <2>2, IdleCommands
  <1>6. CASE RemoveCache
    <2>1. /\ opts' = opts /\ file'.entries = NoEntries /\ cache' = cache /\ cmds' = cmds
          /\ paths' = paths /\ known' = {}
      BY <1>6 DEF RemoveCache, threads
    <2> QED BY <1>1, <2>1, IdleCommands
  <1> QED BY <1>2, <1>3, <1>4, <1>5, <1>6

LEMMA BeginCommands ==
    ASSUME CommandsInv, BeginPart1
    PROVE  CommandsInv'
  <1>1. /\ opts' = opts /\ file' = file /\ cmds' = cmds /\ paths' = paths /\ known' = known
        /\ cache' = IF opts.cache THEN file.entries ELSE NoEntries
        /\ pc' = [r \in RoverIds |-> "new"]
    BY DEF BeginPart1, load_cache, disk
  <1>2. DOMAIN file.entries \subseteq RoverIds
    BY DEF CommandsInv, DataOK
  <1>3. DataOK'
    BY <1>1, <1>2 DEF CommandsInv, DataOK, NoEntries
  <1>4. RoverHasCommands' /\ DictAgrees' /\ PathsWalked'
    BY <1>1 DEF RoverHasCommands, DictAgrees, PathsWalked
  <1>5. FileAgrees'
    BY <1>1 DEF FileAgrees
  <1> QED BY <1>3, <1>4, <1>5 DEF CommandsInv

\* A step of one rover that changes neither its commands nor the cache.
LEMMA QuietCommands ==
    ASSUME Inv, CommandsInv, NEW r \in RoverIds, RunRover(r),
           NEW to \in {"fetch", "failed", "writing", "done"},
           pc[r] # "failed", pc' = [pc EXCEPT ![r] = to],
           to \in {"writing", "done"} => pc[r] \in {"walk", "writing"},
           cmds' = cmds, cache' = cache, file' = file,
           paths' \in [RoverIds -> SUBSET Cells], \A q \in RoverIds : q # r => paths'[q] = paths[q],
           to = "done" => paths'[r] = Walk[cmds[r]]
    PROVE  CommandsInv'
  <1>1. Running /\ Running' /\ opts' = opts /\ known' = known
    BY RoverStep
  <1>2. pc \in [RoverIds -> PC] /\ pc'[r] = to /\ \A q \in RoverIds : q # r => pc'[q] = pc[q]
    BY DEF Inv, ThreadsOK
  <1>3. DataOK'
    BY <1>1 DEF CommandsInv, DataOK
  <1>4. RoverHasCommands'
    BY <1>2 DEF CommandsInv, RoverHasCommands
  <1>5. DictAgrees'
    BY <1>1, <1>2 DEF CommandsInv, DictAgrees
  <1>6. FileAgrees'
    BY <1>1, <1>2 DEF CommandsInv, FileAgrees
  <1>7. PathsWalked'
    BY <1>2 DEF CommandsInv, PathsWalked
  <1> QED BY <1>3, <1>4, <1>5, <1>6, <1>7 DEF CommandsInv

\* One that gives it commands: from the dict, or from the API.
LEMMA GetCommands ==
    ASSUME Inv, CommandsInv, NEW r \in RoverIds, RunRover(r),
           NEW to \in {"walk", "update"}, NEW c \in Obtained,
           pc[r] \in {"new", "fetch"}, pc' = [pc EXCEPT ![r] = to],
           cmds' = [cmds EXCEPT ![r] = c],
           opts.cache /\ to = "walk" => r \in DOMAIN cache /\ c = cache[r],
           cache' = cache, file' = file, paths' = paths
    PROVE  CommandsInv'
  <1>1. Running /\ Running' /\ opts' = opts /\ known' = known
    BY RoverStep
  <1>2. pc \in [RoverIds -> PC] /\ pc'[r] = to /\ \A q \in RoverIds : q # r => pc'[q] = pc[q]
    BY DEF Inv, ThreadsOK
  <1>3. /\ cmds' \in [RoverIds -> Obtained \cup {<<>>}] /\ cmds'[r] = c /\ c # <<>>
        /\ \A q \in RoverIds : q # r => cmds'[q] = cmds[q]
    BY DEF CommandsInv, DataOK, Obtained
  <1>4. DataOK'
    BY <1>1, <1>3 DEF CommandsInv, DataOK
  <1>5. RoverHasCommands'
    BY <1>2, <1>3 DEF CommandsInv, RoverHasCommands
  <1>6. DictAgrees'
    BY <1>1, <1>2, <1>3 DEF CommandsInv, DictAgrees
  <1>7. FileAgrees'
    BY <1>1, <1>2 DEF CommandsInv, FileAgrees
  <1>8. PathsWalked'
    BY <1>2, <1>3 DEF CommandsInv, PathsWalked
  <1> QED BY <1>4, <1>5, <1>6, <1>7, <1>8 DEF CommandsInv

LEMMA StoreCommands ==
    ASSUME Inv, CommandsInv, NEW r \in RoverIds, RunRover(r), OpenCache(r) \/ OpenFails(r)
    PROVE  CommandsInv'
  <1>1. /\ Running /\ Running' /\ opts' = opts /\ (file' = file => known' = known) /\ Remember
    BY RoverStep
  <1>2. PICK to \in {"saving", "failed"} : pc[r] = "update" /\ pc' = [pc EXCEPT ![r] = to]
    BY DEF OpenCache, OpenFails, Goto
  <1>3. /\ pc \in [RoverIds -> PC] /\ pc'[r] = to /\ \A q \in RoverIds : q # r => pc'[q] = pc[q]
    BY <1>2 DEF Inv, ThreadsOK
  <1>4. /\ DOMAIN cache' = DOMAIN cache \cup {r} /\ cache'[r] = cmds[r]
        /\ \A q \in DOMAIN cache : q # r => cache'[q] = cache[q]
        /\ cmds' = cmds /\ paths' = paths
    BY DEF OpenCache, OpenFails, Stored, disk
  <1>5. cmds[r] \in Obtained
    BY <1>2 DEF CommandsInv, DataOK, RoverHasCommands
  <1>6. /\ to = "failed" => file' = file
        /\ to = "saving" => file'.state = "torn" /\ DOMAIN file'.entries = {}
    <2>1. CASE OpenCache(r)
      <3>1. to = "saving" /\ file'.state = "torn" /\ DOMAIN file'.entries = {}
        BY <1>2, <1>3, <2>1 DEF OpenCache, Goto, NoEntries
      <3> QED BY <3>1
    <2>2. CASE OpenFails(r)
      <3>1. to = "failed" /\ file' = file
        BY <1>2, <1>3, <2>2 DEF OpenFails, Goto, disk
      <3> QED BY <3>1
    <2> QED BY <2>1, <2>2
  <1>7. known' = known
    BY <1>1, <1>6 DEF Remember
  <1>8. DataOK'
    BY <1>1, <1>4, <1>5, <1>6, <1>7 DEF CommandsInv, DataOK
  <1>9. RoverHasCommands' /\ PathsWalked'
    BY <1>2, <1>3, <1>4 DEF CommandsInv, RoverHasCommands, PathsWalked
  <1>10. DictAgrees'
    BY <1>1, <1>3, <1>4 DEF CommandsInv, DictAgrees
  <1>11. FileAgrees'
    BY <1>1, <1>2, <1>3, <1>4, <1>6 DEF CommandsInv, FileAgrees
  <1> QED BY <1>8, <1>9, <1>10, <1>11 DEF CommandsInv

LEMMA DumpCommands ==
    ASSUME Inv, CommandsInv, NEW r \in RoverIds, RunRover(r), DumpCache(r)
    PROVE  CommandsInv'
  <1>1. Running /\ Running' /\ opts' = opts /\ Remember
    BY RoverStep
  <1>2. /\ pc[r] = "saving" /\ pc' = [pc EXCEPT ![r] = "walk"]
        /\ file'.entries = cache /\ cache' = cache /\ cmds' = cmds /\ paths' = paths
    BY DEF DumpCache, Goto
  <1>3. /\ pc \in [RoverIds -> PC] /\ pc'[r] = "walk"
        /\ \A q \in RoverIds : q # r => pc'[q] = pc[q]
    BY <1>2 DEF Inv, ThreadsOK
  <1>4. DataOK'
    BY <1>1, <1>2 DEF CommandsInv, DataOK, Remember
  <1>5. RoverHasCommands' /\ PathsWalked'
    BY <1>2, <1>3 DEF CommandsInv, RoverHasCommands, PathsWalked
  <1>6. DictAgrees' /\ FileAgrees'
    BY <1>1, <1>2, <1>3 DEF CommandsInv, DictAgrees, FileAgrees
  <1> QED BY <1>4, <1>5, <1>6 DEF CommandsInv

LEMMA RoverCommands ==
    ASSUME Inv, CommandsInv, NEW r \in RoverIds, RunRover(r)
    PROVE  CommandsInv'
  <1>1. paths \in [RoverIds -> SUBSET Cells]
    BY DEF CommandsInv, DataOK
  <1>2. CASE LookUp(r)
    <2>1. pc[r] = "new" /\ cache' = cache /\ file' = file /\ paths' = paths
      BY <1>2 DEF LookUp, Goto, disk
    <2>2. CASE Thrifty /\ r \in DOMAIN cache
      <3>1. pc' = [pc EXCEPT ![r] = "walk"] /\ cmds' = [cmds EXCEPT ![r] = cache[r]]
        BY <1>2, <2>2 DEF LookUp, Goto, Thrifty
      <3>2. cache[r] \in Obtained
        BY <2>2 DEF CommandsInv, DataOK
      <3> QED BY <2>1, <2>2, <3>1, <3>2, GetCommands
    <2>3. CASE ~(Thrifty /\ r \in DOMAIN cache)
      <3>1. pc' = [pc EXCEPT ![r] = "fetch"] /\ cmds' = cmds
        BY <1>2, <2>3 DEF LookUp, Goto, Thrifty
      <3> QED BY <1>1, <2>1, <3>1, QuietCommands
    <2> QED BY <2>2, <2>3
  <1>3. CASE Fetch(r)
    <2>1. PICK to \in {"walk", "update"} :
            /\ pc[r] = "fetch" /\ pc' = [pc EXCEPT ![r] = to]
            /\ to = "walk" => ~opts.cache
      BY <1>3 DEF Fetch, Goto
    <2>2. PICK c \in Obtained : cmds' = [cmds EXCEPT ![r] = c]
      BY <1>3 DEF Fetch, Obtained, Programs
    <2>3. cache' = cache /\ file' = file /\ paths' = paths
      BY <1>3 DEF Fetch, disk
    <2> QED BY <2>1, <2>2, <2>3, GetCommands
  <1>4. CASE FetchFails(r) \/ DumpFails(r) \/ PathFails(r)
    <2>1. /\ pc[r] \in {"fetch", "saving", "walk", "writing"} /\ pc' = [pc EXCEPT ![r] = "failed"]
          /\ cmds' = cmds /\ cache' = cache /\ file' = file /\ paths' = paths
      BY <1>4 DEF FetchFails, DumpFails, PathFails, Goto, disk
    <2> QED BY <1>1, <2>1, QuietCommands
  <1>5. CASE OpenCache(r) \/ OpenFails(r)
    BY <1>5, StoreCommands
  <1>6. CASE DumpCache(r)
    BY <1>6, DumpCommands
  <1>7. CASE OpenPath(r)
    <2>1. /\ pc[r] = "walk" /\ pc' = [pc EXCEPT ![r] = "writing"]
          /\ cmds' = cmds /\ cache' = cache /\ file' = file /\ paths' = [paths EXCEPT ![r] = {}]
      BY <1>7 DEF OpenPath, Goto
    <2>2. paths' \in [RoverIds -> SUBSET Cells] /\ \A q \in RoverIds : q # r => paths'[q] = paths[q]
      BY <1>1, <2>1
    <2> QED BY <2>1, <2>2, QuietCommands
  <1>8. CASE WritePath(r)
    <2>1. /\ pc[r] = "writing" /\ pc' = [pc EXCEPT ![r] = "done"]
          /\ cmds' = cmds /\ cache' = cache /\ file' = file
          /\ paths' = [paths EXCEPT ![r] = Visited[cmds[r]]]
      BY <1>8 DEF WritePath, Goto
    <2>2. cmds[r] \in Programs
      BY <2>1 DEF CommandsInv, DataOK, RoverHasCommands, Obtained
    <2>3. Visited[cmds[r]] = Walk[cmds[r]] /\ Walk[cmds[r]] \subseteq Cells
      <3>1. PICK c \in Programs : c = cmds[r]
        BY <2>2
      <3> QED BY <3>1, WalkTold
    <2>4. /\ paths' \in [RoverIds -> SUBSET Cells] /\ \A q \in RoverIds : q # r => paths'[q] = paths[q]
          /\ paths'[r] = Walk[cmds[r]]
      BY <1>1, <2>1, <2>3
    <2> QED BY <2>1, <2>4, QuietCommands
  <1> QED BY <1>2, <1>3, <1>4, <1>5, <1>6, <1>7, <1>8
       DEF RunRover, run_part1_one, get_rover_commands, write_path_file

LEMMA NextCommands == Inv /\ CommandsInv /\ [Next]_vars => CommandsInv'
  <1> SUFFICES ASSUME Inv, CommandsInv, [Next]_vars PROVE CommandsInv'
    OBVIOUS
  <1>1. Inv'
    BY NextInv
  <1>2. CASE \E r \in RoverIds : RunRover(r)
    BY <1>2, RoverCommands
  <1>3. CASE BeginPart1
    BY <1>3, BeginCommands
  <1>4. CASE UNCHANGED vars
    BY <1>4 DEF vars, CommandsInv, DataOK, RoverHasCommands, DictAgrees, FileAgrees, PathsWalked,
                Running, Paths, Doing
  <1>5. CASE Start \/ LoadMines \/ BeginPart2 \/ OpenPins \/ WritePins \/ EndPart1 \/ Gone
             \/ RemoveCache \/ \E w \in WorkerIds : RunWorker(w)
    <2>1. ~Running'
      <3>1. CASE LoadMines \/ WritePins \/ EndPart1
        <4>1. todo # <<>> /\ Return
          BY <3>1 DEF LoadMines, WritePins, EndPart1, Paths, Pins, Doing
        <4> QED BY <4>1, ReturnOrder
      <3>2. CASE Start
        <4>1. todo = <<>> /\ phase' = phase
          BY <3>2 DEF Start
        <4>2. phase' = "begin"
          BY <4>1 DEF Inv, MainOK, Paths, Pins, Doing
        <4> QED BY <4>2 DEF Running
      <3>3. CASE BeginPart2 \/ OpenPins \/ \E w \in WorkerIds : RunWorker(w)
        <4>1. todo' = todo /\ Pins
          BY <3>3 DEF BeginPart2, OpenPins, RunWorker, control
        <4> QED BY <4>1 DEF Running, Paths, Pins, Doing
      <3>4. CASE Gone \/ RemoveCache
        <4>1. todo' = <<>>
          BY <3>4 DEF Gone, RemoveCache
        <4> QED BY <4>1 DEF Running, Paths, Doing
      <3> QED BY <1>5, <3>1, <3>2, <3>3, <3>4
    <2>2. pc' = [r \in RoverIds |-> "off"]
      BY <1>1, <2>1 DEF Inv, ThreadsOK
    <2> QED BY <1>5, <2>1, <2>2, RestCommands
  <1> QED BY <1>2, <1>3, <1>4, <1>5 DEF Next, program, main, Raise, Die

-----------------------------------------------------------------------------
(* The mines that are loaded.                                                *)

MineRecord == [row : Int, col : Int, serial : Seq(Int)]

LEMMA ShortSeqs ==
    \A a, b, d \in Int : <<a>> \in Seq(Int) /\ <<a, b>> \in Seq(Int) /\ <<a, b, d>> \in Seq(Int)
  OBVIOUS

\* Counting through the cells of a map row by row stays on the map.
LEMMA CellOf ==
    ASSUME NEW L \in Nat, NEW C \in Nat, NEW i \in 1..(L * C)
    PROVE  (i - 1) \div C \in 0..(L - 1) /\ (i - 1) % C \in 0..(C - 1)
  <1>1. C # 0
    <2> SUFFICES ASSUME C = 0 PROVE FALSE
      OBVIOUS
    <2>1. L * C = 0
      OBVIOUS
    <2> QED BY <2>1
  <1>2. PICK x \in Nat : x = i - 1 /\ x < L * C
    OBVIOUS
  <1>3. PICK d \in Int, m \in Int : d = x \div C /\ m = x % C /\ x = C * d + m /\ 0 <= m /\ m < C
    BY <1>1
  <1>4. 0 <= d
    <2> SUFFICES ASSUME d <= -1 PROVE FALSE
      BY <1>3
    <2>1. C * d <= C * (-1)
      BY <1>1, <1>3
    <2> QED BY <1>2, <1>3, <2>1
  <1>5. d < L
    <2> SUFFICES ASSUME L <= d PROVE FALSE
      BY <1>3
    <2>1. C * L <= C * d
      BY <1>1, <1>3
    <2>2. C * L = L * C
      OBVIOUS
    <2> QED BY <1>2, <1>3, <2>1, <2>2
  <1> QED BY <1>2, <1>3, <1>4, <1>5

LEMMA MapMines ==
    ASSUME NEW grid \in Seq(Seq(Int)), grid # <<>>,
           \A i \in DOMAIN grid : Len(grid[i]) = Len(grid[1])
    PROVE  mines_from_map(grid) \in Seq(MineRecord)
  <1>1. PICK L \in Nat : L = Len(grid) /\ 1 \in 1..L
    <2>1. Len(grid) \in Nat /\ Len(grid) # 0
      BY EmptySeq
    <2> QED BY <2>1
  <1>2. PICK C \in Nat : C = Len(grid[1]) /\ \A i \in 1..L : Len(grid[i]) = C
    <2>1. grid[1] \in Seq(Int)
      BY <1>1
    <2>2. DOMAIN grid = 1..L
      BY <1>1
    <2>3. Len(grid[1]) \in Nat
      BY <2>1
    <2> QED BY <2>2, <2>3
  <1>3. PICK n \in Nat : n = L * C
    OBVIOUS
  <1> DEFINE Cell == [row : Int, col : Int, v : Int]
             r(i) == (i - 1) \div C
             c(i) == (i - 1) % C
             cells == [i \in 1..n |-> [row |-> r(i), col |-> c(i), v |-> grid[r(i) + 1][c(i) + 1]]]
             K == {i \in DOMAIN cells : cells[i].v > 0}
             found == Kept(cells, K)
  <1>4. ASSUME NEW i \in 1..n
        PROVE  [row |-> r(i), col |-> c(i), v |-> grid[r(i) + 1][c(i) + 1]] \in Cell
    <2>1. r(i) \in 0..(L - 1) /\ c(i) \in 0..(C - 1)
      BY <1>3, CellOf
    <2>2. PICK a \in 0..(L - 1), b \in 0..(C - 1) : a = r(i) /\ b = c(i)
      BY <2>1
    <2>3. a + 1 \in 1..L /\ b + 1 \in 1..C
      OBVIOUS
    <2>4. PICK row \in Seq(Int) : row = grid[a + 1] /\ Len(row) = C
      BY <1>1, <1>2, <2>3
    <2>5. row[b + 1] \in Int
      BY <2>3, <2>4
    <2>6. [row |-> a, col |-> b, v |-> row[b + 1]] \in Cell
      BY <2>5
    <2> QED BY <2>2, <2>4, <2>6
  <1>5. cells \in Seq(Cell)
    <2> HIDE DEF r, c, Cell
    <2> QED BY <1>4
  <1>6. found \in Seq(Cell)
    <2>1. PICK s \in Seq(Cell) : s = cells
      BY <1>5
    <2>2. PICK J : J = K
      OBVIOUS
    <2> HIDE DEF Cell, cells, K
    <2>3. \A i \in 1..Len(s) : i \in J => s[i] \in Cell
      OBVIOUS
    <2>4. Kept(s, J) \in Seq(Cell)
      BY <2>3, KeptIn
    <2> QED BY <2>1, <2>2, <2>4
  <1>7. ASSUME NEW e \in Cell PROVE Mine(e.row, e.col, SerialAt(e.row, e.col, e.v)) \in MineRecord
    <2>1. SerialAt(e.row, e.col, e.v) \in Seq(Int)
      BY PinAssumption, ShortSeqs DEF SerialAt
    <2> QED BY <2>1 DEF Mine, MineRecord
  <1>8. mines_from_map(grid) = [i \in DOMAIN found |->
           Mine(found[i].row, found[i].col, SerialAt(found[i].row, found[i].col, found[i].v))]
    BY <1>1, <1>2, <1>3 DEF mines_from_map
  <1> HIDE DEF found, Cell
  <1>9. PICK s \in Seq(Cell) : s = found
    BY <1>6
  <1>10. [i \in DOMAIN s |-> Mine(s[i].row, s[i].col, SerialAt(s[i].row, s[i].col, s[i].v))]
            \in Seq(MineRecord)
    <2>1. PICK m \in Nat : m = Len(s) /\ DOMAIN s = 1..m
      OBVIOUS
    <2>2. \A i \in 1..m : Mine(s[i].row, s[i].col, SerialAt(s[i].row, s[i].col, s[i].v)) \in MineRecord
      BY <1>7, <2>1
    <2> QED BY <2>1, <2>2
  <1> QED BY <1>8, <1>9, <1>10

Distinct(D, s) == \A i, j \in 1..Len(s) : D[s[i]] = D[s[j]] => i = j

\* Items that differ in D differ still among those that are kept.
LEMMA KeptApart ==
    ASSUME NEW S, NEW s \in Seq(S), NEW K, NEW D, Distinct(D, s)
    PROVE  Distinct(D, Kept(s, K))
  <1> USE DEF Distinct
  <1>1. PICK n \in Nat : n = Len(s)
    OBVIOUS
  <1>2. PICK f \in [0..n -> Seq(S)] : Keeps(f, s, K) /\ Kept(s, K) = f[n]
    <2>1. PICK f \in [0..Len(s) -> Seq(S)] : Keeps(f, s, K) /\ Kept(s, K) = f[Len(s)]
      BY KeptStates
    <2> QED BY <1>1, <2>1
  <1> DEFINE Apart(k, t) ==
               /\ \A i \in 1..Len(t) : \E a \in 1..k : t[i] = s[a]
               /\ \A i, j \in 1..Len(t) : D[t[i]] = D[t[j]] => i = j
             T == {k \in 0..n : Apart(k, f[k])}
  <1>3. 0 \in T
    <2>1. f[0] = <<>> /\ Len(<<>>) = 0
      BY <1>2 DEF Keeps
    <2> QED BY <2>1
  <1>4. ASSUME NEW k \in 1..n, k - 1 \in T PROVE k \in T
    <2>1. PICK t \in Seq(S) : t = f[k - 1]
      BY <1>2
    <2>2. /\ \A i \in 1..Len(t) : \E a \in 1..(k - 1) : t[i] = s[a]
          /\ \A i, j \in 1..Len(t) : D[t[i]] = D[t[j]] => i = j
      BY <1>4, <2>1
    <2>3. f[k] = IF k \in K THEN Append(t, s[k]) ELSE t
      BY <1>1, <1>2, <2>1 DEF Keeps, KeptOne
    <2>4. Apart(k, t)
      <3>1. 1..(k - 1) \subseteq 1..k
        OBVIOUS
      <3> QED BY <2>2, <3>1
    <2>5. Apart(k, Append(t, s[k]))
      <3>1. PICK u \in Seq(S) : u = Append(t, s[k])
        <4>1. PICK e \in S : e = s[k]
          BY <1>1
        <4>2. Append(t, e) \in Seq(S)
          BY AppendProperties
        <4> QED BY <4>1, <4>2
      <3>2. PICK m \in Nat : m = Len(t) /\ Len(u) = m + 1
        BY <1>1, <3>1
      <3>3. u[m + 1] = s[k] /\ \A i \in 1..m : u[i] = t[i]
        BY <1>1, <3>1, <3>2
      <3>4. \A i \in 1..(m + 1) : i = m + 1 \/ i \in 1..m
        OBVIOUS
      <3>5. \A i \in 1..m : \E a \in 1..(k - 1) : u[i] = s[a]
        BY <2>2, <3>2, <3>3
      <3>6. \A i \in 1..m : D[u[i]] # D[u[m + 1]]
        <4> SUFFICES ASSUME NEW i \in 1..m, D[u[i]] = D[u[m + 1]] PROVE FALSE
          OBVIOUS
        <4>1. PICK a \in 1..(k - 1) : u[i] = s[a]
          BY <3>5
        <4>2. a \in 1..Len(s) /\ k \in 1..Len(s) /\ a # k
          BY <1>1
        <4> QED BY <3>3, <4>1, <4>2
      <3>7. \A i \in 1..(m + 1) : \E a \in 1..k : u[i] = s[a]
        <4>1. 1..(k - 1) \subseteq 1..k /\ k \in 1..k
          OBVIOUS
        <4> QED BY <3>3, <3>4, <3>5, <4>1
      <3>8. \A i, j \in 1..(m + 1) : D[u[i]] = D[u[j]] => i = j
        BY <2>2, <3>2, <3>3, <3>4, <3>6
      <3> QED BY <3>1, <3>2, <3>7, <3>8
    <2>6. Apart(k, f[k])
      <3> HIDE DEF Apart
      <3> QED BY <2>3, <2>4, <2>5
    <2>7. k \in 0..n
      OBVIOUS
    <2> HIDE DEF Apart
    <2> QED BY <2>6, <2>7
  <1>5. n \in T
    <2>1. n \in 0..n
      OBVIOUS
    <2> HIDE DEF T
    <2> QED BY <1>3, <1>4, <2>1, LoopHolds
  <1> QED BY <1>2, <1>5

\* No two cells of a map are one.
LEMMA CellsApart ==
    ASSUME NEW L \in Nat, NEW C \in Nat, NEW i \in 1..(L * C), NEW j \in 1..(L * C),
           (i - 1) \div C = (j - 1) \div C, (i - 1) % C = (j - 1) % C
    PROVE  i = j
  <1>1. C # 0
    <2> SUFFICES ASSUME C = 0 PROVE FALSE
      OBVIOUS
    <2>1. L * C = 0
      OBVIOUS
    <2> QED BY <2>1
  <1>2. i - 1 = C * ((i - 1) \div C) + ((i - 1) % C)
    BY <1>1
  <1>3. j - 1 = C * ((j - 1) \div C) + ((j - 1) % C)
    BY <1>1
  <1> QED BY <1>2, <1>3

\* A serial that begins with another of its length is that serial.
LEMMA PrefixSame ==
    ASSUME NEW s \in Seq(Int), NEW t \in Seq(Int), Len(s) = Len(t), IsPrefix(s, t)
    PROVE  s = t
  <1>1. s = SubSeq(s, 1, Len(s)) /\ t = SubSeq(t, 1, Len(t))
    OBVIOUS
  <1> QED BY <1>1 DEF IsPrefix

\* The mines of a map can be told apart, whatever the serial mode.
LEMMA MapApart ==
    ASSUME NEW grid \in Seq(Seq(Int)), grid # <<>>,
           \A i \in DOMAIN grid : Len(grid[i]) = Len(grid[1])
    PROVE  TellApart(mines_from_map(grid))
  <1>1. PICK L \in Nat : L = Len(grid) /\ 1 \in 1..L
    <2>1. Len(grid) \in Nat /\ Len(grid) # 0
      BY EmptySeq
    <2> QED BY <2>1
  <1>2. PICK C \in Nat : C = Len(grid[1]) /\ \A i \in 1..L : Len(grid[i]) = C
    <2>1. grid[1] \in Seq(Int)
      BY <1>1
    <2>2. DOMAIN grid = 1..L
      BY <1>1
    <2>3. Len(grid[1]) \in Nat
      BY <2>1
    <2> QED BY <2>2, <2>3
  <1>3. PICK n \in Nat : n = L * C
    OBVIOUS
  <1> DEFINE Cell == [row : Int, col : Int, v : Int]
             D == [e \in Cell |-> <<e.row, e.col>>]
  <1>4. PICK s \in Seq(Cell), K \in SUBSET (1..n) :
          /\ mines_from_map(grid) = [i \in DOMAIN Kept(s, K) |->
                Mine(Kept(s, K)[i].row, Kept(s, K)[i].col,
                     SerialAt(Kept(s, K)[i].row, Kept(s, K)[i].col, Kept(s, K)[i].v))]
          /\ \A i, j \in 1..Len(s) : D[s[i]] = D[s[j]] => i = j
    <2> DEFINE r(i) == (i - 1) \div C
               c(i) == (i - 1) % C
               cell(i) == [row |-> r(i), col |-> c(i), v |-> grid[r(i) + 1][c(i) + 1]]
               cells == [i \in 1..n |-> cell(i)]
               M == {i \in DOMAIN cells : cells[i].v > 0}
    <2>1. ASSUME NEW i \in 1..n PROVE cell(i) \in Cell
      <3>1. r(i) \in 0..(L - 1) /\ c(i) \in 0..(C - 1)
        BY <1>3, CellOf
      <3>2. PICK a \in 0..(L - 1), b \in 0..(C - 1) : a = r(i) /\ b = c(i)
        BY <3>1
      <3>3. a + 1 \in 1..L /\ b + 1 \in 1..C
        OBVIOUS
      <3>4. PICK row \in Seq(Int) : row = grid[a + 1] /\ Len(row) = C
        BY <1>1, <1>2, <3>3
      <3>5. row[b + 1] \in Int
        BY <3>3, <3>4
      <3>6. [row |-> a, col |-> b, v |-> row[b + 1]] \in Cell
        BY <3>5
      <3> QED BY <3>2, <3>4, <3>6
    <2>2. cells \in Seq(Cell) /\ Len(cells) = n
      <3> HIDE DEF cell, Cell
      <3> QED BY <2>1
    <2>3. ASSUME NEW i \in 1..n, NEW j \in 1..n, D[cells[i]] = D[cells[j]] PROVE i = j
      <3>1. cell(i) \in Cell /\ cell(j) \in Cell
        BY <2>1
      <3>2. D[cell(i)] = <<r(i), c(i)>> /\ D[cell(j)] = <<r(j), c(j)>>
        BY <3>1
      <3>3. r(i) = r(j) /\ c(i) = c(j)
        <4> HIDE DEF r, c, cell, D
        <4> QED BY <2>3, <3>2
      <3> QED BY <1>3, <3>3, CellsApart
    <2>4. mines_from_map(grid) = [i \in DOMAIN Kept(cells, M) |->
             Mine(Kept(cells, M)[i].row, Kept(cells, M)[i].col,
                  SerialAt(Kept(cells, M)[i].row, Kept(cells, M)[i].col, Kept(cells, M)[i].v))]
      BY <1>1, <1>2, <1>3 DEF mines_from_map
    <2>5. M \in SUBSET (1..n)
      <3> HIDE DEF cell
      <3> QED OBVIOUS
    <2> HIDE DEF cells, M, Cell, D
    <2> QED BY <2>2, <2>3, <2>4, <2>5
  <1>5. Kept(s, K) \in Seq(Cell)
    <2> HIDE DEF Cell
    <2>1. \A i \in 1..Len(s) : i \in K => s[i] \in Cell
      OBVIOUS
    <2> QED BY <2>1, KeptIn
  <1>7. PICK found \in Seq(Cell) : found = Kept(s, K)
    BY <1>5
  <1>8. \A i, j \in 1..Len(found) : D[found[i]] = D[found[j]] => i = j
    <2>1. \A i, j \in 1..Len(s) : D[s[i]] = D[s[j]] => i = j
      BY <1>4
    <2>2. Distinct(D, s)
      BY <2>1 DEF Distinct
    <2> HIDE DEF Cell, D
    <2>3. Distinct(D, Kept(s, K))
      BY <2>2, KeptApart
    <2> QED BY <1>7, <2>3 DEF Distinct
  <1>9. PICK ms : ms = mines_from_map(grid)
    OBVIOUS
  <1>10. PICK m \in Nat : m = Len(found) /\ DOMAIN found = 1..m
    OBVIOUS
  <1>11. DOMAIN ms = 1..m
    BY <1>4, <1>7, <1>9, <1>10
  <1>12. ASSUME NEW i \in 1..m
         PROVE  /\ found[i] \in Cell /\ ms[i].row = found[i].row /\ ms[i].col = found[i].col
                /\ ms[i].serial = SerialAt(found[i].row, found[i].col, found[i].v)
                /\ ms[i].serial \in Seq(Int)
    <2>1. PICK e \in Cell : e = found[i]
      <3> HIDE DEF Cell
      <3> QED BY <1>10
    <2>2. ms[i] = Mine(e.row, e.col, SerialAt(e.row, e.col, e.v))
      <3> HIDE DEF Cell
      <3> QED BY <1>4, <1>7, <1>9, <1>10, <2>1
    <2>3. SerialAt(e.row, e.col, e.v) \in Seq(Int)
      BY PinAssumption, ShortSeqs DEF SerialAt
    <2> QED BY <2>1, <2>2, <2>3 DEF Mine
  <1>13. ASSUME NEW i \in 1..m, NEW j \in 1..m, i # j
         PROVE  <<ms[i].row, ms[i].col>> # <<ms[j].row, ms[j].col>>
    <2>1. D[found[i]] = <<found[i].row, found[i].col>> /\ D[found[j]] = <<found[j].row, found[j].col>>
      BY <1>12
    <2>2. D[found[i]] # D[found[j]]
      <3> HIDE DEF D, Cell
      <3> QED BY <1>8, <1>10, <1>13
    <2> HIDE DEF D, Cell
    <2> QED BY <1>12, <2>1, <2>2
  <1>14. ASSUME NEW i \in 1..m, NEW j \in 1..m, IsPrefix(ms[i].serial, ms[j].serial)
         PROVE  ms[i].serial = ms[j].serial
    <2>1. Len(ms[i].serial) = Len(ms[j].serial)
      <3>1. PICK k \in 1..3 : \A r, c, v : Len(SerialAt(r, c, v)) = k
        <4>1. /\ \A r, c : Len(<<r, c>>) = 2 /\ \A v : Len(<<v>>) = 1
              /\ \A r, c, v : Len(<<r, c, v>>) = 3
          OBVIOUS
        <4>2. CASE SerialMode = "coords"
          BY <4>1, <4>2 DEF SerialAt
        <4>3. CASE SerialMode = "value"
          BY <4>1, <4>3 DEF SerialAt
        <4>4. CASE SerialMode = "coords_value"
          BY <4>1, <4>4 DEF SerialAt
        <4> QED BY <4>2, <4>3, <4>4, PinAssumption
      <3> HIDE DEF Cell, D
      <3>2. Len(ms[i].serial) = k
        BY <1>12, <3>1
      <3>3. Len(ms[j].serial) = k
        BY <1>12, <3>1
      <3> QED BY <3>2, <3>3
    <2> QED BY <1>12, <1>14, <2>1, PrefixSame
  <1>15. TellApart(ms)
    BY <1>11, <1>13, <1>14 DEF TellApart
  <1> QED BY <1>9, <1>15

LEMMA FileMines ==
    ASSUME NEW lines \in Seq(Seq(Seq(Int) \ {<<>>}) \ {<<>>})
    PROVE  mines_from_file(lines) \in Seq(MineRecord)
  <1>1. PICK n \in Nat : n = Len(lines) /\ DOMAIN lines = 1..n
    OBVIOUS
  <1>2. ASSUME NEW i \in 1..n
        PROVE  mine_of(lines[i]) \in MineRecord
    <2>1. PICK part \in Seq(Seq(Int) \ {<<>>}) : part = lines[i] /\ part # <<>>
      BY <1>1
    <2>2. PICK m \in Nat : m = Len(part) /\ m # 0
      BY <2>1, EmptySeq
    <2>3. ASSUME NEW j \in 1..m PROVE part[j] \in Seq(Int) /\ part[j][1] \in Int
      <3>1. PICK s \in Seq(Int) : s = part[j] /\ s # <<>>
        BY <2>2
      <3>2. 1 \in 1..Len(s)
        BY <3>1, EmptySeq
      <3> QED BY <3>1, <3>2
    <2>4. 1 \in 1..m /\ (m >= 3 => 2 \in 1..m /\ 3 \in 1..m)
      BY <2>2
    <2>5. Mine(-1, -1, part[1]) \in MineRecord
      BY <2>3, <2>4 DEF Mine, MineRecord
    <2>6. m >= 3 => Mine(part[1][1], part[2][1], part[3]) \in MineRecord
      BY <2>3, <2>4 DEF Mine, MineRecord
    <2> QED BY <2>1, <2>2, <2>5, <2>6 DEF mine_of
  <1>3. [i \in 1..n |-> mine_of(lines[i])] \in Seq(MineRecord)
    BY <1>2
  <1> QED BY <1>1, <1>3 DEF mines_from_file

LEMMA LoadedMines == \A ms \in Loaded \cup {<<>>} : ms \in Seq(MineRecord)
  <1>1. ASSUME NEW src \in Sources PROVE load_mines(src) \in Seq(MineRecord)
    BY PinAssumption, MapMines, FileMines DEF load_mines
  <1>2. <<>> \in Seq(MineRecord)
    OBVIOUS
  <1> QED BY <1>1, <1>2 DEF Loaded

-----------------------------------------------------------------------------
(* The keys.                                                                 *)

\* There is always a suffix that is not used.
LEMMA SuffixFree ==
    ASSUME NEW used, IsFiniteSet(used), NEW s \in Seq(Int)
    PROVE  \E n \in Int : Suffixed(used, s) = Append(s, n) /\ Append(s, n) \notin used
  <1>1. PICK c \in Nat : c = Cardinality(used)
    BY FS_CardinalityType
  <1> DEFINE N == 2..(c + 2)
             free == {n \in N : Append(s, n) \notin used}
  <1>2. IsFiniteSet(N) /\ Cardinality(N) = c + 1
    <2>1. 2 \in Int /\ c + 2 \in Int /\ ~(2 > c + 2)
      OBVIOUS
    <2>2. IsFiniteSet(2..(c + 2)) /\ Cardinality(2..(c + 2)) = (c + 2) - 2 + 1
      BY <2>1, FS_Interval
    <2> QED BY <2>2
  <1>3. free # {}
    <2> SUFFICES ASSUME free = {} PROVE FALSE
      OBVIOUS
    <2> DEFINE f == [n \in N |-> Append(s, n)]
    <2>1. f \in [N -> used]
      OBVIOUS
    <2>2. \A n \in N : f[n] = Append(s, n) /\ n \in Int
      OBVIOUS
    <2> HIDE DEF N, f
    <2>3. PICK x \in N, y \in N : x # y /\ f[x] = f[y]
      BY <1>1, <1>2, <2>1, FS_PigeonHole
    <2>4. Append(s, x)[Len(s) + 1] = x /\ Append(s, y)[Len(s) + 1] = y
      BY <2>2
    <2> QED BY <2>2, <2>3, <2>4
  <1>4. \E n \in free : \A m \in free : n <= m
    <2>1. free \in SUBSET Nat
      OBVIOUS
    <2> HIDE DEF free
    <2> QED BY <1>3, <2>1, LeastNatural
  <1>5. PICK n : n = Min(free)
    OBVIOUS
  <1>6. n \in free
    <2> HIDE DEF free
    <2> QED BY <1>4, <1>5 DEF Min
  <1>7. Suffixed(used, s) = Append(s, n)
    BY <1>1, <1>5 DEF Suffixed
  <1> QED BY <1>6, <1>7

\* What a key is: the serial, or the serial and something behind it.
KeyOf(m, key) ==
    \/ key = m.serial
    \/ m.row >= 0 /\ m.col >= 0 /\ key = m.serial \o <<m.row, m.col>>
    \/ \E n \in Int : key = Append(m.serial, n)

LEMMA KeyIs ==
    ASSUME NEW m \in MineRecord, NEW used, IsFiniteSet(used)
    PROVE  /\ KeyFor(used, m) \in Seq(Int) /\ KeyOf(m, KeyFor(used, m))
           /\ KeyFor(used, m) \in used => /\ m.serial \in used /\ m.row >= 0 /\ m.col >= 0
                                          /\ KeyFor(used, m) = m.serial \o <<m.row, m.col>>
  <1>1. m.serial \in Seq(Int) /\ m.row \in Int /\ m.col \in Int
    BY DEF MineRecord
  <1>2. CASE m.serial \notin used
    <2>1. KeyFor(used, m) = m.serial
      BY <1>2 DEF KeyFor
    <2> QED BY <1>1, <1>2, <2>1 DEF KeyOf
  <1>3. CASE m.serial \in used /\ m.row >= 0 /\ m.col >= 0
    <2>1. KeyFor(used, m) = m.serial \o <<m.row, m.col>>
      BY <1>3 DEF KeyFor
    <2>2. <<m.row, m.col>> \in Seq(Int)
      BY <1>1, ShortSeqs
    <2>3. m.serial \o <<m.row, m.col>> \in Seq(Int)
      BY <1>1, <2>2, ConcatProperties
    <2> QED BY <1>3, <2>1, <2>3 DEF KeyOf
  <1>4. CASE m.serial \in used /\ ~(m.row >= 0 /\ m.col >= 0)
    <2>1. KeyFor(used, m) = Suffixed(used, m.serial)
      BY <1>4 DEF KeyFor
    <2>2. PICK n \in Int : Suffixed(used, m.serial) = Append(m.serial, n) /\ Append(m.serial, n) \notin used
      BY <1>1, SuffixFree
    <2>3. Append(m.serial, n) \in Seq(Int)
      BY <1>1
    <2> QED BY <2>1, <2>2, <2>3 DEF KeyOf
  <1> QED BY <1>2, <1>3, <1>4

Keys == Seq(Seq(Int))

LEMMA KeyedKeys ==
    ASSUME NEW keys \in Keys, NEW m \in MineRecord
    PROVE  Keyed(keys, m) \in Keys
  <1>1. PICK key \in Seq(Int) : key = KeyFor(ToSet(keys), m)
    BY ElementsFinite, KeyIs DEF Keys
  <1>2. Append(keys, key) \in Keys
    BY DEF Keys
  <1> QED BY <1>1, <1>2 DEF Keyed

KeysAre(ms, f) ==
    /\ f \in [0..Len(ms) -> Keys] /\ f[0] = <<>>
    /\ \A k \in 1..Len(ms) : f[k] = Keyed(f[k - 1], ms[k])

LEMMA KeySteps ==
    ASSUME NEW ms \in Seq(MineRecord)
    PROVE  \E f : KeysAre(ms, f) /\ make_unique_serial_map(ms) = f[Len(ms)]
  <1>1. PICK n \in Nat : n = Len(ms)
    OBVIOUS
  <1>2. PICK base \in Keys : base = <<>>
    <2>1. <<>> \in Keys
      BY DEF Keys
    <2> QED BY <2>1
  <1>0. \A k \in 1..n : ms[k] \in MineRecord
    BY <1>1
  <1>3. PICK step \in [Nat \X Keys -> Keys] :
          \A k \in 1..n, s \in Keys : step[<<k, s>>] = Keyed(s, ms[k])
    <2> DEFINE t == [ks \in Nat \X Keys |->
                       IF ks[1] \in 1..n THEN Keyed(ks[2], ms[ks[1]]) ELSE ks[2]]
    <2> HIDE DEF Keys
    <2>1. t \in [Nat \X Keys -> Keys]
      BY <1>0, KeyedKeys
    <2>2. \A k \in 1..n, s \in Keys : t[<<k, s>>] = Keyed(s, ms[k])
      OBVIOUS
    <2> HIDE DEF t
    <2> QED BY <2>1, <2>2
  <1> HIDE DEF Keys
  <1>4. PICK g \in [0..n -> Keys] : g[0] = base /\ \A k \in 1..n : g[k] = step[<<k, g[k - 1]>>]
    <2>1. \E g : Runs(g, n, Keys, base, step)
      BY LoopStates
    <2> QED BY <2>1 DEF Runs
  <1> DEFINE F(f) == [k \in 0..n |-> IF k = 0 THEN <<>> ELSE Keyed(f[k - 1], ms[k])]
             keys == CHOOSE keys : keys = F(keys)
  <1>5. g = F(g)
    <2>1. ASSUME NEW k \in 1..n PROVE g[k] = Keyed(g[k - 1], ms[k])
      <3>1. k - 1 \in 0..n
        OBVIOUS
      <3>2. g[k - 1] \in Keys
        BY <3>1
      <3> QED BY <1>3, <1>4, <3>1, <3>2
    <2>2. \A k \in 0..n : k = 0 \/ k \in 1..n
      OBVIOUS
    <2> QED BY <1>2, <1>4, <2>1, <2>2
  <1> HIDE DEF F
  <1>6. keys = F(keys)
    BY <1>5
  <1>7. make_unique_serial_map(ms) = keys[n]
    BY <1>1 DEF make_unique_serial_map, F
  <1> HIDE DEF keys
  <1>8. PICK f : f = keys /\ f = F(f)
    BY <1>6
  <1>9. f[0] = base /\ \A k \in 1..n : f[k] = Keyed(f[k - 1], ms[k])
    BY <1>2, <1>8 DEF F
  <1>10. \A k \in 0..n : f[k] \in Keys
    <2>1. ASSUME NEW k \in 1..n, f[k - 1] \in Keys PROVE f[k] \in Keys
      BY <1>0, <1>9, <2>1, KeyedKeys
    <2> QED BY <1>9, <2>1, LoopInvariant
  <1>11. f \in [0..n -> Keys]
    BY <1>8, <1>10 DEF F
  <1>12. KeysAre(ms, f)
    BY <1>1, <1>2, <1>9, <1>11 DEF KeysAre
  <1> QED BY <1>1, <1>7, <1>8, <1>12

LEMMA KeyListTyped ==
    ASSUME NEW ms \in Loaded \cup {<<>>}
    PROVE  KeyLists[ms] \in Keys /\ Len(KeyLists[ms]) \in Nat
  <1>1. ms \in Seq(MineRecord)
    BY LoadedMines
  <1>2. PICK f : KeysAre(ms, f) /\ make_unique_serial_map(ms) = f[Len(ms)]
    BY <1>1, KeySteps
  <1>3. Len(ms) \in 0..Len(ms)
    BY <1>1
  <1>4. KeyLists[ms] \in Keys
    BY <1>2, <1>3 DEF KeyLists, KeysAre
  <1> QED BY <1>4 DEF Keys

LEMMA KeyEnds ==
    ASSUME NEW m \in MineRecord, NEW key, KeyOf(m, key)
    PROVE  \E w \in Seq(Int) : /\ key = m.serial \o w /\ Len(w) \in 0..2
                               /\ Len(w) = 2 => w = <<m.row, m.col>>
  <1>1. m.serial \in Seq(Int) /\ m.row \in Int /\ m.col \in Int
    BY DEF MineRecord
  <1>2. CASE key = m.serial
    <2>1. PICK w \in Seq(Int) : w = <<>> /\ Len(w) = 0
      <3>1. <<>> \in Seq(Int) /\ Len(<<>>) = 0
        OBVIOUS
      <3> QED BY <3>1
    <2>2. m.serial \o w = m.serial
      BY <1>1, <2>1, ConcatEmptySeq
    <2>3. Len(w) \in 0..2 /\ Len(w) # 2
      BY <2>1
    <2> QED BY <1>2, <2>2, <2>3
  <1>3. CASE key = m.serial \o <<m.row, m.col>>
    <2>1. PICK w \in Seq(Int) : w = <<m.row, m.col>> /\ Len(w) = 2
      <3>1. <<m.row, m.col>> \in Seq(Int) /\ Len(<<m.row, m.col>>) = 2
        BY <1>1
      <3> QED BY <3>1
    <2>2. Len(w) \in 0..2
      BY <2>1
    <2> QED BY <1>3, <2>1, <2>2
  <1>4. CASE \E n \in Int : key = Append(m.serial, n)
    <2>1. PICK n \in Int : key = Append(m.serial, n)
      BY <1>4
    <2>2. PICK w \in Seq(Int) : w = <<n>> /\ Len(w) = 1
      <3>1. <<n>> \in Seq(Int) /\ Len(<<n>>) = 1
        OBVIOUS
      <3> QED BY <3>1
    <2>3. Append(m.serial, n) = m.serial \o w
      BY <1>1, <2>2, AppendIsConcat
    <2>4. Len(w) \in 0..2 /\ Len(w) # 2
      BY <2>2
    <2> QED BY <2>1, <2>3, <2>4
  <1> QED BY <1>2, <1>3, <1>4 DEF KeyOf

\* A key made of a serial and a place is the key of no other mine.
LEMMA KeyClash ==
    ASSUME NEW ms \in Seq(MineRecord), TellApart(ms), NEW i \in 1..Len(ms), NEW k \in 1..Len(ms),
           i # k, ms[k].row >= 0,
           KeyOf(ms[i], ms[k].serial \o <<ms[k].row, ms[k].col>>)
    PROVE  FALSE
  <1>1. ms[i] \in MineRecord /\ ms[k] \in MineRecord /\ DOMAIN ms = 1..Len(ms)
    OBVIOUS
  <1>2. PICK s \in Seq(Int), r \in Int, c \in Int :
          s = ms[k].serial /\ r = ms[k].row /\ c = ms[k].col
    BY <1>1 DEF MineRecord
  <1>3. PICK t \in Seq(Int), r2 \in Int, c2 \in Int :
          t = ms[i].serial /\ r2 = ms[i].row /\ c2 = ms[i].col
    BY <1>1 DEF MineRecord
  <1>4. PICK v \in Seq(Int) : v = <<r, c>> /\ Len(v) = 2
    <2>1. <<r, c>> \in Seq(Int) /\ Len(<<r, c>>) = 2
      OBVIOUS
    <2> QED BY <2>1
  <1>5. PICK w \in Seq(Int) : s \o v = t \o w /\ Len(w) \in 0..2 /\ (Len(w) = 2 => w = <<r2, c2>>)
    <2>1. KeyOf(ms[i], s \o v)
      BY <1>2, <1>4
    <2> QED BY <1>1, <1>3, <2>1, KeyEnds
  <1>6. PICK a \in Nat, b \in Nat, d \in Nat :
          a = Len(s) /\ b = Len(t) /\ d = Len(w) /\ a + 2 = b + d /\ d <= 2
    <2>1. Len(s \o v) = Len(s) + 2 /\ Len(t \o w) = Len(t) + Len(w)
      BY <1>4, ConcatProperties
    <2>2. Len(s) + 2 = Len(t) + Len(w)
      BY <1>5, <2>1
    <2>3. PICK d \in 0..2 : d = Len(w)
      BY <1>5, Zenon
    <2>4. PICK a \in Nat, b \in Nat : a = Len(s) /\ b = Len(t)
      OBVIOUS
    <2>5. d \in Nat /\ d <= 2
      OBVIOUS
    <2> QED BY <2>2, <2>3, <2>4, <2>5
  <1>7. IsPrefix(s, t)
    <2>1. Len(s) <= Len(t)
      BY <1>6
    <2> QED BY <1>5, <2>1, BeginsBoth
  <1>8. s = t
    BY <1>1, <1>2, <1>3, <1>7 DEF TellApart
  <1>9. w = <<r2, c2>> /\ v = w
    <2>1. w = <<r2, c2>>
      <3>1. a = b
        BY <1>6, <1>8
      <3>2. a + 2 = b + d
        BY <1>6, Zenon
      <3>3. d = 2
        BY <3>1, <3>2
      <3> QED BY <1>5, <1>6, <3>3, Zenon
    <2>2. s \o v = s \o w
      BY <1>5, <1>8
    <2>3. v = w
      BY <2>2, ConcatSimplifications
    <2> QED BY <2>1, <2>3
  <1>10. <<r2, c2>> = <<r, c>>
    BY <1>4, <1>9
  <1> QED BY <1>1, <1>2, <1>3, <1>8, <1>10 DEF TellApart

\* After each pass there is one key for each mine so far, and none twice.
KeysHold(ms, k, keys) ==
    Len(keys) = k /\ IsInjective(keys) /\ \A i \in 1..k : KeyOf(ms[i], keys[i])

LEMMA KeysGrow ==
    ASSUME NEW ms \in Seq(MineRecord), TellApart(ms), NEW k \in 1..Len(ms),
           NEW keys \in Keys, KeysHold(ms, k - 1, keys)
    PROVE  KeysHold(ms, k, Keyed(keys, ms[k]))
  <1>1. PICK m \in MineRecord : m = ms[k]
    OBVIOUS
  <1>2. keys \in Seq(Seq(Int)) /\ IsFiniteSet(ToSet(keys))
    BY ElementsFinite DEF Keys
  <1>3. PICK key \in Seq(Int) :
          /\ key = KeyFor(ToSet(keys), m) /\ KeyOf(m, key)
          /\ key \in ToSet(keys) => /\ m.row >= 0 /\ m.col >= 0
                                    /\ key = m.serial \o <<m.row, m.col>>
    BY <1>2, KeyIs
  <1>4. key \notin ToSet(keys)
    <2> SUFFICES ASSUME key \in ToSet(keys) PROVE FALSE
      OBVIOUS
    <2>1. PICK i \in 1..Len(keys) : keys[i] = key
      BY <1>2, ElementsAre
    <2>2. i \in 1..(k - 1) /\ i \in 1..Len(ms) /\ i # k
      BY <2>1 DEF KeysHold
    <2>3. KeyOf(ms[i], key)
      BY <2>1, <2>2 DEF KeysHold
    <2> QED BY <1>1, <1>3, <2>2, <2>3, KeyClash
  <1>5. PICK t \in Seq(Seq(Int)) :
          t = Append(keys, key) /\ Len(t) = k /\ t[k] = key /\ \A i \in 1..(k - 1) : t[i] = keys[i]
    <2> DEFINE t == Append(keys, key)
    <2>0. Len(keys) = k - 1
      BY DEF KeysHold
    <2>1. t \in Seq(Seq(Int)) /\ Len(t) = k /\ t[k] = key /\ \A i \in 1..(k - 1) : t[i] = keys[i]
      BY <1>2, <2>0
    <2> HIDE DEF t
    <2> QED BY <2>1 DEF t
  <1>6. Keyed(keys, m) = t
    BY <1>3, <1>4, <1>5 DEF Keyed
  <1>7. IsInjective(t)
    BY <1>2, <1>4, <1>5, InjectiveQueue DEF KeysHold
  <1>8. ASSUME NEW i \in 1..k PROVE KeyOf(ms[i], t[i])
    <2>1. CASE i = k
      BY <1>1, <1>3, <1>5, <2>1
    <2>2. CASE i # k
      <3>1. i \in 1..(k - 1)
        BY <2>2
      <3> QED BY <1>5, <3>1 DEF KeysHold
    <2> QED BY <2>1, <2>2
  <1> QED BY <1>1, <1>5, <1>6, <1>7, <1>8 DEF KeysHold

\* make_unique_serial_map loses no mine.
LEMMA KeysCount ==
    ASSUME NEW ms \in Loaded \cup {<<>>}, TellApart(ms)
    PROVE  Cardinality(ToSet(KeyLists[ms])) = Len(ms)
  <1>1. ms \in Seq(MineRecord)
    BY LoadedMines
  <1>2. PICK n \in Nat : n = Len(ms)
    BY <1>1
  <1>3. PICK f : KeysAre(ms, f) /\ make_unique_serial_map(ms) = f[n]
    BY <1>1, <1>2, KeySteps
  <1>4. KeysHold(ms, 0, f[0])
    <2>1. f[0] = <<>> /\ Len(<<>>) = 0
      BY <1>3 DEF KeysAre
    <2>2. IsInjective(<<>>)
      BY DEF IsInjective
    <2> QED BY <2>1, <2>2 DEF KeysHold
  <1>5. ASSUME NEW k \in 1..n, KeysHold(ms, k - 1, f[k - 1]) PROVE KeysHold(ms, k, f[k])
    <2>1. k \in 1..Len(ms) /\ k - 1 \in 0..Len(ms)
      BY <1>2
    <2>2. PICK keys \in Keys : keys = f[k - 1] /\ f[k] = Keyed(keys, ms[k])
      BY <1>3, <2>1 DEF KeysAre
    <2> QED BY <1>1, <1>5, <2>1, <2>2, KeysGrow
  <1>6. KeysHold(ms, n, f[n])
    <2> DEFINE T == {k \in 0..n : KeysHold(ms, k, f[k])}
    <2>1. 0 \in T /\ \A k \in 1..n : k - 1 \in T => k \in T
      BY <1>4, <1>5
    <2> HIDE DEF T
    <2>2. n \in T
      BY <2>1, LoopHolds
    <2> QED BY <2>2 DEF T
  <1>7. PICK keys \in Seq(Seq(Int)) : keys = f[n]
    BY <1>2, <1>3 DEF KeysAre, Keys
  <1>8. Cardinality(ToSet(keys)) = n
    BY <1>6, <1>7, InjectiveCount DEF KeysHold
  <1> QED BY <1>2, <1>3, <1>7, <1>8 DEF KeyLists

-----------------------------------------------------------------------------
(* What the workers hold.  Each key taken from the queue is searched for or  *)
(* solved; a thread ends only when the queue is empty; nothing is left over  *)
(* from one mode to the next.                                                *)

Searching == Pins /\ phase \in {"run", "write"}

QueueOK ==
    /\ mines \in Loaded \cup {<<>>}
    /\ taken \in 0..Len(serials) /\ out \subseteq 1..taken
    /\ holding \in [WorkerIds -> 0..taken] /\ left \subseteq WorkerIds

NoneDropped == \A i \in 1..taken : i \in out \/ \E w \in WorkerIds : holding[w] = i

LeftIdle == \A w \in left : holding[w] = 0 /\ taken = Len(serials)

NothingLeftOver == ~Searching => taken = 0 /\ holding = Idle /\ left = {} /\ out = {}

AllSolved == phase = "write" => taken = Len(serials) /\ holding = Idle

PinFile ==
    /\ pins.state \in {"absent", "torn", "whole"} /\ pins.of \in Loaded \cup {<<>>}
    /\ pins.state # "whole" => DOMAIN pins.entries = {}
    /\ pins.state = "whole" =>
         pins.entries = [key \in ToSet(KeyLists[pins.of]) |-> find_pin_for_serial(key)]

WorkInv == QueueOK /\ NoneDropped /\ LeftIdle /\ NothingLeftOver /\ AllSolved /\ PinFile


LEMMA SerialsTyped ==
    ASSUME mines \in Loaded \cup {<<>>}
    PROVE  serials \in Keys /\ Len(serials) \in Nat
  <1>1. PICK ms \in Loaded \cup {<<>>} : ms = mines
    OBVIOUS
  <1> QED BY <1>1, KeyListTyped DEF serials

\* Whatever the stage, when nothing has been taken nothing can be wrong.
LEMMA IdleWork ==
    ASSUME taken' = 0, holding' = Idle, left' = {}, out' = {},
           mines' \in Loaded \cup {<<>>}, phase' # "write", PinFile'
    PROVE  WorkInv'
  <1>1. Len(serials') \in Nat
    <2>1. PICK ms \in Loaded \cup {<<>>} : ms = mines'
      OBVIOUS
    <2> QED BY <2>1, KeyListTyped DEF serials
  <1>2. QueueOK'
    <2>1. 0 \in 0..Len(serials') /\ 0 \in 0..0
      BY <1>1
    <2>2. Idle \in [WorkerIds -> 0..0]
      BY <2>1 DEF Idle
    <2> QED BY <2>1, <2>2 DEF QueueOK
  <1>3. NoneDropped' /\ LeftIdle' /\ NothingLeftOver' /\ AllSolved'
    BY DEF NoneDropped, LeftIdle, NothingLeftOver, AllSolved
  <1> QED BY <1>2, <1>3 DEF WorkInv

LEMMA InitWork == Init => WorkInv
  <1> SUFFICES ASSUME Init PROVE WorkInv
    OBVIOUS
  <1>1. /\ mines = <<>> /\ taken = 0 /\ holding = Idle /\ left = {} /\ out = {}
        /\ pins.state = "absent" /\ pins.of = <<>> /\ DOMAIN pins.entries = {}
        /\ phase = "begin"
    BY DEF Init, PinInit, NoPins
  <1>2. Len(serials) \in Nat
    BY <1>1, SerialsTyped
  <1>3. QueueOK
    <2>1. 0 \in 0..Len(serials) /\ 0 \in 0..0
      BY <1>2
    <2>2. Idle \in [WorkerIds -> 0..0]
      BY <2>1 DEF Idle
    <2> QED BY <1>1, <2>1, <2>2 DEF QueueOK
  <1>4. NoneDropped /\ LeftIdle /\ NothingLeftOver /\ AllSolved /\ PinFile
    BY <1>1 DEF NoneDropped, LeftIdle, NothingLeftOver, AllSolved, PinFile
  <1> QED BY <1>3, <1>4 DEF WorkInv

LEMMA TakeWork ==
    ASSUME WorkInv, NEW w \in WorkerIds, RunWorker(w), Take(w)
    PROVE  WorkInv'
  <1>1. /\ w \notin left /\ holding[w] = 0 /\ taken < Len(serials) /\ taken' = taken + 1
        /\ holding' = [holding EXCEPT ![w] = taken + 1]
        /\ mines' = mines /\ left' = left /\ out' = out /\ pins' = pins
        /\ Pins /\ phase = "run" /\ phase' = "run" /\ todo' = todo
    BY DEF Take, RunWorker, control
  <1>2. Len(serials) \in Nat /\ serials' = serials
    BY <1>1, SerialsTyped DEF WorkInv, QueueOK, serials
  <1>3. taken \in Nat /\ taken' \in 0..Len(serials) /\ \A i \in 1..taken' : i = taken' \/ i \in 1..taken
    BY <1>1, <1>2 DEF WorkInv, QueueOK
  <1>4. /\ 0..taken \subseteq 0..taken' /\ taken' \in 0..taken' /\ 1..taken \subseteq 1..taken'
    BY <1>1, <1>3
  <1>5. /\ holding' \in [WorkerIds -> 0..taken'] /\ holding'[w] = taken'
        /\ \A v \in WorkerIds : v # w => holding'[v] = holding[v]
    BY <1>1, <1>4 DEF WorkInv, QueueOK
  <1>6. QueueOK'
    BY <1>1, <1>2, <1>3, <1>4, <1>5 DEF WorkInv, QueueOK
  <1>7. NoneDropped'
    <2> SUFFICES ASSUME NEW i \in 1..taken' PROVE i \in out \/ \E v \in WorkerIds : holding'[v] = i
      BY <1>1 DEF NoneDropped
    <2>1. CASE i = taken'
      BY <1>5, <2>1
    <2>2. CASE i \in 1..taken
      <3>1. i # 0
        BY <1>3, <2>2
      <3> QED BY <1>1, <1>5, <2>2, <3>1 DEF WorkInv, NoneDropped
    <2> QED BY <1>3, <2>1, <2>2
  <1>8. LeftIdle'
    BY <1>1, <1>2, <1>3, <1>5 DEF WorkInv, LeftIdle
  <1>9. Searching' /\ NothingLeftOver' /\ AllSolved' /\ PinFile'
    BY <1>1 DEF WorkInv, Searching, Pins, Doing, NothingLeftOver, AllSolved, PinFile
  <1> QED BY <1>6, <1>7, <1>8, <1>9 DEF WorkInv

LEMMA SolveWork ==
    ASSUME WorkInv, NEW w \in WorkerIds, RunWorker(w), Solve(w)
    PROVE  WorkInv'
  <1>1. /\ holding[w] # 0 /\ out' = out \cup {holding[w]} /\ holding' = [holding EXCEPT ![w] = 0]
        /\ mines' = mines /\ left' = left /\ taken' = taken /\ pins' = pins
        /\ Pins /\ phase = "run" /\ phase' = "run" /\ todo' = todo
    BY DEF Solve, RunWorker, control
  <1>2. Len(serials) \in Nat /\ serials' = serials
    BY <1>1, SerialsTyped DEF WorkInv, QueueOK, serials
  <1>3. taken \in Nat /\ holding[w] \in 1..taken /\ 0 \in 0..taken
    BY <1>1, <1>2 DEF WorkInv, QueueOK
  <1>4. /\ holding' \in [WorkerIds -> 0..taken] /\ holding'[w] = 0
        /\ \A v \in WorkerIds : v # w => holding'[v] = holding[v]
    BY <1>1, <1>3 DEF WorkInv, QueueOK
  <1>5. QueueOK'
    BY <1>1, <1>2, <1>3, <1>4 DEF WorkInv, QueueOK
  <1>6. NoneDropped'
    BY <1>1, <1>4 DEF WorkInv, NoneDropped
  <1>7. LeftIdle'
    BY <1>1, <1>2, <1>4 DEF WorkInv, QueueOK, LeftIdle
  <1>8. Searching' /\ NothingLeftOver' /\ AllSolved' /\ PinFile'
    BY <1>1 DEF WorkInv, Searching, Pins, Doing, NothingLeftOver, AllSolved, PinFile
  <1> QED BY <1>5, <1>6, <1>7, <1>8 DEF WorkInv

LEMMA LeaveWork ==
    ASSUME WorkInv, NEW w \in WorkerIds, RunWorker(w), Leave(w)
    PROVE  WorkInv'
  <1>1. /\ holding[w] = 0 /\ taken = Len(serials) /\ left' = left \cup {w}
        /\ mines' = mines /\ taken' = taken /\ holding' = holding /\ out' = out /\ pins' = pins
        /\ Pins /\ phase = "run" /\ phase' = "run" /\ todo' = todo
    BY DEF Leave, RunWorker, control
  <1>2. serials' = serials
    BY <1>1 DEF serials
  <1>3. QueueOK' /\ NoneDropped' /\ LeftIdle'
    BY <1>1, <1>2 DEF WorkInv, QueueOK, NoneDropped, LeftIdle
  <1>4. Searching' /\ NothingLeftOver' /\ AllSolved' /\ PinFile'
    BY <1>1 DEF WorkInv, Searching, Pins, Doing, NothingLeftOver, AllSolved, PinFile
  <1> QED BY <1>3, <1>4 DEF WorkInv

\* When the workers have ended, each key has been solved.
LEMMA OpenPinsWork ==
    ASSUME WorkInv, OpenPins
    PROVE  WorkInv'
  <1>1. /\ mines' = mines /\ taken' = taken /\ holding' = holding /\ left' = left /\ out' = out
        /\ pins'.state = "torn" /\ pins'.of = <<>> /\ DOMAIN pins'.entries = {}
        /\ Pins /\ phase = "run" /\ phase' = "write" /\ todo' = todo /\ WorkersEnded
    BY DEF OpenPins, Phase, search, NoPins
  <1>2. serials' = serials
    BY <1>1 DEF serials
  <1>3. taken = Len(serials) /\ holding = Idle
    <2>1. CASE Doing("pins_threaded")
      <3>1. left = WorkerIds
        BY <1>1, <2>1 DEF WorkersEnded
      <3>2. 1 \in WorkerIds
        BY PinAssumption DEF WorkerIds
      <3>3. holding \in [WorkerIds -> 0..taken]
        BY DEF WorkInv, QueueOK
      <3> QED BY <3>1, <3>2, <3>3 DEF WorkInv, LeftIdle, Idle
    <2>2. CASE ~Doing("pins_threaded")
      BY <1>1, <2>2 DEF WorkersEnded
    <2> QED BY <2>1, <2>2
  <1>4. QueueOK' /\ NoneDropped' /\ LeftIdle'
    BY <1>1, <1>2 DEF WorkInv, QueueOK, NoneDropped, LeftIdle
  <1>5. Searching' /\ NothingLeftOver'
    BY <1>1 DEF Searching, Pins, Doing, NothingLeftOver
  <1>6. AllSolved' /\ PinFile'
    BY <1>1, <1>2, <1>3 DEF AllSolved, PinFile, Idle
  <1> QED BY <1>4, <1>5, <1>6 DEF WorkInv

LEMMA WritePinsWork ==
    ASSUME WorkInv, WritePins
    PROVE  WorkInv'
  <1>1. /\ taken' = 0 /\ holding' = Idle /\ left' = {} /\ out' = {}
        /\ pins' = [state |-> "whole", of |-> mines,
                    entries |-> [key \in {serials[i] : i \in out} |-> find_pin_for_serial(key)]]
        /\ mines' = mines \/ mines' = <<>>
        /\ Pins /\ phase = "write" /\ phase' = "begin"
    BY DEF WritePins, BeginSearch, Return
  <1>2. taken = Len(serials) /\ holding = Idle
    BY <1>1 DEF WorkInv, AllSolved
  <1>3. serials \in Keys /\ Len(serials) \in Nat
    BY SerialsTyped DEF WorkInv, QueueOK
  <1>4. out = 1..Len(serials)
    <2>1. \A w \in WorkerIds : holding[w] = 0
      BY <1>2 DEF Idle
    <2>2. \A i \in 1..taken : i # 0
      BY <1>2, <1>3
    <2>3. 1..taken \subseteq out
      BY <2>1, <2>2 DEF WorkInv, NoneDropped
    <2>4. out \subseteq 1..taken
      BY DEF WorkInv, QueueOK
    <2> QED BY <1>2, <2>3, <2>4
  <1>5. {serials[i] : i \in out} = ToSet(serials)
    <2>1. DOMAIN serials = 1..Len(serials)
      BY <1>3 DEF Keys
    <2> QED BY <1>4, <2>1 DEF ToSet
  <1>6. PinFile'
    BY <1>1, <1>5 DEF PinFile, serials, WorkInv, QueueOK
  <1> QED BY <1>1, <1>6, IdleWork DEF WorkInv, QueueOK

LEMMA NextWork == Inv /\ WorkInv /\ [Next]_vars => WorkInv'
  <1> SUFFICES ASSUME Inv, WorkInv, [Next]_vars PROVE WorkInv'
    OBVIOUS
  <1>1. mines \in Loaded \cup {<<>>} /\ PinFile
    BY DEF WorkInv, QueueOK
  <1>2. CASE \E w \in WorkerIds : RunWorker(w)
    BY <1>2, TakeWork, SolveWork, LeaveWork DEF RunWorker
  <1>3. CASE Start \/ BeginPart1 \/ EndPart1 \/ RemoveCache \/ \E r \in RoverIds : RunRover(r)
    <2>1. mines' = mines /\ taken' = taken /\ holding' = holding /\ left' = left /\ out' = out /\ pins' = pins
      BY <1>3 DEF Start, BeginPart1, EndPart1, RemoveCache, RunRover, part2
    <2>2. ~Searching
      BY <1>3 DEF Start, BeginPart1, EndPart1, RemoveCache, RunRover, Searching, Pins, Paths, Doing
    <2>3. taken = 0 /\ holding = Idle /\ left = {} /\ out = {}
      BY <2>2 DEF WorkInv, NothingLeftOver
    <2>4. phase' # "write"
      BY <1>3 DEF Start, BeginPart1, EndPart1, RemoveCache, RunRover, Return, Phase, Inv, MainOK,
                  Paths, Pins, Doing
    <2>5. PinFile'
      BY <1>1, <2>1 DEF PinFile
    <2> QED BY <1>1, <2>1, <2>3, <2>4, <2>5, IdleWork
  <1>4. CASE LoadMines
    <2>1. taken' = taken /\ holding' = holding /\ left' = left /\ out' = out /\ pins' = pins
          /\ mines' \in Loaded /\ phase' = "begin"
      BY <1>4 DEF LoadMines, search, Return
    <2>2. ~Searching
      BY <1>4 DEF LoadMines, Searching, Pins, Doing
    <2>3. taken = 0 /\ holding = Idle /\ left = {} /\ out = {}
      BY <2>2 DEF WorkInv, NothingLeftOver
    <2>4. PinFile'
      BY <1>1, <2>1 DEF PinFile
    <2> QED BY <2>1, <2>3, <2>4, IdleWork
  <1>5. CASE BeginPart2
    <2>1. taken' = 0 /\ holding' = Idle /\ left' = {} /\ out' = {} /\ pins' = pins
          /\ mines' = mines /\ phase' = "run"
      BY <1>5 DEF BeginPart2, BeginSearch, Phase
    <2>2. PinFile'
      BY <1>1, <2>1 DEF PinFile
    <2> QED BY <1>1, <2>1, <2>2, IdleWork
  <1>6. CASE Gone
    <2>1. taken' = 0 /\ holding' = Idle /\ left' = {} /\ out' = {} /\ pins' = pins
          /\ mines' = <<>> /\ phase' = "begin"
      BY <1>6 DEF Gone, BeginSearch
    <2>2. PinFile'
      BY <1>1, <2>1 DEF PinFile
    <2> QED BY <2>1, <2>2, IdleWork
  <1>7. CASE UNCHANGED vars
    BY <1>7 DEF vars, WorkInv, QueueOK, NoneDropped, LeftIdle, NothingLeftOver, AllSolved, PinFile,
                serials, Searching, Pins, Doing
  <1> QED BY <1>2, <1>3, <1>4, <1>5, <1>6, <1>7, OpenPinsWork, WritePinsWork
       DEF Next, program, main, Raise, Die

-----------------------------------------------------------------------------
(* The theorems.                                                             *)

LEMMA AllInvariant == Spec => [](Inv /\ CommandsInv /\ WorkInv)
  <1>1. Init => Inv /\ CommandsInv /\ WorkInv
    BY InitInv, InitCommands, InitWork
  <1>2. Inv /\ CommandsInv /\ WorkInv /\ [Next]_vars => (Inv /\ CommandsInv /\ WorkInv)'
    BY NextInv, NextCommands, NextWork
  <1> QED BY <1>1, <1>2, PTL DEF Spec

\* No entry of the cache file is ever lost: a file that is whole has every
\* rover it ever had, for any number of rovers, runs, modes, kills and failed
\* saves (load_cache, get_rover_commands, save_cache).
THEOREM EntriesNeverLost == Spec => []EntriesKept
  <1>1. Inv => EntriesKept
    BY DEF Inv
  <1> QED BY <1>1, Invariance, PTL

\* With a cache and no refresh a run asks for a rover at most once in all its
\* modes, and never for one that the file has had (get_rover_commands).
THEOREM AskedOnce == Spec => FetchedOnce
  <1> DEFINE Once == \A r \in RoverIds :
                        fetched'[r] > fetched[r] => fetched[r] = 0 /\ r \notin known
  <1>1. ASSUME Inv, Next, Thrifty PROVE Once
    <2>1. CASE \E r \in RoverIds : RunRover(r)
      <3>1. PICK r \in RoverIds : RunRover(r)
        BY <2>1
      <3>2. CASE Fetch(r) \/ FetchFails(r)
        <4>1. /\ pc[r] = "fetch" /\ fetched' = [fetched EXCEPT ![r] = @ + 1]
              /\ fetched \in [RoverIds -> Nat]
          BY <1>1, <3>2 DEF Fetch, FetchFails, Goto, Inv, ThreadsOK
        <4>2. fetched[r] = 0 /\ r \notin DOMAIN cache
          BY <1>1, <4>1 DEF Inv, AskedFound
        <4>3. r \notin known
          BY <1>1, <3>1, <4>2, RoverStep DEF Inv, CacheHolds, Thrifty
        <4> QED BY <4>1, <4>2, <4>3
      <3>3. CASE ~(Fetch(r) \/ FetchFails(r))
        <4>1. fetched' = fetched
          BY <3>1, <3>3 DEF RunRover, run_part1_one, get_rover_commands, write_path_file, LookUp,
             OpenCache, OpenFails, DumpCache, DumpFails, OpenPath, WritePath, PathFails
        <4> QED BY <1>1, <4>1 DEF Inv, ThreadsOK
      <3> QED BY <3>2, <3>3
    <2>2. CASE ~\E r \in RoverIds : RunRover(r)
      <3>1. fetched' = fetched \/ fetched' = [r \in RoverIds |-> 0]
        BY <1>1, <2>2 DEF Next, program, main, Start, Raise, Die, Gone, Over, RemoveCache,
           BeginPart1, load_cache, EndPart1, LoadMines, Return, BeginPart2, OpenPins, WritePins,
           RunWorker, part1
      <3> QED BY <1>1, <3>1 DEF Inv, ThreadsOK
    <2> QED BY <2>1, <2>2
  <1>2. Inv /\ [Next]_vars => [Thrifty => Once]_vars
    BY <1>1
  <1>3. Inv /\ [Next]_vars =>
          [opts.cache /\ ~opts.refresh =>
             \A r \in RoverIds : fetched'[r] > fetched[r] => fetched[r] = 0 /\ r \notin known]_vars
    BY <1>2 DEF Thrifty
  <1> QED BY <1>3, Invariance, PTL DEF Spec, FetchedOnce

\* Every variable has its type: whatever the API answers, the cache, its file
\* and the rovers hold commands only (_normalize_commands), what the workers hold
\* are places of the queue, and the PIN file has keys of the mines it is for.
THEOREM TypeCorrect == Spec => []TypeOK
  <1>1. ASSUME Inv, CommandsInv, WorkInv PROVE TypeOK
    <2>1. \A c \in Obtained : c \in Program /\ c \in Seq(Letters)
      BY ProgramsTyped DEF Obtained, Program
    <2>2. <<>> \in Seq(Letters)
      OBVIOUS
    <2>3. cmds \in [RoverIds -> Seq(Letters)]
      BY <1>1, <2>1, <2>2 DEF CommandsInv, DataOK
    <2>4. CacheTypeOK
      BY <1>1, <2>1, <2>3 DEF CacheTypeOK, Inv, ThreadsOK, FileKnown, CommandsInv, DataOK
    <2>5. PinTypeOK
      <3>1. DOMAIN pins.entries \subseteq ToSet(KeyLists[pins.of])
        BY <1>1 DEF WorkInv, PinFile
      <3>2. todo \in Seq(Stages)
        BY <1>1 DEF Inv, MainOK, InOrder
      <3> QED BY <1>1, <3>1, <3>2 DEF PinTypeOK, Inv, MainOK, CommandsInv, DataOK, WorkInv,
                                      QueueOK, PinFile
    <2> QED BY <2>4, <2>5 DEF TypeOK
  <1> QED BY <1>1, AllInvariant, PTL

\* The path file of a rover that is done has the cells its commands lead to up to
\* the first mine that it leaves armed (simulate_rover), for any map and any
\* commands; and a whole cache file keeps these commands for it, whatever the
\* other threads save or fail to save.
THEOREM PathsAlwaysTell == Spec => []PathsTell
  <1>1. ASSUME Inv, CommandsInv PROVE PathsTell
    <2> SUFFICES ASSUME NEW r \in RoverIds, pc[r] = "done"
                 PROVE  /\ paths[r] = Walk[cmds[r]]
                        /\ opts.cache /\ file.state = "whole" =>
                             r \in DOMAIN file.entries /\ file.entries[r] = cmds[r]
      BY DEF PathsTell
    <2>1. Running
      BY <1>1 DEF Inv, ThreadsOK
    <2>2. opts.cache => r \in DOMAIN cache /\ cache[r] = cmds[r]
      BY <1>1, <2>1 DEF Inv, Cached, CommandsInv, DictAgrees
    <2>3. paths[r] = Walk[cmds[r]]
      BY <1>1 DEF CommandsInv, PathsWalked
    <2> QED BY <1>1, <2>1, <2>2, <2>3 DEF CommandsInv, FileAgrees
  <1> QED BY <1>1, AllInvariant, PTL

\* A PIN file that is whole has a PIN for each key of make_unique_serial_map, and
\* one that opens the key, in every mode and for any number of workers: no worker
\* drops a key, and main waits for all.  No two mines of a map share a key, whatever
\* the map and the serial mode, and of a list none if TellApart holds of them.
THEOREM EachMineAlwaysHasPin == Spec => []EachMineHasPin
  <1>1. ASSUME WorkInv PROVE EachMineHasPin
    <2>1. PinsComplete
      BY <1>1 DEF PinsComplete, WorkInv, PinFile, find_pin_for_serial, Opens
    <2>2. ASSUME pins.state = "whole", pins.of \in MapLoaded \/ TellApart(pins.of)
          PROVE  Cardinality(DOMAIN pins.entries) = Len(pins.of)
      <3>1. PICK ms \in Loaded \cup {<<>>} : ms = pins.of
        BY <1>1, <2>2 DEF WorkInv, PinFile
      <3>2. TellApart(ms)
        <4>1. \A map \in MapLoaded : TellApart(map)
          BY MapApart, PinAssumption DEF MapLoaded
        <4> QED BY <2>2, <3>1, <4>1
      <3>3. Cardinality(ToSet(KeyLists[ms])) = Len(ms)
        BY <3>1, <3>2, KeysCount
      <3> QED BY <2>1, <2>2, <3>1, <3>3 DEF PinsComplete
    <2> QED BY <2>1, <2>2 DEF EachMineHasPin
  <1> QED BY <1>1, AllInvariant, PTL
=============================================================================
