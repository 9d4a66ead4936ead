---------------------------- MODULE CommandCache ----------------------------
(***************************************************************************)
(* Part 1 of 892/Lab1/Lab1.py: for each rover look its commands up in a    *)
(* cache or fetch them over HTTP, save the cache to its file, walk the     *)
(* rover over the map and write the cells it visited.  The rovers are      *)
(* served one after the other by main, or each by a thread of its own.     *)
(*                                                                         *)
(* The dict is shared.  It is looked up without the lock; it is changed    *)
(* and written to the file with it.  open(path, "w") truncates a file, so  *)
(* it is torn until it has been written and closed.                        *)
(***************************************************************************)
EXTENDS Integers, Sequences, FiniteSets, SequencesExt, FiniteSetsExt, Selections

CONSTANTS
    Rovers,     \* --rovers: the ids are 1..Rovers
    Answers,    \* what the rover API may answer
    Rows, Cols, \* the map's size
    Mined       \* its cells with a number above 0

RoverIds == 1..Rovers
Cells == (0..(Rows - 1)) \X (0..(Cols - 1))
Letters == {"L", "R", "M", "D"}

ASSUME CacheAssumption ==
    /\ Rovers \in Nat /\ Rows \in Nat \ {0} /\ Cols \in Nat \ {0}
    /\ Answers \subseteq Seq(STRING) /\ Mined \subseteq Cells

VARIABLES
    opts,     \* --cache is given, --refresh-cache is given
    file,     \* the cache file: whether it is there and whole, and its entries
    cache,    \* cache_obj
    pc,       \* where each rover's run_part1_one is
    cmds,     \* its cmds
    fetched,  \* how often the running program asked the API for each rover
    paths     \* the cells marked in each path file, none if it is not whole

disk == <<file, paths>>
threads == <<pc, cmds>>

NoEntries == [r \in {} |-> <<>>]

-----------------------------------------------------------------------------
(* simulate_rover.                                                          *)

Pose(p, d) == [at |-> p, dir |-> d]
turn_left(d) == (d + 3) % 4
turn_right(d) == (d + 1) % 4

\* 0 north, 1 east, 2 south, 3 west: row and column.
forward_delta(d) ==
    CASE d = 0 -> <<-1, 0>> [] d = 1 -> <<0, 1>> [] d = 2 -> <<1, 0>> [] d = 3 -> <<0, -1>>

Ahead(p, d) == <<p[1] + forward_delta(d)[1], p[2] + forward_delta(d)[2]>>

Landed == [at |-> <<0, 0>>, dir |-> 2, grid |-> Mined, visited |-> {<<0, 0>>},
           on_armed_mine |-> <<0, 0>> \in Mined, exploded |-> FALSE]

Turned(d, ch) == IF ch = "L" THEN turn_left(d) ELSE turn_right(d)

Advance(s, there) ==
    [s EXCEPT !.at = there, !.visited = @ \cup {there}, !.on_armed_mine = there \in s.grid]

\* A plausible bug: D leaves the number in the grid.
ObeyLeavesMine(s, ch) ==
    LET there == Ahead(s.at, s.dir) IN
    IF s.exploded THEN s
    ELSE IF ch = "D" THEN [s EXCEPT !.on_armed_mine = FALSE]
    ELSE IF s.on_armed_mine THEN [s EXCEPT !.exploded = TRUE]
    ELSE IF ch # "M" THEN [s EXCEPT !.dir = Turned(@, ch)]
    ELSE IF there \in Cells THEN Advance(s, there) ELSE s

\* One turn of the loop over the commands.
Obey(s, ch) ==
    LET there == Ahead(s.at, s.dir) IN
    IF s.exploded THEN s
    ELSE IF ch = "D" THEN [s EXCEPT !.grid = @ \ {s.at}, !.on_armed_mine = FALSE]
    ELSE IF s.on_armed_mine THEN [s EXCEPT !.exploded = TRUE]
    ELSE IF ch # "M" THEN [s EXCEPT !.dir = Turned(@, ch)]
    ELSE IF there \in Cells THEN Advance(s, there) ELSE s

simulate_rover(commands) ==
    LET after[k \in 0..Len(commands)] ==
            IF k = 0 THEN Landed ELSE Obey(after[k - 1], commands[k])
    IN  after[Len(commands)]

-----------------------------------------------------------------------------
(* Where a rover's run_part1_one is.  In "saving" and "writing" the cache   *)
(* file and its path file are open.                                         *)

Ended == {"done", "failed"}
PC == {"off", "new", "fetch", "update", "saving", "walk", "writing"} \cup Ended

NoOpts == [cache |-> FALSE, refresh |-> FALSE]

CacheInit ==
    /\ opts = NoOpts
    /\ file = [state |-> "absent", entries |-> NoEntries]
    /\ cache = NoEntries
    /\ pc = [r \in RoverIds |-> "off"]
    /\ cmds = [r \in RoverIds |-> <<>>]
    /\ fetched = [r \in RoverIds |-> 0]
    /\ paths = [r \in RoverIds |-> {}]

Goto(r, from, to) == pc[r] = from /\ pc' = [pc EXCEPT ![r] = to]

-----------------------------------------------------------------------------
(* The cache and its file.                                                  *)

\* A plausible bug: each mode begins with an empty dict.
start_empty ==
    /\ ~(opts.cache /\ file.state = "torn")
    /\ cache' = NoEntries
    /\ pc' = [r \in RoverIds |-> "new"]
    /\ UNCHANGED <<opts, disk, cmds, fetched>>

\* The head of run_part1_sequential and run_part1_threaded.
load_cache ==
    /\ ~(opts.cache /\ file.state = "torn")
    /\ cache' = IF opts.cache THEN file.entries ELSE NoEntries
    /\ pc' = [r \in RoverIds |-> "new"]
    /\ UNCHANGED <<opts, disk, cmds, fetched>>

\* The look-up of get_rover_commands; the loop comes to r, or its thread starts.
LookUp(r) ==
    /\ IF opts.cache /\ ~opts.refresh /\ r \in DOMAIN cache
       THEN Goto(r, "new", "walk") /\ cmds' = [cmds EXCEPT ![r] = cache[r]]
       ELSE Goto(r, "new", "fetch") /\ UNCHANGED cmds
    /\ UNCHANGED <<opts, disk, cache, fetched>>

\* A plausible bug: the answer is used as it came.
normalize_nothing(raw) == raw

normalize_commands(raw) == Kept(raw, {i \in DOMAIN raw : raw[i] \in Letters})

\* fetch_rover_commands gets an answer that has a command in it.
Fetch(r) ==
    /\ Goto(r, "fetch", IF opts.cache THEN "update" ELSE "walk")
    /\ \E raw \in Answers :
         /\ normalize_commands(raw) # <<>>
         /\ cmds' = [cmds EXCEPT ![r] = normalize_commands(raw)]
    /\ fetched' = [fetched EXCEPT ![r] = @ + 1]
    /\ UNCHANGED <<opts, disk, cache>>

\* It gets no answer in time, an error, or an answer without a command.
FetchFails(r) ==
    /\ Goto(r, "fetch", "failed")
    /\ fetched' = [fetched EXCEPT ![r] = @ + 1]
    /\ UNCHANGED <<opts, disk, cache, cmds>>

\* with _cache_lock: nobody else is in it.
Locked == \E q \in RoverIds : pc[q] = "saving"
Stored(r) == [q \in DOMAIN cache \cup {r} |-> IF q = r THEN cmds[r] ELSE cache[q]]

\* cache[key] = cmds, and save_cache opens the file.
OpenCache(r) ==
    /\ ~Locked /\ Goto(r, "update", "saving")
    /\ cache' = Stored(r)
    /\ file' = [state |-> "torn", entries |-> NoEntries]
    /\ UNCHANGED <<opts, paths, cmds, fetched>>

\* The file cannot be opened; the entry stays in the dict.
OpenFails(r) ==
    /\ ~Locked /\ Goto(r, "update", "failed")
    /\ cache' = Stored(r)
    /\ UNCHANGED <<opts, disk, cmds, fetched>>

\* A plausible bug: each thread saves a dict of its own.
DumpOwn(r) ==
    /\ Goto(r, "saving", "walk")
    /\ file' = [state |-> "whole", entries |-> [q \in {r} |-> cmds[r]]]
    /\ UNCHANGED <<opts, paths, cache, cmds, fetched>>

\* json.dump, and the file is closed.
DumpCache(r) ==
    /\ Goto(r, "saving", "walk")
    /\ file' = [state |-> "whole", entries |-> cache]
    /\ UNCHANGED <<opts, paths, cache, cmds, fetched>>

\* The disk is full: what is written is not whole.
DumpFails(r) ==
    /\ Goto(r, "saving", "failed")
    /\ UNCHANGED <<opts, disk, cache, cmds, fetched>>

get_rover_commands(r) ==
    \/ Fetch(r) \/ FetchFails(r)
    \/ OpenCache(r) \/ OpenFails(r) \/ DumpCache(r) \/ DumpFails(r)

-----------------------------------------------------------------------------
(* write_path_file.                                                         *)

\* The commands that the API may give, and where they lead.
Programs == {normalize_commands(raw) : raw \in Answers}
Visited == [commands \in Programs |-> simulate_rover(commands).visited]

OpenPath(r) ==
    /\ Goto(r, "walk", "writing")
    /\ paths' = [paths EXCEPT ![r] = {}]
    /\ UNCHANGED <<opts, file, cache, cmds, fetched>>

WritePath(r) ==
    /\ Goto(r, "writing", "done")
    /\ paths' = [paths EXCEPT ![r] = Visited[cmds[r]]]
    /\ UNCHANGED <<opts, file, cache, cmds, fetched>>

PathFails(r) ==
    /\ Goto(r, "walk", "failed") \/ Goto(r, "writing", "failed")
    /\ UNCHANGED <<opts, disk, cache, cmds, fetched>>

write_path_file(r) == OpenPath(r) \/ WritePath(r) \/ PathFails(r)

-----------------------------------------------------------------------------
\* The rest of run_part1_one.
run_part1_one(r) == get_rover_commands(r) \/ write_path_file(r)

\* What the functions of part 1 leave behind: nothing but the disk.
ForgetPart1 ==
    /\ cache' = NoEntries
    /\ pc' = [r \in RoverIds |-> "off"]
    /\ cmds' = [r \in RoverIds |-> <<>>]

\* In its loop main goes from one rover to the next, and what one raises ends
\* the program; it joins all threads, whatever became of them.
InTurn(r) == \A q \in 1..(r - 1) : pc[q] = "done"
AllDone == \A r \in RoverIds : pc[r] = "done"
AllEnded == \A r \in RoverIds : pc[r] \in Ended
=============================================================================
