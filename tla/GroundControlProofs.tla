------------------------- MODULE GroundControlProofs -------------------------
(***************************************************************************)
(* Theorems about GroundControl, for any number of rovers and threads, any *)
(* map and any command files.                                              *)
(***************************************************************************)
EXTENDS GroundControl, DataLemmas

-----------------------------------------------------------------------------
(* The inductive invariants.  A rover that shares a PIN stands on its mine   *)
(* and has a command left to count.  A report belongs to a rover that has    *)
(* ended, and in sequential mode a rover has been started only when all      *)
(* before it have come back.                                                 *)

SharingOnMine ==
    \A r \in Rovers :
        pc[r] \in {"sharing", "shared"} => at[r] \in Mine /\ executed[r] < received[r]

TypeInv == TypeOK /\ SharingOnMine

ReportsOfEnded ==
    /\ \A r \in Rovers : pc[r] = "done" => \E rep \in reports : rep.rover = r
    /\ \A rep \in reports : pc[rep.rover] \in Ended

OneByOne ==
    mode = "sequential" =>
        \A q, r \in Rovers : q < r /\ pc[r] # "new" => pc[q] = "done"

FleetInv == ReportsOfEnded /\ OneByOne /\ SummaryWhole

-----------------------------------------------------------------------------
(* The map.                                                                  *)

LEMMA MaxOfTwo ==
    ASSUME NEW a \in Int, NEW b \in Int
    PROVE  Max({a, b}) = IF a >= b THEN a ELSE b
  <1>1. \E x \in {a, b} : \A y \in {a, b} : x >= y
    OBVIOUS
  <1>2. Max({a, b}) \in {a, b} /\ \A y \in {a, b} : Max({a, b}) >= y
    BY <1>1 DEF Max
  <1> QED BY <1>2

LEMMA MinOfTwo ==
    ASSUME NEW a \in Int, NEW b \in Int
    PROVE  Min({a, b}) = IF a <= b THEN a ELSE b
  <1>1. \E x \in {a, b} : \A y \in {a, b} : x <= y
    OBVIOUS
  <1>2. Min({a, b}) \in {a, b} /\ \A y \in {a, b} : Min({a, b}) <= y
    BY <1>1 DEF Min
  <1> QED BY <1>2

LEMMA ClampInRange ==
    ASSUME NEW size \in Nat \ {0}, NEW x \in Int
    PROVE  Max({0, Min({size - 1, x})}) \in 0..(size - 1)
  <1>1. Min({size - 1, x}) = IF size - 1 <= x THEN size - 1 ELSE x
    BY MinOfTwo
  <1>2. Max({0, Min({size - 1, x})}) =
          IF 0 >= Min({size - 1, x}) THEN 0 ELSE Min({size - 1, x})
    BY <1>1, MaxOfTwo
  <1> QED BY <1>1, <1>2

LEMMA AheadInGrid ==
    ASSUME NEW p \in Grid, NEW d \in 0..3
    PROVE  Ahead(p, d) \in Grid
  <1>1. p[1] \in Int /\ p[2] \in Int
    BY GroundControlAssumption DEF Grid
  <1>2. forward_delta(d)[1] \in Int /\ forward_delta(d)[2] \in Int
    BY DEF forward_delta
  <1>3. /\ p[1] + forward_delta(d)[1] \in Int /\ p[2] + forward_delta(d)[2] \in Int
    BY <1>1, <1>2
  <1>4. /\ Max({0, Min({Width - 1, p[1] + forward_delta(d)[1]})}) \in 0..(Width - 1)
        /\ Max({0, Min({Height - 1, p[2] + forward_delta(d)[2]})}) \in 0..(Height - 1)
    BY <1>3, ClampInRange, GroundControlAssumption
  <1> QED BY <1>4 DEF Ahead, clamp_position, Grid

-----------------------------------------------------------------------------
(* The course of a rover: where its commands take it, one after the other.   *)

Pose == [at : Grid, to : 0..3]

\* The pose after the k-th command of r, from the pose p.
Passed(r, k, p) ==
    LET c == Commands[r][k]
        there == Ahead(p.at, p.to)
    IN  [at |-> IF c = "M" /\ there \notin Blocked THEN there ELSE p.at,
         to |-> IF c \in {"L", "R"} THEN Turned(p.to, c) ELSE p.to]

LEMMA PassedPose ==
    ASSUME NEW r \in Rovers, NEW k \in Nat, NEW p \in Pose
    PROVE  Passed(r, k, p) \in Pose
  <1> DEFINE c == Commands[r][k]
             there == Ahead(p.at, p.to)
             where == IF c = "M" /\ there \notin Blocked THEN there ELSE p.at
             way == IF c \in {"L", "R"} THEN Turned(p.to, c) ELSE p.to
  <1>1. p.at \in Grid /\ p.to \in 0..3
    BY DEF Pose
  <1>2. there \in Grid
    BY <1>1, AheadInGrid
  <1>3. Turned(p.to, c) \in 0..3
    <2>1. p.to \in {0, 1, 2, 3}
      BY <1>1
    <2> QED BY <2>1 DEF Turned
  <1>4. Passed(r, k, p) = [at |-> where, to |-> way]
    BY DEF Passed
  <1> HIDE DEF there, c
  <1>5. where \in Grid /\ way \in 0..3
    BY <1>1, <1>2, <1>3
  <1> QED BY <1>4, <1>5 DEF Pose

\* The recursion of Course does what it says.
LEMMA CourseSteps ==
    ASSUME NEW r \in Rovers
    PROVE  /\ Course(r) \in [0..Len(Commands[r]) -> Pose]
           /\ Course(r)[0] = [at |-> Start, to |-> 0]
           /\ \A k \in 1..Len(Commands[r]) : Course(r)[k] = Passed(r, k, Course(r)[k - 1])
  <1>1. PICK n \in Nat : n = Len(Commands[r])
    BY GroundControlAssumption
  <1>2. PICK base \in Pose : base = [at |-> Start, to |-> 0]
    <2>1. [at |-> Start, to |-> 0] \in Pose
      BY GroundControlAssumption DEF Pose
    <2> HIDE DEF Pose
    <2> QED BY <2>1
  <1>3. PICK step \in [Nat \X Pose -> Pose] :
          \A k \in Nat, p \in Pose : step[<<k, p>>] = Passed(r, k, p)
    <2> DEFINE t == [kp \in Nat \X Pose |-> Passed(r, kp[1], kp[2])]
    <2> HIDE DEF Pose
    <2>1. t \in [Nat \X Pose -> Pose]
      BY PassedPose
    <2>2. \A k \in Nat, p \in Pose : t[<<k, p>>] = Passed(r, k, p)
      OBVIOUS
    <2> HIDE DEF t
    <2> QED BY <2>1, <2>2
  <1>4. PICK g \in [0..n -> Pose] : g[0] = base /\ \A k \in 1..n : g[k] = step[<<k, g[k - 1]>>]
    <2>1. \E g : Runs(g, n, Pose, base, step)
      BY LoopStates
    <2> QED BY <2>1 DEF Runs
  <1> DEFINE F(f) == [k \in 0..n |->
                        IF k = 0 THEN [at |-> Start, to |-> 0] ELSE Passed(r, k, f[k - 1])]
             pose == CHOOSE pose : pose = F(pose)
  <1>5. g = F(g)
    <2>1. ASSUME NEW k \in 1..n PROVE g[k] = Passed(r, k, g[k - 1])
      <3>1. k \in Nat /\ k - 1 \in 0..n
        OBVIOUS
      <3>2. g[k - 1] \in Pose
        BY <3>1
      <3> QED BY <1>3, <1>4, <3>1, <3>2
    <2>2. \A k \in 0..n : k = 0 \/ k \in 1..n
      OBVIOUS
    <2> QED BY <1>2, <1>4, <2>1, <2>2
  <1> HIDE DEF F
  <1>6. pose = F(pose)
    BY <1>5
  <1>7. Course(r) = pose
    BY <1>1 DEF Course, Passed, F
  <1> HIDE DEF pose
  <1>8. PICK f : f = Course(r) /\ f = F(f)
    BY <1>6, <1>7
  <1>9. f[0] = base /\ \A k \in 1..n : f[k] = Passed(r, k, f[k - 1])
    BY <1>2, <1>8 DEF F
  <1>10. \A k \in 0..n : f[k] \in Pose
    <2>1. ASSUME NEW k \in 1..n, f[k - 1] \in Pose PROVE f[k] \in Pose
      BY <1>9, <2>1, PassedPose
    <2> QED BY <1>9, <2>1, LoopInvariant
  <1>11. f \in [0..n -> Pose]
    BY <1>8, <1>10 DEF F
  <1> QED BY <1>1, <1>2, <1>8, <1>9, <1>11

-----------------------------------------------------------------------------
(* Types.                                                                    *)

LEMMA TypeInit == Init => TypeInv
  <1> SUFFICES ASSUME Init PROVE TypeInv
    OBVIOUS
  <1>1. \A r \in Rovers : Len(Commands[r]) \in Nat
    BY GroundControlAssumption
  <1>2. pin_log \in Seq(Pin)
    BY DEF Init
  <1> QED BY <1>1, <1>2, GroundControlAssumption DEF Init, TypeInv, TypeOK, SharingOnMine

\* Stopping ground control, or finding it stopped, touches no rover.
LEMMA StopTypes ==
    ASSUME TypeInv, Stop
    PROVE  up' \in BOOLEAN /\ stops' \in 0..MaxStops /\ cut' \subseteq Rovers /\ pin_log' = pin_log
  <1>1. up' \in BOOLEAN /\ stops' \in 0..MaxStops /\ pin_log' = pin_log
    <2>1. /\ up' = FALSE /\ stops < MaxStops /\ stops' = stops + 1 /\ pin_log' = pin_log
      BY DEF Stop
    <2>2. stops \in 0..MaxStops
      BY DEF TypeInv, TypeOK
    <2>3. up' \in BOOLEAN
      BY <2>1, Zenon
    <2>4. stops' \in 0..MaxStops
      BY <2>1, <2>2, GroundControlAssumption
    <2> QED BY <2>1, <2>3, <2>4
  <1>2. PICK s \in SUBSET {r \in Rovers : Calling(r)} : cut' = cut \cup s
    BY DEF Stop
  <1> QED BY <1>1, <1>2 DEF TypeInv, TypeOK

LEMMA ReportTypes ==
    ASSUME TypeInv, NEW r \in Rovers, Report(r)
    PROVE  reports' \subseteq [rover : Rovers, exploded : BOOLEAN, executed : Nat,
                              at : Grid, success : BOOLEAN]
  <1> DEFINE Kind == [rover : Rovers, exploded : BOOLEAN, executed : Nat,
                      at : Grid, success : BOOLEAN]
             rep == [rover |-> r, exploded |-> exploded[r], executed |-> executed[r],
                     at |-> at[r], success |-> ~exploded[r] /\ executed[r] = received[r]]
  <1>1. exploded[r] \in BOOLEAN /\ executed[r] \in Nat /\ at[r] \in Grid
    BY DEF TypeInv, TypeOK
  <1>2. (~exploded[r] /\ executed[r] = received[r]) \in BOOLEAN
    OBVIOUS
  <1>3. rep \in Kind
    BY <1>1, <1>2
  <1>4. reports \subseteq Kind /\ reports' = reports \cup {rep}
    BY DEF Report, TypeInv, TypeOK
  <1> QED BY <1>3, <1>4

LEMMA CallTypes ==
    ASSUME TypeInv, NEW r \in Rovers, Call(r) \/ ReportUnanswered(r)
    PROVE  TypeInv'
  <1> USE GroundControlAssumption
  <1>1. CASE GetMap(r) \/ StreamCommands(r) \/ LastChunk(r) \/ CallFails(r)
    BY <1>1 DEF GetMap, StreamCommands, LastChunk, CallFails, Answered, goto, motion,
                TypeInv, TypeOK, SharingOnMine
  <1>2. CASE GetMineSerial(r)
    BY <1>2 DEF GetMineSerial, Disarming, Running, Answered, goto, motion,
                TypeInv, TypeOK, SharingOnMine
  <1>3. CASE Chunk(r)
    <2> DEFINE new == Min({received[r] + ChunkSize, Len(Commands[r])})
    <2>1. /\ received[r] \in Nat /\ Len(Commands[r]) \in Nat /\ ChunkSize \in Nat
          /\ received[r] < Len(Commands[r])
      BY <1>3 DEF Chunk, TypeInv, TypeOK
    <2>2. new = IF received[r] + ChunkSize <= Len(Commands[r])
                THEN received[r] + ChunkSize ELSE Len(Commands[r])
      BY <2>1, MinOfTwo, SMTT(20)
    <2>3. new \in Nat /\ new <= Len(Commands[r])
      BY <2>1, <2>2
    <2>4. received' = [received EXCEPT ![r] = new] /\ pc[r] = "streaming"
      BY <1>3 DEF Chunk
    <2> HIDE DEF new
    <2> QED BY <1>3, <2>3, <2>4 DEF Chunk, control, motion, TypeInv, TypeOK, SharingOnMine
  <1>4. CASE ShareMinePin(r)
    <2>1. [rover |-> r, at |-> at[r]] \in Pin
      BY <1>4 DEF ShareMinePin, Pin, TypeInv, SharingOnMine
    <2>2. pin_log' \in Seq(Pin)
      BY <1>4, <2>1 DEF ShareMinePin, TypeInv, TypeOK
    <2> QED BY <1>4, <2>2 DEF ShareMinePin, goto, motion, TypeInv, TypeOK, SharingOnMine
  <1>7. CASE Acknowledged(r)
    <2>1. executed[r] + 1 \in Nat /\ executed[r] + 1 <= Len(Commands[r])
      <3>1. executed[r] < received[r] /\ executed[r] \in Nat /\ received[r] \in Nat
        BY <1>7 DEF Acknowledged, TypeInv, TypeOK, SharingOnMine
      <3> QED BY <3>1 DEF TypeInv, TypeOK
    <2> QED BY <1>7, <2>1 DEF Acknowledged, Count, goto, control, TypeInv, TypeOK, SharingOnMine
  <1>5. CASE ReportExecution(r)
    BY <1>5, ReportTypes DEF ReportExecution, Answered, goto, motion,
                TypeInv, TypeOK, SharingOnMine
  <1>6. CASE ReportUnanswered(r)
    BY <1>6, ReportTypes, StopTypes DEF ReportUnanswered, goto, motion,
                TypeInv, TypeOK, SharingOnMine
  <1> QED BY <1>1, <1>2, <1>3, <1>4, <1>5, <1>6, <1>7 DEF Call

LEMMA ExecuteTypes ==
    ASSUME TypeInv, NEW r \in Rovers, Execute(r)
    PROVE  TypeInv'
  <1> USE GroundControlAssumption
  <1>1. CASE Explode(r) \/ Finish(r)
    BY <1>1 DEF Explode, Finish, goto, control, motion, TypeInv, TypeOK, SharingOnMine
  <1>2. ASSUME Running(r) PROVE  /\ executed[r] + 1 \in Nat /\ executed[r] + 1 <= Len(Commands[r])
               /\ pc[r] = "executing"
    BY <1>2 DEF Running, TypeInv, TypeOK
  <1>3. CASE Turn(r)
    <2>1. Turned(direction[r], cmd(r)) \in 0..3
      <3>1. direction[r] \in {0, 1, 2, 3}
        BY DEF TypeInv, TypeOK
      <3> QED BY <3>1 DEF Turned
    <2> QED BY <1>2, <1>3, <2>1 DEF Turn, Count, control, TypeInv, TypeOK, SharingOnMine
  <1>4. CASE Skip(r)
    BY <1>2, <1>4 DEF Skip, Count, control, TypeInv, TypeOK, SharingOnMine
  <1>5. CASE Move(r)
    <2> DEFINE there == Ahead(at[r], direction[r])
    <2>1. there \in Grid
      BY AheadInGrid DEF TypeInv, TypeOK
    <2>2. ~needs_disarm[r]
      BY <1>5 DEF Move, Running
    <2>3. CASE there \in Blocked
      BY <1>2, <1>5, <2>3 DEF Move, Count, control, TypeInv, TypeOK, SharingOnMine
    <2>4. CASE there \notin Blocked
      <3>1. /\ at' = [at EXCEPT ![r] = there]
            /\ needs_disarm' = [needs_disarm EXCEPT ![r] = @ \/ there \in Mine]
        BY <1>5, <2>4 DEF Move
      <3>2. /\ at' \in [Rovers -> Grid] /\ needs_disarm' \in [Rovers -> BOOLEAN]
            /\ \A q \in Rovers : at'[q] \in Blocked => at'[q] = Start
        BY <2>1, <2>4, <3>1 DEF TypeInv, TypeOK
      <3>3. \A q \in Rovers : needs_disarm'[q] => at'[q] \in Mine
        BY <2>2, <3>1 DEF TypeInv, TypeOK
      <3>4. SharingOnMine'
        BY <1>2, <1>5, <3>1 DEF Move, Count, TypeInv, TypeOK, SharingOnMine
      <3> HIDE DEF there
      <3> QED BY <1>2, <1>5, <3>2, <3>3, <3>4 DEF Move, Count, control, TypeInv, TypeOK
    <2> QED BY <2>3, <2>4
  <1> QED BY <1>1, <1>3, <1>4, <1>5 DEF Execute

LEMMA TypeNext == TypeInv /\ [Next]_vars => TypeInv'
  <1> SUFFICES ASSUME TypeInv, [Next]_vars PROVE TypeInv'
    OBVIOUS
  <1>1. CASE StartGroundControl
    BY <1>1 DEF StartGroundControl, motion, TypeInv, TypeOK, SharingOnMine
  <1>2. CASE StopGroundControl
    BY <1>2, StopTypes DEF StopGroundControl, motion, TypeInv, TypeOK, SharingOnMine
  <1>3. CASE Summarize \/ Raise
    BY <1>3 DEF Summarize, Raise, control, motion, TypeInv, TypeOK, SharingOnMine
  <1>4. ASSUME NEW r \in Rovers, StartRover(r) PROVE TypeInv'
    BY <1>4 DEF StartRover, goto, control, motion, TypeInv, TypeOK, SharingOnMine
  <1>5. CASE UNCHANGED vars
    BY <1>5 DEF vars, control, motion, TypeInv, TypeOK, SharingOnMine
  <1> QED BY <1>1, <1>2, <1>3, <1>4, <1>5, CallTypes, ExecuteTypes DEF Next, run_single_rover

-----------------------------------------------------------------------------
(* Reports and the summary.                                                  *)

LEMMA FleetInit == Init => FleetInv
  <1> SUFFICES ASSUME Init PROVE FleetInv
    OBVIOUS
  <1>1. pc = [r \in Rovers |-> "new"] /\ reports = {} /\ run = "going"
    BY DEF Init
  <1> QED BY <1>1 DEF FleetInv, ReportsOfEnded, OneByOne, SummaryWhole

\* A rover that goes on without a report, or starts when it may.
LEMMA RoverGoesOn ==
    ASSUME TypeInv, FleetInv, NEW r \in Rovers, NEW to, to \notin {"new", "done"},
           pc' = [pc EXCEPT ![r] = to], pc[r] \notin Ended,
           reports' = reports, mode' = mode, run' = run,
           pc[r] = "new" =>
               /\ run = "going"
               /\ mode = "sequential" => \A q \in 1..(r - 1) : pc[q] = "done"
    PROVE  FleetInv'
  <1>1. /\ pc'[r] = to /\ \A q \in Rovers : q # r => pc'[q] = pc[q]
        /\ \A rep \in reports : rep.rover \in Rovers
    BY DEF TypeInv, TypeOK
  <1>2. ReportsOfEnded'
    BY <1>1 DEF FleetInv, ReportsOfEnded, Ended
  <1>3. run = "going"
    BY DEF FleetInv, SummaryWhole
  <1>4. OneByOne'
    <2> SUFFICES ASSUME mode = "sequential", NEW q \in Rovers, NEW s \in Rovers,
                        q < s, pc'[s] # "new"
                 PROVE  pc'[q] = "done"
      BY DEF OneByOne
    <2>1. pc[q] = "done"
      <3>1. CASE pc[s] # "new"
        BY <3>1 DEF FleetInv, OneByOne
      <3>2. CASE pc[s] = "new"
        <4>1. s = r /\ q \in 1..(r - 1)
          BY <1>1, <3>2, GroundControlAssumption DEF Rovers
        <4> QED BY <3>2, <4>1
      <3> QED BY <3>1, <3>2
    <2> QED BY <1>1, <2>1 DEF Ended
  <1>5. SummaryWhole'
    BY <1>3 DEF FleetInv, SummaryWhole
  <1> QED BY <1>2, <1>4, <1>5 DEF FleetInv

LEMMA RoverReports ==
    ASSUME TypeInv, FleetInv, NEW r \in Rovers, ReportExecution(r) \/ ReportUnanswered(r)
    PROVE  FleetInv'
  <1>1. PICK to \in Ended : pc' = [pc EXCEPT ![r] = to]
    BY DEF ReportExecution, ReportUnanswered, goto, Ended
  <1>2. PICK rep : rep.rover = r /\ reports' = reports \cup {rep}
    <2>1. Report(r)
      BY DEF ReportExecution, ReportUnanswered
    <2> DEFINE new == [rover |-> r, exploded |-> exploded[r], executed |-> executed[r],
                       at |-> at[r], success |-> ~exploded[r] /\ executed[r] = received[r]]
    <2>2. new.rover = r /\ reports' = reports \cup {new}
      BY <2>1 DEF Report
    <2> QED BY <2>2
  <1>3. pc[r] = "reporting" /\ mode' = mode /\ run' = run
    BY DEF ReportExecution, ReportUnanswered, Answered
  <1>4. /\ pc'[r] = to /\ \A q \in Rovers : q # r => pc'[q] = pc[q]
        /\ \A old \in reports : old.rover \in Rovers /\ old.rover # r
    BY <1>1, <1>3 DEF TypeInv, TypeOK, FleetInv, ReportsOfEnded, Ended
  <1>5. ReportsOfEnded'
    BY <1>2, <1>4 DEF FleetInv, ReportsOfEnded
  <1>6. run = "going"
    BY <1>3 DEF FleetInv, SummaryWhole, Ended
  <1>7. OneByOne'
    BY <1>3, <1>4 DEF FleetInv, OneByOne
  <1>8. SummaryWhole'
    BY <1>2, <1>3, <1>4, <1>6 DEF FleetInv, SummaryWhole
  <1> QED BY <1>5, <1>7, <1>8 DEF FleetInv

\* A step that moves no rover on, prints no report and does not end the run.
LEMMA FleetStays ==
    ASSUME FleetInv, pc' = pc, reports' = reports, mode' = mode, run' = run
    PROVE  FleetInv'
  BY DEF FleetInv, ReportsOfEnded, OneByOne, SummaryWhole

LEMMA RunReturns ==
    ASSUME FleetInv, Summarize \/ Raise
    PROVE  FleetInv'
  <1>1. pc' = pc /\ reports' = reports /\ mode' = mode
    BY DEF Summarize, Raise, control
  <1>2. ReportsOfEnded' /\ OneByOne'
    BY <1>1 DEF FleetInv, ReportsOfEnded, OneByOne
  <1>3. CASE Summarize
    <2>1. \A r \in Rovers : pc[r] = "done" /\ \E rep \in reports : rep.rover = r
      BY <1>3 DEF Summarize, FleetInv, ReportsOfEnded
    <2> QED BY <1>1, <1>2, <2>1 DEF FleetInv, SummaryWhole, Ended
  <1>4. CASE Raise
    <2>1. PICK f \in Rovers : pc[f] = "failed"
      BY <1>4 DEF Raise
    <2>2. \A r \in Rovers : pc[r] \in Ended \/ (pc[r] = "new" /\ mode = "sequential")
      <3>1. CASE \A r \in Rovers : pc[r] \in Ended
        BY <3>1
      <3>2. CASE mode = "sequential"
        <4> TAKE r \in Rovers
        <4>1. r < f \/ r = f \/ f < r
          BY GroundControlAssumption DEF Rovers
        <4>2. r < f => pc[r] = "done"
          BY <2>1, <3>2 DEF FleetInv, OneByOne
        <4>3. f < r => pc[r] = "new"
          BY <2>1, <3>2 DEF FleetInv, OneByOne
        <4> QED BY <2>1, <3>2, <4>1, <4>2, <4>3 DEF Ended
      <3> QED BY <1>4, <3>1, <3>2 DEF Raise
    <2>3. run' = "raised"
      BY <1>4 DEF Raise
    <2> QED BY <1>1, <1>2, <2>2, <2>3 DEF FleetInv, ReportsOfEnded, SummaryWhole
  <1> QED BY <1>3, <1>4

LEMMA FleetNext == TypeInv /\ FleetInv /\ [Next]_vars => FleetInv'
  <1> SUFFICES ASSUME TypeInv, FleetInv, [Next]_vars PROVE FleetInv'
    OBVIOUS
  <1>1. CASE StartGroundControl \/ StopGroundControl \/ UNCHANGED vars
    BY <1>1, FleetStays DEF StartGroundControl, StopGroundControl, vars, control
  <1>2. CASE Summarize \/ Raise
    BY <1>2, RunReturns
  <1>3. ASSUME NEW r \in Rovers, run_single_rover(r) \/ ReportUnanswered(r) PROVE FleetInv'
    <2>1. CASE StartRover(r)
      <3>1. /\ pc[r] = "new" /\ run = "going" /\ pc' = [pc EXCEPT ![r] = "mapping"]
            /\ mode = "sequential" => \A q \in 1..(r - 1) : pc[q] = "done"
            /\ reports' = reports /\ mode' = mode /\ run' = run
        BY <2>1 DEF StartRover, goto, control
      <3> QED BY <3>1, RoverGoesOn DEF Ended
    <2>2. CASE GetMap(r) \/ StreamCommands(r) \/ LastChunk(r) \/ GetMineSerial(r)
               \/ ShareMinePin(r) \/ Acknowledged(r) \/ CallFails(r) \/ Explode(r) \/ Finish(r)
      <3>1. PICK to \in {"opening", "streaming", "executing", "sharing", "shared", "reporting",
                         "failed"} :
                pc' = [pc EXCEPT ![r] = to]
        BY <2>2 DEF GetMap, StreamCommands, LastChunk, GetMineSerial, ShareMinePin,
                    Acknowledged, CallFails, Explode, Finish, goto
      <3>2. pc[r] \notin {"new", "done", "failed"}
        BY <2>2 DEF GetMap, StreamCommands, LastChunk, GetMineSerial, ShareMinePin,
                    Acknowledged, CallFails, Explode, Finish, Disarming, Running, Calling
      <3>3. reports' = reports /\ mode' = mode /\ run' = run
        BY <2>2 DEF GetMap, StreamCommands, LastChunk, GetMineSerial, ShareMinePin,
                    Acknowledged, CallFails, Explode, Finish, Answered, control
      <3> QED BY <3>1, <3>2, <3>3, RoverGoesOn DEF Ended
    <2>3. CASE Chunk(r) \/ Turn(r) \/ Move(r) \/ Skip(r)
      BY <2>3, FleetStays DEF Chunk, Turn, Move, Skip, control
    <2> QED BY <1>3, <2>1, <2>2, <2>3, RoverReports DEF run_single_rover, Call, Execute
  <1> QED BY <1>1, <1>2, <1>3 DEF Next

-----------------------------------------------------------------------------
(* The commands executed so far have taken a rover along its course; it is   *)
(* to disarm if the last of them left it on a mine, and it has not passed    *)
(* one that it left armed.  The loop runs over all of its commands and ends  *)
(* early only at such a mine.                                                *)

MineAt(r, k) ==
    /\ k > 0 /\ Commands[r][k] = "M"
    /\ LET p == Course(r)[k - 1] IN Ahead(p.at, p.to) \in Mine

OnCourse(r) ==
    /\ at[r] = Course(r)[executed[r]].at
    /\ direction[r] = Course(r)[executed[r]].to
    /\ needs_disarm[r] <=> MineAt(r, executed[r])
    /\ \A k \in Careless(r) : executed[r] <= k

InLoop(r) ==
    /\ executed[r] <= received[r]
    /\ pc[r] \in {"executing", "sharing", "shared"} => received[r] = Len(Commands[r])
    /\ pc[r] \in {"sharing", "shared"} => cmd(r) = "D"
    /\ exploded[r] => /\ pc[r] \in {"reporting", "done", "failed"}
                      /\ executed[r] \in Careless(r)
    /\ pc[r] = "reporting" /\ ~exploded[r] =>
         executed[r] = Len(Commands[r]) /\ received[r] = Len(Commands[r])

CourseInv == ReportsTrue /\ \A r \in Rovers : OnCourse(r) /\ InLoop(r)

LEMMA CourseInit == Init => CourseInv
  <1> SUFFICES ASSUME Init PROVE CourseInv
    OBVIOUS
  <1>1. ReportsTrue
    BY DEF Init, ReportsTrue
  <1>2. ASSUME NEW r \in Rovers PROVE OnCourse(r) /\ InLoop(r)
    <2>1. /\ executed[r] = 0 /\ received[r] = 0 /\ at[r] = Start /\ direction[r] = 0
          /\ needs_disarm[r] = FALSE /\ exploded[r] = FALSE /\ pc[r] = "new"
      BY <1>2 DEF Init
    <2>2. ~MineAt(r, 0)
      BY DEF MineAt
    <2>3. \A k \in Careless(r) : 0 <= k
      BY GroundControlAssumption DEF Careless
    <2>4. OnCourse(r)
      BY <2>1, <2>2, <2>3, CourseSteps DEF OnCourse
    <2> QED BY <2>1, <2>4 DEF InLoop
  <1> QED BY <1>1, <1>2 DEF CourseInv

\* A rover whose motion is left alone stays on its course.
LEMMA CourseStays ==
    ASSUME NEW r \in Rovers, OnCourse(r), at'[r] = at[r], direction'[r] = direction[r],
           needs_disarm'[r] = needs_disarm[r], executed'[r] = executed[r]
    PROVE  OnCourse(r)'
  BY DEF OnCourse

\* A rover that executes its next command goes on along its course.
LEMMA CourseGoesOn ==
    ASSUME TypeInv, NEW r \in Rovers, OnCourse(r), executed[r] < Len(Commands[r]),
           ~(needs_disarm[r] /\ cmd(r) # "D"), executed'[r] = executed[r] + 1,
           LET p == Passed(r, executed[r] + 1, [at |-> at[r], to |-> direction[r]])
           IN  at'[r] = p.at /\ direction'[r] = p.to,
           needs_disarm'[r] <=> cmd(r) = "M" /\ Ahead(at[r], direction[r]) \in Mine
    PROVE  OnCourse(r)'
  <1>1. PICK n \in Nat : n = Len(Commands[r])
    BY GroundControlAssumption
  <1>2. PICK k \in Nat : k = executed[r]
    BY DEF TypeInv, TypeOK
  <1>3. k + 1 \in 1..n /\ k \in 0..n /\ (k + 1) - 1 = k
    BY <1>1, <1>2
  <1>4. PICK p \in Pose : p = Course(r)[k]
    BY <1>1, <1>3, CourseSteps
  <1>5. p.at = at[r] /\ p.to = direction[r] /\ p = [at |-> at[r], to |-> direction[r]]
    BY <1>2, <1>4 DEF OnCourse, Pose
  <1>6. Course(r)[k + 1] = Passed(r, k + 1, p)
    BY <1>1, <1>3, <1>4, CourseSteps
  <1>7. /\ at'[r] = Course(r)[executed'[r]].at
        /\ direction'[r] = Course(r)[executed'[r]].to
    BY <1>2, <1>5, <1>6
  <1>8. needs_disarm'[r] <=> MineAt(r, executed'[r])
    <2>1. MineAt(r, k + 1) <=> cmd(r) = "M" /\ Ahead(at[r], direction[r]) \in Mine
      <3>1. k + 1 > 0 /\ Commands[r][k + 1] = cmd(r) /\ Course(r)[(k + 1) - 1] = p
        BY <1>2, <1>3, <1>4 DEF cmd
      <3> QED BY <1>5, <3>1 DEF MineAt
    <2> QED BY <1>2, <2>1
  <1>9. ASSUME NEW c \in Careless(r) PROVE executed'[r] <= c
    <2>1. c \in 1..(n - 1) /\ MineAt(r, c) /\ Commands[r][c + 1] # "D"
      BY <1>1 DEF Careless, MineAt
    <2>2. k <= c
      BY <1>2 DEF OnCourse
    <2>3. c # k
      BY <1>2, <2>1 DEF OnCourse, cmd
    <2> QED BY <1>2, <2>1, <2>2, <2>3
  <1> QED BY <1>7, <1>8, <1>9 DEF OnCourse

\* A rover's step does not disturb the others.
LEMMA OthersGoOn ==
    ASSUME TypeInv, CourseInv, NEW r \in Rovers, NEW q \in Rovers, q # r,
           run_single_rover(r) \/ ReportUnanswered(r)
    PROVE  OnCourse(q)' /\ InLoop(q)'
  <1>1. /\ pc'[q] = pc[q] /\ received'[q] = received[q] /\ executed'[q] = executed[q]
        /\ at'[q] = at[q] /\ direction'[q] = direction[q]
        /\ needs_disarm'[q] = needs_disarm[q] /\ exploded'[q] = exploded[q]
    <2>1. CASE Call(r) \/ StartRover(r) \/ ReportUnanswered(r)
      BY <2>1 DEF TypeInv, TypeOK, StartRover, Call, GetMap, StreamCommands, Chunk, LastChunk,
                  GetMineSerial, ShareMinePin, Acknowledged, ReportExecution, CallFails,
                  ReportUnanswered, Count, goto, motion
    <2>2. CASE Execute(r)
      BY <2>2 DEF TypeInv, TypeOK, Execute, Explode, Turn, Move, Skip, Finish, Count, goto, motion
    <2> QED BY <2>1, <2>2 DEF run_single_rover
  <1>2. OnCourse(q) /\ InLoop(q)
    BY DEF CourseInv
  <1>3. OnCourse(q)'
    BY <1>1, <1>2, CourseStays
  <1> QED BY <1>1, <1>2, <1>3 DEF InLoop, cmd

LEMMA CallOnCourse ==
    ASSUME TypeInv, CourseInv, NEW r \in Rovers,
           Call(r) \/ StartRover(r) \/ ReportUnanswered(r)
    PROVE  OnCourse(r)' /\ InLoop(r)'
  <1>1. OnCourse(r) /\ InLoop(r) /\ Len(Commands[r]) \in Nat /\ executed[r] \in Nat
        /\ received[r] \in Nat
    BY GroundControlAssumption DEF CourseInv, TypeInv, TypeOK
  <1>2. ASSUME UNCHANGED motion PROVE OnCourse(r)'
    BY <1>1, <1>2, CourseStays DEF motion
  <1>3. CASE StartRover(r) \/ GetMap(r) \/ StreamCommands(r)
    <2>1. pc'[r] \in {"mapping", "opening", "streaming"} /\ pc[r] \in {"new", "mapping", "opening"}
          /\ received' = received /\ UNCHANGED motion
      BY <1>3 DEF TypeInv, TypeOK, StartRover, GetMap, StreamCommands, goto
    <2> QED BY <1>1, <1>2, <2>1 DEF InLoop, cmd, motion
  <1>4. CASE Chunk(r)
    <2> DEFINE new == Min({received[r] + ChunkSize, Len(Commands[r])})
    <2>1. new = IF received[r] + ChunkSize <= Len(Commands[r])
                THEN received[r] + ChunkSize ELSE Len(Commands[r])
      <3>1. received[r] + ChunkSize \in Int /\ Len(Commands[r]) \in Int
        BY <1>1, GroundControlAssumption
      <3> QED BY <3>1, MinOfTwo
    <2>2. received[r] <= new
      BY <1>1, <1>4, <2>1, GroundControlAssumption DEF Chunk
    <2>3. received'[r] = new /\ pc[r] = "streaming" /\ pc' = pc /\ UNCHANGED motion /\ new \in Nat
      BY <1>1, <1>4, <2>1, GroundControlAssumption DEF TypeInv, TypeOK, Chunk
    <2> HIDE DEF new
    <2> QED BY <1>1, <1>2, <2>2, <2>3 DEF InLoop, cmd, motion
  <1>5. CASE LastChunk(r) \/ CallFails(r) \/ ReportExecution(r) \/ ReportUnanswered(r)
    <2>1. /\ received' = received /\ UNCHANGED motion
          /\ \/ pc[r] = "streaming" /\ received[r] = Len(Commands[r]) /\ pc'[r] = "executing"
             \/ pc[r] # "new" /\ pc'[r] \in {"failed", "done"}
      BY <1>5 DEF TypeInv, TypeOK, LastChunk, CallFails, ReportExecution, ReportUnanswered,
                  Calling, Disarming, Running, goto
    <2> QED BY <1>1, <1>2, <2>1 DEF InLoop, cmd, motion
  <1>6. CASE GetMineSerial(r)
    <2>1. /\ received' = received /\ UNCHANGED motion /\ pc'[r] = "sharing"
          /\ pc[r] = "executing" /\ cmd(r) = "D"
      BY <1>6 DEF TypeInv, TypeOK, GetMineSerial, Disarming, Running, goto
    <2> QED BY <1>1, <1>2, <2>1 DEF InLoop, cmd, motion
  <1>8. CASE ShareMinePin(r)
    <2>1. /\ received' = received /\ UNCHANGED motion
          /\ pc[r] = "sharing" /\ pc'[r] = "shared"
      BY <1>8 DEF TypeInv, TypeOK, ShareMinePin, goto
    <2> QED BY <1>1, <1>2, <2>1 DEF InLoop, cmd, motion
  <1>7. CASE Acknowledged(r)
    <2>1. /\ pc[r] = "shared" /\ pc'[r] = "executing" /\ received' = received
          /\ executed'[r] = executed[r] + 1 /\ needs_disarm'[r] = FALSE
          /\ exploded' = exploded /\ at' = at /\ direction' = direction
      BY <1>7 DEF TypeInv, TypeOK, Acknowledged, Count, goto
    <2>2. executed[r] < received[r] /\ received[r] = Len(Commands[r]) /\ cmd(r) = "D"
      BY <1>1, <2>1 DEF TypeInv, SharingOnMine, InLoop
    <2>3. InLoop(r)'
      BY <1>1, <2>1, <2>2 DEF InLoop
    <2>4. LET p == Passed(r, executed[r] + 1, [at |-> at[r], to |-> direction[r]])
          IN  at'[r] = p.at /\ direction'[r] = p.to
      BY <2>1, <2>2 DEF Passed, cmd
    <2>5. OnCourse(r)'
      BY <1>1, <2>1, <2>2, <2>4, CourseGoesOn
    <2> QED BY <2>3, <2>5
  <1> QED BY <1>3, <1>4, <1>5, <1>6, <1>7, <1>8 DEF Call

LEMMA ExecuteOnCourse ==
    ASSUME TypeInv, CourseInv, NEW r \in Rovers, Execute(r)
    PROVE  OnCourse(r)' /\ InLoop(r)'
  <1>1. /\ OnCourse(r) /\ InLoop(r) /\ Len(Commands[r]) \in Nat /\ executed[r] \in Nat
        /\ received[r] \in Nat /\ at[r] \in Grid /\ direction[r] \in 0..3
        /\ needs_disarm[r] \in BOOLEAN
    BY GroundControlAssumption DEF CourseInv, TypeInv, TypeOK
  <1>2. CASE Explode(r)
    <2>1. /\ pc[r] = "executing" /\ pc'[r] = "reporting" /\ received' = received
          /\ executed[r] < received[r] /\ needs_disarm[r] /\ cmd(r) # "D" /\ exploded'[r] = TRUE
          /\ at' = at /\ direction' = direction /\ needs_disarm' = needs_disarm
          /\ executed' = executed
      BY <1>2 DEF TypeInv, TypeOK, Explode, goto
    <2>2. OnCourse(r)'
      BY <1>1, <2>1, CourseStays
    <2>3. received[r] = Len(Commands[r])
      BY <1>1, <2>1 DEF InLoop
    <2>4. MineAt(r, executed[r])
      BY <1>1, <2>1 DEF OnCourse
    <2>5. executed[r] \in 1..(Len(Commands[r]) - 1)
      BY <1>1, <2>1, <2>3, <2>4 DEF MineAt
    <2>6. executed[r] \in Careless(r)
      BY <2>1, <2>4, <2>5 DEF Careless, MineAt, cmd
    <2> QED BY <1>1, <2>1, <2>2, <2>3, <2>6 DEF InLoop
  <1>3. CASE Finish(r)
    <2>1. /\ pc[r] = "executing" /\ pc'[r] = "reporting" /\ received' = received
          /\ executed[r] = received[r] /\ UNCHANGED motion
      BY <1>3 DEF TypeInv, TypeOK, Finish, goto
    <2>2. OnCourse(r)'
      BY <1>1, <2>1, CourseStays DEF motion
    <2> QED BY <1>1, <2>1, <2>2 DEF InLoop, motion
  <1>4. CASE Turn(r) \/ Move(r) \/ Skip(r)
    <2>1. /\ Running(r) /\ pc' = pc /\ received' = received /\ exploded' = exploded
          /\ executed'[r] = executed[r] + 1
      BY <1>4 DEF TypeInv, TypeOK, Turn, Move, Skip, Count
    <2>2. /\ pc[r] = "executing" /\ executed[r] < received[r]
          /\ ~(needs_disarm[r] /\ cmd(r) # "D") /\ received[r] = Len(Commands[r])
      BY <1>1, <2>1 DEF Running, InLoop
    <2>3. InLoop(r)'
      BY <1>1, <2>1, <2>2 DEF InLoop
    <2>4. /\ LET p == Passed(r, executed[r] + 1, [at |-> at[r], to |-> direction[r]])
             IN  at'[r] = p.at /\ direction'[r] = p.to
          /\ needs_disarm'[r] <=> cmd(r) = "M" /\ Ahead(at[r], direction[r]) \in Mine
      <3>1. CASE Turn(r)
        BY <1>1, <2>2, <3>1 DEF Turn, Passed, cmd, TypeInv, TypeOK
      <3>2. CASE Move(r)
        <4> DEFINE there == Ahead(at[r], direction[r])
        <4>1. ~needs_disarm[r] /\ cmd(r) = "M"
          BY <2>2, <3>2 DEF Move
        <4>2. CASE there \in Blocked
          BY <3>2, <4>1, <4>2, GroundControlAssumption DEF Move, Passed, cmd, TypeInv, TypeOK
        <4>3. CASE there \notin Blocked
          <5>1. at'[r] = there /\ direction' = direction
            BY <3>2, <4>3 DEF Move, TypeInv, TypeOK
          <5>2. needs_disarm'[r] <=> there \in Mine
            BY <3>2, <4>1, <4>3 DEF Move, TypeInv, TypeOK
          <5> QED BY <4>1, <4>3, <5>1, <5>2 DEF Passed, cmd
        <4> QED BY <4>2, <4>3
      <3>3. CASE Skip(r)
        <4>1. /\ cmd(r) \notin {"L", "R", "M"} /\ at' = at /\ direction' = direction
              /\ needs_disarm'[r] <=> needs_disarm[r] /\ cmd(r) # "D"
          BY <1>1, <3>3 DEF Skip, TypeInv, TypeOK
        <4> QED BY <2>2, <4>1 DEF Passed, cmd
      <3> QED BY <1>4, <3>1, <3>2, <3>3
    <2>5. OnCourse(r)'
      BY <1>1, <2>1, <2>2, <2>4, CourseGoesOn
    <2> QED BY <2>3, <2>5
  <1> QED BY <1>2, <1>3, <1>4 DEF Execute

\* The report of a rover that is to report tells its course.
LEMMA ReportTells ==
    ASSUME TypeInv, CourseInv, NEW r \in Rovers, pc[r] = "reporting", Report(r)
    PROVE  ReportsTrue'
  <1>1. PICK n \in Nat : n = Len(Commands[r])
    BY GroundControlAssumption
  <1>2. /\ OnCourse(r) /\ InLoop(r) /\ executed[r] \in Nat /\ executed[r] <= n
        /\ \A k \in Careless(r) : k \in 1..(n - 1) /\ executed[r] <= k
    BY <1>1 DEF CourseInv, TypeInv, TypeOK, OnCourse, Careless
  <1>3. exploded[r] <=> Careless(r) # {}
    <2>1. CASE exploded[r]
      BY <1>2, <2>1 DEF InLoop
    <2>2. CASE ~exploded[r]
      <3>1. executed[r] = n
        BY <1>1, <1>2, <2>2 DEF InLoop
      <3> QED BY <1>2, <2>2, <3>1
    <2> QED BY <2>1, <2>2
  <1>4. executed[r] = Survived(r)
    <2>1. CASE exploded[r]
      <3>1. executed[r] \in Careless(r) /\ Careless(r) \subseteq Nat
        BY <1>2, <2>1 DEF InLoop
      <3>2. Min(Careless(r)) \in Careless(r) /\ \A k \in Careless(r) : Min(Careless(r)) <= k
        BY <1>2, <3>1 DEF Min
      <3>3. Min(Careless(r)) = executed[r]
        BY <1>2, <3>1, <3>2
      <3> QED BY <3>1, <3>3 DEF Survived
    <2>2. CASE ~exploded[r]
      BY <1>1, <1>2, <1>3, <2>2 DEF InLoop, Survived
    <2> QED BY <2>1, <2>2
  <1> DEFINE rep == [rover |-> r, exploded |-> exploded[r], executed |-> executed[r],
                     at |-> at[r], success |-> ~exploded[r] /\ executed[r] = received[r]]
  <1>5. rep.success <=> ~rep.exploded
    BY <1>1, <1>2 DEF InLoop
  <1>6. /\ rep.executed = Survived(rep.rover)
        /\ rep.at = Course(rep.rover)[rep.executed].at
        /\ rep.exploded <=> Careless(rep.rover) # {}
    BY <1>2, <1>3, <1>4 DEF OnCourse
  <1>7. reports' = reports \cup {rep}
    BY DEF Report
  <1> HIDE DEF rep
  <1> QED BY <1>5, <1>6, <1>7 DEF CourseInv, ReportsTrue

LEMMA CourseNext == TypeInv /\ CourseInv /\ [Next]_vars => CourseInv'
  <1> SUFFICES ASSUME TypeInv, CourseInv, [Next]_vars PROVE CourseInv'
    OBVIOUS
  <1>1. CASE StartGroundControl \/ StopGroundControl \/ Summarize \/ Raise \/ UNCHANGED vars
    <2>1. reports' = reports /\ pc' = pc /\ received' = received /\ UNCHANGED motion
      BY <1>1 DEF StartGroundControl, StopGroundControl, Summarize, Raise, vars, control
    <2>2. ASSUME NEW r \in Rovers PROVE OnCourse(r)' /\ InLoop(r)'
      <3>1. OnCourse(r) /\ InLoop(r)
        BY DEF CourseInv
      <3>2. OnCourse(r)'
        BY <2>1, <3>1, CourseStays DEF motion
      <3> QED BY <2>1, <3>1, <3>2 DEF InLoop, cmd, motion
    <2> QED BY <2>1, <2>2 DEF CourseInv, ReportsTrue
  <1>2. ASSUME NEW r \in Rovers, run_single_rover(r) \/ ReportUnanswered(r) PROVE CourseInv'
    <2>1. \A q \in Rovers : OnCourse(q)' /\ InLoop(q)'
      BY <1>2, OthersGoOn, CallOnCourse, ExecuteOnCourse DEF run_single_rover
    <2>2. CASE ReportExecution(r) \/ ReportUnanswered(r)
      BY <2>1, <2>2, ReportTells DEF ReportExecution, ReportUnanswered, CourseInv
    <2>3. CASE ~(ReportExecution(r) \/ ReportUnanswered(r))
      <3>1. reports' = reports
        BY <1>2, <2>3 DEF run_single_rover, StartRover, Call, GetMap, StreamCommands, Chunk,
             LastChunk, GetMineSerial, ShareMinePin, Acknowledged, CallFails, Execute, Explode,
             Turn, Move, Skip, Finish, control
      <3> QED BY <2>1, <3>1 DEF CourseInv, ReportsTrue
    <2> QED BY <2>2, <2>3
  <1> QED BY <1>1, <1>2 DEF Next

-----------------------------------------------------------------------------
(* The PIN log.  Each rover's part of it is what it has disarmed; a ground   *)
(* control that was started later has the last of that.                      *)

PinsInv ==
    /\ PinsLogged
    /\ ~up /\ stops = 0 => pin_log = <<>>

\* The parts of a log that is one entry longer.
LogPart(log, r) ==
    Kept([i \in DOMAIN log |-> log[i].at], {i \in DOMAIN log : log[i].rover = r})

LEMMA LogPartGrows ==
    ASSUME NEW log \in Seq(Pin), NEW e \in Pin, NEW r \in Rovers
    PROVE  /\ LogPart(log, r) \in Seq(Mine)
           /\ LogPart(Append(log, e), r) =
                IF e.rover = r THEN Append(LogPart(log, r), e.at) ELSE LogPart(log, r)
  <1>1. PICK n \in Nat : n = Len(log) /\ DOMAIN log = 1..n
    OBVIOUS
  <1>2. PICK new \in Seq(Pin) :
          /\ new = Append(log, e) /\ Len(new) = n + 1 /\ DOMAIN new = 1..(n + 1)
          /\ new[n + 1] = e /\ \A i \in 1..n : new[i] = log[i]
    <2> DEFINE new == Append(log, e)
    <2>1. /\ new \in Seq(Pin) /\ Len(new) = n + 1 /\ DOMAIN new = 1..(n + 1)
          /\ new[n + 1] = e /\ \A i \in 1..n : new[i] = log[i]
      BY <1>1
    <2> HIDE DEF new
    <2> QED BY <2>1 DEF new
  <1> DEFINE places(s) == [i \in DOMAIN s |-> s[i].at]
             own(s) == {i \in DOMAIN s : s[i].rover = r}
  <1>3. e.at \in Mine /\ \A i \in 1..n : log[i].at \in Mine
    <2>1. \A i \in 1..n : log[i] \in Pin
      BY <1>1
    <2> QED BY <2>1 DEF Pin
  <1>4. places(log) \in Seq(Mine) /\ Len(places(log)) = n
    BY <1>1, <1>3
  <1>5. places(new) = Append(places(log), e.at)
    <2>1. PICK p \in Seq(Mine) : p = places(log) /\ Len(p) = n /\ \A i \in 1..n : p[i] = log[i].at
      BY <1>1, <1>4
    <2>2. PICK q \in Seq(Mine) :
            q = Append(p, e.at) /\ Len(q) = n + 1 /\ q[n + 1] = e.at /\ \A i \in 1..n : q[i] = p[i]
      <3> DEFINE q == Append(p, e.at)
      <3>1. q \in Seq(Mine) /\ Len(q) = n + 1 /\ q[n + 1] = e.at /\ \A i \in 1..n : q[i] = p[i]
        BY <1>3, <2>1
      <3> HIDE DEF q
      <3> QED BY <3>1 DEF q
    <2>3. q = [i \in 1..(n + 1) |-> q[i]]
      BY <2>2
    <2>4. \A i \in 1..(n + 1) : q[i] = new[i].at
      <3>1. \A i \in 1..(n + 1) : i \in 1..n \/ i = n + 1
        OBVIOUS
      <3> QED BY <1>2, <2>1, <2>2, <3>1
    <2>5. q = [i \in 1..(n + 1) |-> new[i].at]
      BY <2>3, <2>4
    <2> QED BY <1>2, <2>1, <2>2, <2>5
  <1>6. /\ \A i \in 1..n : i \in own(log) <=> i \in own(new)
        /\ n + 1 \in own(new) <=> e.rover = r
    <2>1. \A i \in 1..n : i \in 1..(n + 1)
      OBVIOUS
    <2> QED BY <1>1, <1>2, <2>1
  <1> DEFINE P == places(log)
             K == own(log)
             L == own(new)
  <1>7. LogPart(log, r) = Kept(P, K) /\ LogPart(new, r) = Kept(Append(P, e.at), L)
    BY <1>5 DEF LogPart
  <1>8. P \in Seq(Mine) /\ Len(P) = n /\ (\A i \in 1..Len(P) : i \in K <=> i \in L)
    BY <1>4, <1>6
  <1>9. n + 1 \in L <=> e.rover = r
    BY <1>6
  <1> HIDE DEF P, K, L, places, own
  <1>10. /\ Kept(P, K) \in Seq(Mine)
         /\ Kept(Append(P, e.at), L) =
              IF Len(P) + 1 \in L THEN Append(Kept(P, K), e.at) ELSE Kept(P, K)
    <2>1. PICK S, a : S = Mine /\ a = e.at
      OBVIOUS
    <2>2. P \in Seq(S) /\ a \in S
      BY <1>3, <1>8, <2>1
    <2>3. \A i \in 1..Len(P) : i \in K <=> i \in L
      BY <1>8
    <2>4. /\ Kept(P, K) \in Seq(S)
          /\ Kept(Append(P, a), L) =
               IF Len(P) + 1 \in L THEN Append(Kept(P, K), a) ELSE Kept(P, K)
      <3>1. Kept(P, K) \in Seq(S)
        BY <2>2, <2>3, KeptAppend
      <3>2. Kept(Append(P, a), L) =
               IF Len(P) + 1 \in L THEN Append(Kept(P, K), a) ELSE Kept(P, K)
        BY <2>2, <2>3, KeptAppend
      <3> QED BY <3>1, <3>2
    <2> QED BY <2>1, <2>4
  <1> QED BY <1>2, <1>7, <1>8, <1>9, <1>10

\* What one more command adds to the mines a rover has disarmed.
LEMMA DisarmedGrows ==
    ASSUME NEW r \in Rovers, NEW k \in 0..(Len(Commands[r]) - 1)
    PROVE  /\ Disarmed(r, k) \in Seq(Grid)
           /\ Disarmed(r, k + 1) =
                IF Commands[r][k + 1] = "D" /\ Course(r)[k + 1].at \in Mine
                THEN Append(Disarmed(r, k), Course(r)[k + 1].at) ELSE Disarmed(r, k)
  <1>1. PICK n \in Nat : n = Len(Commands[r])
    BY GroundControlAssumption
  <1>2. PICK c \in [0..n -> Pose] : c = Course(r)
    BY <1>1, CourseSteps
  <1> DEFINE places(j) == [i \in 1..j |-> c[i].at]
             own(j) == {i \in 1..j : Commands[r][i] = "D" /\ c[i].at \in Mine}
             e == c[k + 1].at
  <1>3. k \in Nat /\ k + 1 \in 1..n /\ \A i \in 1..k : i \in 1..n /\ i \in 0..n
    BY <1>1
  <1>4. \A i \in 0..n : c[i].at \in Grid
    BY <1>2 DEF Pose
  <1>5. places(k) \in Seq(Grid) /\ Len(places(k)) = k /\ e \in Grid
    BY <1>3, <1>4
  <1>6. places(k + 1) = Append(places(k), e)
    <2>1. PICK p \in Seq(Grid) : p = places(k) /\ Len(p) = k /\ \A i \in 1..k : p[i] = c[i].at
      BY <1>5
    <2>2. PICK q \in Seq(Grid) :
            q = Append(p, e) /\ Len(q) = k + 1 /\ q[k + 1] = e /\ \A i \in 1..k : q[i] = p[i]
      <3> DEFINE q == Append(p, e)
      <3>1. q \in Seq(Grid) /\ Len(q) = k + 1 /\ q[k + 1] = e /\ \A i \in 1..k : q[i] = p[i]
        BY <1>3, <1>5, <2>1
      <3> HIDE DEF q
      <3> QED BY <3>1 DEF q
    <2>3. q = [i \in 1..(k + 1) |-> q[i]]
      BY <1>3, <2>2
    <2>4. \A i \in 1..(k + 1) : q[i] = c[i].at
      <3>1. \A i \in 1..(k + 1) : i \in 1..k \/ i = k + 1
        BY <1>3
      <3> QED BY <2>1, <2>2, <3>1
    <2>5. q = [i \in 1..(k + 1) |-> c[i].at]
      BY <2>3, <2>4
    <2> QED BY <2>1, <2>2, <2>5
  <1>7. /\ \A i \in 1..k : i \in own(k) <=> i \in own(k + 1)
        /\ k + 1 \in own(k + 1) <=> Commands[r][k + 1] = "D" /\ c[k + 1].at \in Mine
    <2>1. k + 1 \in 1..(k + 1) /\ \A i \in 1..k : i \in 1..(k + 1)
      BY <1>3
    <2> QED BY <2>1
  <1> DEFINE P == places(k)
             K == own(k)
             L == own(k + 1)
  <1>8. Disarmed(r, k) = Kept(P, K) /\ Disarmed(r, k + 1) = Kept(Append(P, e), L)
    BY <1>2, <1>6 DEF Disarmed
  <1>9. P \in Seq(Grid) /\ Len(P) = k /\ (\A i \in 1..Len(P) : i \in K <=> i \in L) /\ e \in Grid
    BY <1>5, <1>7
  <1>10. k + 1 \in L <=> Commands[r][k + 1] = "D" /\ c[k + 1].at \in Mine
    BY <1>7
  <1> HIDE DEF P, K, L
  <1>11. /\ Kept(P, K) \in Seq(Grid)
         /\ Kept(Append(P, e), L) =
              IF Len(P) + 1 \in L THEN Append(Kept(P, K), e) ELSE Kept(P, K)
    <2> HIDE DEF e
    <2>1. PICK S, a : S = Grid /\ a = e
      OBVIOUS
    <2>2. P \in Seq(S) /\ a \in S
      BY <1>9, <2>1
    <2>3. /\ Kept(P, K) \in Seq(S)
          /\ Kept(Append(P, a), L) =
               IF Len(P) + 1 \in L THEN Append(Kept(P, K), a) ELSE Kept(P, K)
      BY <1>9, <2>2, KeptAppend
    <2> QED BY <2>1, <2>3
  <1> QED BY <1>2, <1>8, <1>9, <1>10, <1>11

LEMMA PinTypes ==
    ASSUME NEW r \in Rovers
    PROVE  /\ \A log \in Seq(Pin) : LogPart(log, r) \in Seq(Grid)
           /\ LogPart(<<>>, r) = <<>>
           /\ \A k \in 0..Len(Commands[r]) : Disarmed(r, k) \in Seq(Grid)
           /\ Disarmed(r, 0) = <<>>
  <1>1. PICK n \in Nat : n = Len(Commands[r])
    BY GroundControlAssumption
  <1>2. ASSUME NEW log \in Seq(Pin) PROVE LogPart(log, r) \in Seq(Grid)
    <2>1. \A i \in DOMAIN log : log[i].at \in Grid
      <3>1. \A i \in DOMAIN log : log[i] \in Pin
        OBVIOUS
      <3>2. \A e \in Pin : e.at \in Grid
        BY GroundControlAssumption DEF Pin
      <3> QED BY <3>1, <3>2
    <2>2. PICK p \in Seq(Grid) : p = [i \in DOMAIN log |-> log[i].at]
      <3>1. [i \in DOMAIN log |-> log[i].at] \in Seq(Grid)
        BY <2>1
      <3> QED BY <3>1
    <2>3. PICK K : K = {i \in DOMAIN log : log[i].rover = r}
      OBVIOUS
    <2>4. Kept(p, K) \in Seq(Grid)
      BY KeptStates
    <2> QED BY <2>2, <2>3, <2>4 DEF LogPart
  <1>3. ASSUME NEW k \in 0..n PROVE Disarmed(r, k) \in Seq(Grid)
    <2>1. \A i \in 1..k : Course(r)[i].at \in Grid
      <3>1. \A i \in 1..k : i \in 0..n
        OBVIOUS
      <3> QED BY <1>1, <3>1, CourseSteps DEF Pose
    <2>2. PICK p \in Seq(Grid) : p = [i \in 1..k |-> Course(r)[i].at]
      <3>1. [i \in 1..k |-> Course(r)[i].at] \in Seq(Grid)
        BY <2>1
      <3> QED BY <3>1
    <2>3. PICK K : K = {i \in 1..k : Commands[r][i] = "D" /\ Course(r)[i].at \in Mine}
      OBVIOUS
    <2>4. Kept(p, K) \in Seq(Grid)
      BY KeptStates
    <2> QED BY <2>2, <2>3, <2>4 DEF Disarmed
  <1>4. LogPart(<<>>, r) = <<>>
    <2>1. DOMAIN <<>> = {} /\ [i \in {} |-> <<>>[i].at] = <<>>
      OBVIOUS
    <2> QED BY <2>1, KeptNone DEF LogPart
  <1>5. Disarmed(r, 0) = <<>>
    <2>1. 1..0 = {} /\ [i \in {} |-> Course(r)[i].at] = <<>>
      OBVIOUS
    <2> QED BY <2>1, KeptNone DEF Disarmed
  <1> QED BY <1>1, <1>2, <1>3, <1>4, <1>5

LEMMA PinsInit == Init => PinsInv
  <1> SUFFICES ASSUME Init PROVE PinsInv
    OBVIOUS
  <1>1. pin_log = <<>> /\ stops = 0 /\ \A r \in Rovers : executed[r] = 0
    BY DEF Init
  <1>2. \A r \in Rovers : LogOf(r) = LogPart(<<>>, r) /\ Taken(r) = {0}
    BY <1>1 DEF LogOf, LogPart, Taken, Init
  <1> QED BY <1>1, <1>2, PinTypes DEF PinsInv, PinsLogged

\* A step by which nothing is disarmed and ground control neither stops nor starts.
LEMMA PinsStay ==
    ASSUME PinsInv, pin_log' = pin_log, up' = up, stops' = stops,
           \A r \in Rovers : \A k \in Taken(r) :
               \E j \in Taken(r)' : Disarmed(r, j) = Disarmed(r, k)
    PROVE  PinsInv'
  <1>1. \A r \in Rovers : LogOf(r)' = LogOf(r)
    BY DEF LogOf
  <1> QED BY <1>1 DEF PinsInv, PinsLogged

\* What ground control has seen through are commands of the rover.
LEMMA TakenTypes ==
    ASSUME TypeInv, NEW r \in Rovers
    PROVE  Taken(r) # {} /\ Taken(r) \subseteq 0..Len(Commands[r])
  <1>1. /\ executed[r] \in Nat /\ received[r] \in Nat /\ Len(Commands[r]) \in Nat
        /\ executed[r] <= Len(Commands[r]) /\ received[r] <= Len(Commands[r])
        /\ pc[r] = "shared" => executed[r] < received[r]
    BY GroundControlAssumption DEF TypeInv, TypeOK, SharingOnMine
  <1>2. CASE pc[r] = "shared"
    <2>1. Taken(r) = {executed[r] + 1} /\ executed[r] + 1 \in 0..Len(Commands[r])
      BY <1>1, <1>2 DEF Taken
    <2> QED BY <2>1
  <1>3. CASE pc[r] = "failed"
    <2>1. /\ Taken(r) = {executed[r], executed[r] + 1} \cap 0..Len(Commands[r])
          /\ executed[r] \in 0..Len(Commands[r])
      BY <1>1, <1>3 DEF Taken
    <2> QED BY <2>1
  <1>4. CASE pc[r] \notin {"shared", "failed"}
    <2>1. Taken(r) = {executed[r]} /\ executed[r] \in 0..Len(Commands[r])
      BY <1>1, <1>4 DEF Taken
    <2> QED BY <2>1
  <1> QED BY <1>2, <1>3, <1>4

\* Ground control stops, or starts with an empty log.
LEMMA PinsRestart ==
    ASSUME TypeInv, PinsInv, \A r \in Rovers : Taken(r) \subseteq Taken(r)',
           \/ StartGroundControl
           \/ Stop
    PROVE  PinsInv'
  <1>1. ASSUME NEW r \in Rovers, NEW k \in Taken(r)
        PROVE  /\ Disarmed(r, k) \in Seq(Grid) /\ LogOf(r) = LogPart(pin_log, r)
               /\ LogPart(pin_log, r) \in Seq(Grid)
    <2>1. k \in 0..Len(Commands[r]) /\ pin_log \in Seq(Pin)
      BY TakenTypes DEF TypeInv, TypeOK
    <2> QED BY <2>1, PinTypes DEF LogOf, LogPart
  <1>2. CASE Stop
    <2>1. stops' = stops + 1 /\ pin_log' = pin_log /\ stops \in Nat
      BY <1>2 DEF Stop, TypeInv, TypeOK
    <2>2. stops' # 0 /\ \A r \in Rovers : LogOf(r)' = LogOf(r)
      BY <2>1 DEF LogOf
    <2>3. ASSUME NEW r \in Rovers
          PROVE  \E k \in Taken(r)' : IsSuffix(LogOf(r), Disarmed(r, k))
      <3>0. PICK k \in Taken(r) :
              IF stops = 0 THEN LogOf(r) = Disarmed(r, k)
              ELSE IsSuffix(LogOf(r), Disarmed(r, k))
        BY DEF PinsInv, PinsLogged
      <3>1. CASE stops = 0
        <4>1. PICK t \in Seq(Grid) : t = Disarmed(r, k)
          BY <1>1
        <4>2. LogOf(r) = t
          BY <3>0, <3>1, <4>1
        <4>3. IsSuffix(t, t)
          <5>1. Start \in Grid
            BY GroundControlAssumption
          <5> QED BY <5>1, SuffixProperties
        <4> QED BY <4>1, <4>2, <4>3
      <3>2. CASE stops # 0
        BY <3>0, <3>2
      <3> QED BY <3>1, <3>2
    <2> QED BY <2>1, <2>2, <2>3 DEF PinsInv, PinsLogged
  <1>3. CASE StartGroundControl
    <2>1. up' = TRUE /\ ~up /\ pin_log' = <<>> /\ stops' = stops
      BY <1>3 DEF StartGroundControl
    <2>2. \A r \in Rovers : LogOf(r)' = <<>>
      <3>1. \A r \in Rovers : LogOf(r)' = LogPart(<<>>, r)
        BY <2>1 DEF LogOf, LogPart
      <3> QED BY <3>1, PinTypes
    <2>3. CASE stops = 0
      <3>1. \A r \in Rovers : LogOf(r)' = LogOf(r)
        BY <2>1, <2>3 DEF PinsInv, LogOf
      <3> QED BY <2>1, <2>3, <3>1 DEF PinsInv, PinsLogged
    <2>4. CASE stops # 0
      <3>1. ASSUME NEW r \in Rovers PROVE \E k \in Taken(r)' : IsSuffix(<<>>, Disarmed(r, k))
        <4>1. PICK k \in Taken(r) : TRUE
          BY TakenTypes
        <4>2. PICK t \in Seq(Grid) : t = Disarmed(r, k)
          BY <1>1
        <4>3. IsSuffix(<<>>, t)
          <5>1. Start \in Grid
            BY GroundControlAssumption
          <5> QED BY <5>1, SuffixProperties
        <4> QED BY <4>2, <4>3
      <3> QED BY <2>1, <2>2, <2>4, <3>1 DEF PinsInv, PinsLogged
    <2> QED BY <2>3, <2>4
  <1> QED BY <1>2, <1>3

\* The PIN of a mine that a rover disarms is logged behind its others.
LEMMA PinsShared ==
    ASSUME TypeInv, CourseInv, PinsInv, NEW r \in Rovers, ShareMinePin(r)
    PROVE  PinsInv'
  <1>1. PICK k \in Nat : k = executed[r]
    BY DEF TypeInv, TypeOK
  <1>2. PICK log \in Seq(Pin) : log = pin_log
    BY DEF TypeInv, TypeOK
  <1>3. PICK cell \in Mine : cell = at[r]
    BY DEF ShareMinePin, TypeInv, SharingOnMine
  <1>4. PICK e \in Pin : e = [rover |-> r, at |-> cell] /\ e.rover = r /\ e.at = cell
    <2>1. [rover |-> r, at |-> cell] \in Pin
      BY DEF Pin
    <2> QED BY <2>1
  <1>5. /\ pin_log' = Append(log, e) /\ up /\ up' = up /\ stops' = stops
        /\ pc[r] = "sharing" /\ pc'[r] = "shared" /\ executed' = executed
        /\ \A q \in Rovers : q # r => pc'[q] = pc[q]
    BY <1>2, <1>3, <1>4 DEF ShareMinePin, goto, motion, TypeInv, TypeOK
  <1>6. k \in 0..(Len(Commands[r]) - 1) /\ Commands[r][k + 1] = "D"
    <2>1. received[r] \in Nat /\ InLoop(r) /\ Len(Commands[r]) \in Nat
      BY GroundControlAssumption DEF TypeInv, TypeOK, CourseInv
    <2>2. k < received[r] /\ received[r] = Len(Commands[r]) /\ cmd(r) = "D"
      BY <1>1, <1>5, <2>1 DEF TypeInv, SharingOnMine, InLoop
    <2> QED BY <1>1, <2>1, <2>2 DEF cmd
  <1>7. Course(r)[k + 1].at = cell
    <2>1. cell = Course(r)[k].at
      BY <1>1, <1>3 DEF CourseInv, OnCourse
    <2>2. k + 1 \in 1..Len(Commands[r]) /\ (k + 1) - 1 = k
      BY <1>6, GroundControlAssumption
    <2>3. Course(r)[k + 1] = Passed(r, k + 1, Course(r)[k])
      BY <2>2, CourseSteps
    <2>4. Passed(r, k + 1, Course(r)[k]).at = Course(r)[k].at
      BY <1>6 DEF Passed
    <2> QED BY <2>1, <2>3, <2>4
  <1>8. /\ LogOf(r) = LogPart(log, r) /\ LogOf(r)' = Append(LogPart(log, r), cell)
        /\ \A q \in Rovers : q # r => LogOf(q)' = LogOf(q)
    <2>1. ASSUME NEW q \in Rovers
          PROVE  LogOf(q) = LogPart(log, q) /\ LogOf(q)' = LogPart(Append(log, e), q)
      BY <1>2, <1>5 DEF LogOf, LogPart
    <2>2. ASSUME NEW q \in Rovers
          PROVE  LogPart(Append(log, e), q) =
                   IF q = r THEN Append(LogPart(log, q), cell) ELSE LogPart(log, q)
      BY <1>4, LogPartGrows
    <2> QED BY <2>1, <2>2
  <1>9. Disarmed(r, k + 1) = Append(Disarmed(r, k), cell)
    BY <1>6, <1>7, DisarmedGrows
  <1>10. /\ Taken(r) = {k} /\ Taken(r)' = {k + 1}
         /\ \A q \in Rovers : q # r => Taken(q)' = Taken(q)
    BY <1>1, <1>5 DEF Taken
  <1>11. ASSUME NEW q \in Rovers
         PROVE  \E j \in Taken(q)' : IF stops = 0 THEN LogOf(q)' = Disarmed(q, j)
                                     ELSE IsSuffix(LogOf(q)', Disarmed(q, j))
    <2>1. \E j \in Taken(q) : IF stops = 0 THEN LogOf(q) = Disarmed(q, j)
                              ELSE IsSuffix(LogOf(q), Disarmed(q, j))
      BY DEF PinsInv, PinsLogged
    <2>2. CASE q # r
      BY <1>8, <1>10, <2>1, <2>2
    <2>3. CASE q = r /\ stops = 0
      BY <1>8, <1>9, <1>10, <2>1, <2>3
    <2>4. CASE q = r /\ stops # 0
      <3>1. PICK s \in Seq(Grid), t \in Seq(Grid) : s = LogPart(log, r) /\ t = Disarmed(r, k)
        BY <1>6, DisarmedGrows, PinTypes
      <3>2. IsSuffix(s, t)
        BY <1>8, <1>10, <2>1, <2>4, <3>1
      <3>3. cell \in Grid
        BY GroundControlAssumption
      <3>4. IsSuffix(Append(s, cell), Append(t, cell))
        BY <3>2, <3>3, SuffixProperties
      <3> QED BY <1>8, <1>9, <1>10, <2>4, <3>1, <3>4
    <2> QED BY <2>2, <2>3, <2>4
  <1> QED BY <1>5, <1>11 DEF PinsInv, PinsLogged

\* A command that disarms nothing.
LEMMA PinsExecute ==
    ASSUME TypeInv, CourseInv, CourseInv', PinsInv, NEW r \in Rovers,
           Turn(r) \/ Move(r) \/ Skip(r)
    PROVE  PinsInv'
  <1>1. /\ pin_log' = pin_log /\ up' = up /\ stops' = stops /\ pc' = pc
        /\ pc[r] = "executing"
        /\ executed'[r] = executed[r] + 1 /\ \A q \in Rovers : q # r => executed'[q] = executed[q]
    BY DEF Turn, Move, Skip, Running, Count, control, TypeInv, TypeOK
  <1>2. executed[r] \in 0..(Len(Commands[r]) - 1)
    <2>1. /\ executed[r] \in Nat /\ received[r] \in Nat /\ received[r] <= Len(Commands[r])
          /\ executed[r] < received[r] /\ Len(Commands[r]) \in Nat
      BY GroundControlAssumption DEF Turn, Move, Skip, Running, TypeInv, TypeOK
    <2> QED BY <2>1
  <1>3. ~(Commands[r][executed[r] + 1] = "D" /\ Course(r)[executed[r] + 1].at \in Mine)
    <2>1. at'[r] = Course(r)[executed[r] + 1].at
      BY <1>1 DEF CourseInv, OnCourse
    <2>2. CASE Turn(r) \/ Move(r)
      BY <2>2 DEF Turn, Move, cmd
    <2>3. CASE Skip(r)
      BY <2>1, <2>3 DEF Skip, Disarming, cmd
    <2> QED BY <2>2, <2>3
  <1>4. Disarmed(r, executed[r] + 1) = Disarmed(r, executed[r])
    BY <1>2, <1>3, DisarmedGrows
  <1>5. /\ Taken(r) = {executed[r]} /\ Taken(r)' = {executed[r] + 1}
        /\ \A q \in Rovers : q # r => Taken(q)' = Taken(q)
    BY <1>1 DEF Taken
  <1> QED BY <1>1, <1>4, <1>5, PinsStay

\* The answer that a rover waits for arrives, or is lost: what ground control
\* has seen through is still among what it may have.
LEMMA TakenKept ==
    ASSUME TypeInv, NEW r \in Rovers, NEW to,
           \/ /\ executed' = executed /\ pc' = [pc EXCEPT ![r] = to]
              /\ to # "shared" /\ pc[r] # "failed"
              /\ pc[r] = "shared" => to = "failed"
           \/ Acknowledged(r)
    PROVE  \A q \in Rovers : Taken(q) \subseteq Taken(q)'
  <1> SUFFICES ASSUME NEW q \in Rovers PROVE Taken(q) \subseteq Taken(q)'
    OBVIOUS
  <1>1. /\ executed[r] \in Nat /\ received[r] \in Nat /\ Len(Commands[r]) \in Nat
        /\ executed[r] <= Len(Commands[r]) /\ received[r] <= Len(Commands[r])
        /\ pc[r] = "shared" => executed[r] < received[r]
    BY GroundControlAssumption DEF TypeInv, TypeOK, SharingOnMine
  <1>2. CASE q # r
    <2>1. pc'[q] = pc[q] /\ executed'[q] = executed[q]
      <3>1. CASE Acknowledged(r)
        BY <1>2, <3>1 DEF Acknowledged, Count, goto, TypeInv, TypeOK
      <3>2. CASE ~Acknowledged(r)
        BY <1>2, <3>2 DEF TypeInv, TypeOK
      <3> QED BY <3>1, <3>2
    <2> QED BY <2>1 DEF Taken
  <1>3. CASE q = r /\ Acknowledged(r)
    <2>1. pc[r] = "shared" /\ pc'[r] = "executing" /\ executed'[r] = executed[r] + 1
      BY <1>3 DEF Acknowledged, Count, goto, TypeInv, TypeOK
    <2> QED BY <1>3, <2>1 DEF Taken
  <1>4. CASE q = r /\ ~Acknowledged(r)
    <2>1. /\ executed'[r] = executed[r] /\ pc'[r] # "shared" /\ pc[r] # "failed"
          /\ pc[r] = "shared" => pc'[r] = "failed"
      BY <1>4 DEF TypeInv, TypeOK
    <2> QED BY <1>1, <1>4, <2>1 DEF Taken
  <1> QED BY <1>2, <1>3, <1>4

LEMMA PinsNext == TypeInv /\ CourseInv /\ PinsInv /\ [Next]_vars => PinsInv'
  <1> SUFFICES ASSUME TypeInv, CourseInv, PinsInv, [Next]_vars PROVE PinsInv'
    OBVIOUS
  <1>1. CASE StartGroundControl \/ StopGroundControl
    <2>1. \A r \in Rovers : Taken(r)' = Taken(r)
      BY <1>1 DEF StartGroundControl, StopGroundControl, motion, Taken
    <2> QED BY <1>1, <2>1, PinsRestart DEF StopGroundControl
  <1>2. ASSUME pin_log' = pin_log, up' = up, stops' = stops,
               \A r \in Rovers : Taken(r) \subseteq Taken(r)'
        PROVE  PinsInv'
    BY <1>2, PinsStay
  <1>3. CASE Summarize \/ Raise \/ UNCHANGED vars
    BY <1>2, <1>3 DEF Summarize, Raise, vars, control, motion, Taken
  <1>4. ASSUME NEW r \in Rovers, run_single_rover(r) \/ ReportUnanswered(r) PROVE PinsInv'
    <2>1. CASE ReportUnanswered(r)
      <3>1. Stop /\ executed' = executed /\ pc' = [pc EXCEPT ![r] = "failed"]
            /\ pc[r] = "reporting"
        BY <2>1 DEF ReportUnanswered, motion, goto
      <3>2. \A q \in Rovers : Taken(q) \subseteq Taken(q)'
        BY <3>1, TakenKept
      <3> QED BY <3>1, <3>2, PinsRestart
    <2>2. CASE ShareMinePin(r)
      BY <2>2, PinsShared
    <2>3. CASE Turn(r) \/ Move(r) \/ Skip(r)
      BY <2>3, PinsExecute, CourseNext
    <2>4. CASE Chunk(r)
      BY <1>2, <2>4 DEF Chunk, control, motion, Taken
    <2>5. CASE \/ StartRover(r) \/ GetMap(r) \/ StreamCommands(r) \/ LastChunk(r)
               \/ GetMineSerial(r) \/ ReportExecution(r) \/ Explode(r) \/ Finish(r)
      <3>1. PICK to \in {"mapping", "opening", "streaming", "executing", "sharing", "reporting",
                         "done"} : pc' = [pc EXCEPT ![r] = to]
        BY <2>5 DEF StartRover, GetMap, StreamCommands, LastChunk, GetMineSerial,
                    ReportExecution, Explode, Finish, goto
      <3>2. pc[r] \notin {"shared", "failed"} /\ executed' = executed
        BY <2>5 DEF StartRover, GetMap, StreamCommands, LastChunk, GetMineSerial,
                    ReportExecution, Explode, Finish, Disarming, Running, motion
      <3>3. \A q \in Rovers : Taken(q) \subseteq Taken(q)'
        BY <3>1, <3>2, TakenKept
      <3>4. pin_log' = pin_log /\ up' = up /\ stops' = stops
        BY <2>5 DEF StartRover, GetMap, StreamCommands, LastChunk, GetMineSerial,
                    ReportExecution, Explode, Finish, Answered, control
      <3> QED BY <1>2, <3>3, <3>4
    <2>6. CASE CallFails(r) \/ Acknowledged(r)
      <3>1. pin_log' = pin_log /\ up' = up /\ stops' = stops
        BY <2>6 DEF CallFails, Acknowledged, control
      <3>2. CallFails(r) => /\ executed' = executed /\ pc' = [pc EXCEPT ![r] = "failed"]
                            /\ pc[r] # "failed"
        BY DEF CallFails, Calling, Disarming, Running, motion, goto
      <3>3. \A q \in Rovers : Taken(q) \subseteq Taken(q)'
        BY <2>6, <3>2, TakenKept
      <3> QED BY <1>2, <3>1, <3>3
    <2> QED BY <1>4, <2>1, <2>2, <2>3, <2>4, <2>5, <2>6 DEF run_single_rover, Call, Execute
  <1> QED BY <1>1, <1>3, <1>4 DEF Next

-----------------------------------------------------------------------------
(* The theorems.                                                             *)

LEMMA Invariance == Spec => [](TypeInv /\ FleetInv /\ CourseInv /\ PinsInv)
  <1> QED BY TypeInit, TypeNext, FleetInit, FleetNext, CourseInit, CourseNext,
             PinsInit, PinsNext, PTL DEF Spec

\* Every variable keeps its type; no rover leaves the map or gets onto a blocked
\* cell, and one that is to disarm stands on a mine (run_single_rover).
THEOREM TypeCorrect == Spec => []TypeOK
  <1>1. TypeInv => TypeOK
    BY DEF TypeInv
  <1> QED BY <1>1, Invariance, PTL

\* A summary stands for a report of every rover, each rover reports once, and
\* a run that raises leaves no thread behind, in both modes and wherever ground
\* control is stopped (run_all_sequential, run_all_concurrent).
THEOREM SummariesWhole == Spec => []SummaryWhole
  <1>1. FleetInv => SummaryWhole
    BY DEF FleetInv
  <1> QED BY <1>1, Invariance, PTL

\* Every report tells what the rover's own commands do on this map: how far
\* they take it and where, and that it exploded exactly at the first mine it
\* left armed, however rovers, threads and stops of ground control interleave
\* (run_single_rover, ReportExecution).
THEOREM EveryReportTrue == Spec => []ReportsTrue
  <1>1. CourseInv => ReportsTrue
    BY DEF CourseInv
  <1> QED BY <1>1, Invariance, PTL

\* The PIN log misses no mine that a rover has disarmed and has none twice,
\* each rover's in its order, however the calls of the rovers fall between each
\* other; a ground control that was started later has the last of them
\* (GetMineSerial, ShareMinePin).
THEOREM EveryPinLogged == Spec => []PinsLogged
  <1>1. PinsInv => PinsLogged
    BY DEF PinsInv
  <1> QED BY <1>1, Invariance, PTL
=============================================================================
