--------------------------- MODULE TransferProofs ---------------------------
(***************************************************************************)
(* Theorems about the file transfer, for any clients, files and number of  *)
(* faults.                                                                 *)
(***************************************************************************)
EXTENDS FileTransfer, DataLemmas

-----------------------------------------------------------------------------
(* Types, and the last blocks.                                              *)

IsLast(block) == \E m \in DOMAIN Size : block = <<m, Size[m] + 1>>

\* Every F on its way carries the last block of some file.
LastsOnTheWay ==
    \A c \in Clients : \A i \in 1..Len(pdus[c]) :
        pdus[c][i].type = "F" => IsLast(pdus[c][i].block)

RemnantInv == TypeOK /\ LastsOnTheWay /\ NoRemnants

LEMMA InitRemnant == Init => RemnantInv
  <1> SUFFICES ASSUME Init PROVE RemnantInv
    OBVIOUS
  <1>1. TypeOK
    <2>1. saved \in [Clients -> [Names -> Seq(Block)]]
      BY DEF Init
    <2>2. pdus \in [Clients -> Seq(PDU)] /\ requests \in [Clients -> Seq(Names)]
      BY DEF Init
    <2>3. job \in Job
      BY DEF Init, Job, Idle
    <2>4. given \in 0..MaxCommands /\ faults \in 0..MaxFaults
      BY TransferAssumption DEF Init
    <2> QED BY <2>1, <2>2, <2>3, <2>4, TransferAssumption DEF TypeOK, Init
  <1>2. LastsOnTheWay /\ NoRemnants
    BY DEF LastsOnTheWay, NoRemnants, Init
  <1> QED BY <1>1, <1>2 DEF RemnantInv

\* What sendto adds to the queue of a client.
LEMMA Sent ==
    ASSUME TypeOK, NEW c \in Clients, NEW p \in PDU, SendTo(c, p)
    PROVE  /\ pdus' \in [Clients -> Seq(PDU)]
           /\ \A d \in Clients : d # c \/ pc[c] = "ended" => pdus'[d] = pdus[d]
           /\ pc[c] # "ended" =>
                /\ Len(pdus'[c]) = Len(pdus[c]) + 1
                /\ \A i \in 1..Len(pdus[c]) : pdus'[c][i] = pdus[c][i]
                /\ pdus'[c][Len(pdus[c]) + 1] = p
  <1>1. pdus \in [Clients -> Seq(PDU)] /\ pdus[c] \in Seq(PDU)
    BY DEF TypeOK
  <1>2. CASE pc[c] = "ended"
    BY <1>1, <1>2 DEF SendTo
  <1>3. CASE pc[c] # "ended"
    <2>1. pdus' = [pdus EXCEPT ![c] = Append(pdus[c], p)]
      BY <1>3 DEF SendTo
    <2>2. /\ Append(pdus[c], p) \in Seq(PDU)
          /\ Len(Append(pdus[c], p)) = Len(pdus[c]) + 1
          /\ \A i \in 1..Len(pdus[c]) : Append(pdus[c], p)[i] = pdus[c][i]
          /\ Append(pdus[c], p)[Len(pdus[c]) + 1] = p
      BY <1>1
    <2> QED BY <1>1, <1>3, <2>1, <2>2
  <1> QED BY <1>2, <1>3

\* What a recv takes from it.
LEMMA Taken ==
    ASSUME TypeOK, NEW c \in Clients, NEW types, Take(c, types)
    PROVE  /\ pc[c] = "waiting" /\ remote[c] \in Names
           /\ pdus' \in [Clients -> Seq(PDU)]
           /\ \A d \in Clients : d # c => pdus'[d] = pdus[d]
           /\ Len(pdus[c]) \in Nat /\ Len(pdus[c]) >= 1
           /\ Head(pdus[c]) = pdus[c][1] /\ pdus[c][1] \in PDU
           /\ pdus[c][1].type \in types
           /\ Len(pdus'[c]) = Len(pdus[c]) - 1
           /\ \A i \in 1..Len(pdus'[c]) : pdus'[c][i] = pdus[c][i + 1]
           /\ UNCHANGED <<up, job, requests, refused>>
  <1>1. pdus \in [Clients -> Seq(PDU)] /\ pdus[c] \in Seq(PDU) /\ pdus[c] # <<>>
    BY DEF TypeOK, Take
  <1>2. pdus' = [pdus EXCEPT ![c] = Tail(pdus[c])]
    BY DEF Take
  <1>3. /\ Len(pdus[c]) \in Nat /\ Len(pdus[c]) >= 1
        /\ Head(pdus[c]) = pdus[c][1] /\ pdus[c][1] \in PDU
        /\ Tail(pdus[c]) \in Seq(PDU) /\ Len(Tail(pdus[c])) = Len(pdus[c]) - 1
        /\ \A i \in 1..Len(Tail(pdus[c])) : Tail(pdus[c])[i] = pdus[c][i + 1]
    BY <1>1, EmptySeq, HeadTailProperties
  <1>4. pdus' \in [Clients -> Seq(PDU)] /\ pdus'[c] = Tail(pdus[c])
        /\ \A d \in Clients : d # c => pdus'[d] = pdus[d]
    BY <1>1, <1>2, <1>3
  <1>5. pc[c] = "waiting" /\ remote[c] \in Names
    BY DEF Take, TypeOK
  <1> QED BY <1>3, <1>4, <1>5 DEF Take

\* What is written to a file.
LEMMA WrittenType ==
    ASSUME TypeOK, NEW c \in Clients, remote[c] \in Names, NEW b \in Block, Written(c, b)
    PROVE  /\ saved' \in [Clients -> [Names -> Seq(Block)]]
           /\ \A d \in Clients : \A n \in Names :
                d # c \/ n # remote[c] => saved'[d][n] = saved[d][n]
           /\ ~created[c] => saved'[c][remote[c]] = <<b>>
           /\ created[c] => saved'[c][remote[c]] = Append(saved[c][remote[c]], b)
           /\ saved'[c][remote[c]] # <<>>
           /\ saved'[c][remote[c]][Len(saved'[c][remote[c]])] = b
  <1> DEFINE n == remote[c]
             s == IF created[c] THEN Append(saved[c][n], b) ELSE <<b>>
  <1>1. saved \in [Clients -> [Names -> Seq(Block)]] /\ saved[c][n] \in Seq(Block)
    BY DEF TypeOK
  <1>2. saved' = [saved EXCEPT ![c] = [saved[c] EXCEPT ![n] = s]]
    BY <1>1 DEF Written, Output
  <1>3. s \in Seq(Block) /\ s # <<>> /\ s[Len(s)] = b
    <2>1. CASE created[c]
      <3>1. s = Append(saved[c][n], b)
        BY <2>1
      <3> DEFINE t == Append(saved[c][n], b)
      <3>2. /\ t \in Seq(Block) /\ Len(t) = Len(saved[c][n]) + 1
            /\ t[Len(saved[c][n]) + 1] = b /\ Len(saved[c][n]) + 1 # 0
        BY <1>1
      <3> HIDE DEF t
      <3>3. t # <<>>
        BY <3>2, EmptySeq
      <3> QED BY <3>1, <3>2, <3>3 DEF t
    <2>2. CASE ~created[c]
      BY <2>2
    <2> QED BY <2>1, <2>2
  <1>4. (~created[c] => s = <<b>>) /\ (created[c] => s = Append(saved[c][n], b))
    OBVIOUS
  <1> HIDE DEF s
  <1>5. [saved[c] EXCEPT ![n] = s] \in [Names -> Seq(Block)]
    BY <1>1, <1>3
  <1>6. saved' \in [Clients -> [Names -> Seq(Block)]]
    BY <1>1, <1>2, <1>5
  <1>7. saved'[c] = [saved[c] EXCEPT ![n] = s] /\ \A d \in Clients : d # c => saved'[d] = saved[d]
    BY <1>1, <1>2
  <1>8. saved'[c][n] = s /\ \A m \in Names : m # n => saved'[c][m] = saved[c][m]
    BY <1>1, <1>7
  <1>9. \A d \in Clients : \A m \in Names :
          d # c \/ m # n => saved'[d][m] = saved[d][m]
    BY <1>7, <1>8
  <1>10. /\ ~created[c] => saved'[c][n] = <<b>>
         /\ created[c] => saved'[c][n] = Append(saved[c][n], b)
         /\ saved'[c][n] # <<>>
         /\ saved'[c][n][Len(saved'[c][n])] = b
    BY <1>3, <1>4, <1>8
  <1> QED BY <1>6, <1>9, <1>10

\* What is left of a file that is removed.
LEMMA Removed ==
    ASSUME TypeOK, NEW c \in Clients, remote[c] \in Names,
           saved' = [saved EXCEPT ![c][remote[c]] = <<>>]
    PROVE  /\ saved' \in [Clients -> [Names -> Seq(Block)]]
           /\ \A d \in Clients : \A n \in Names :
                saved'[d][n] = IF d = c /\ n = remote[c] THEN <<>> ELSE saved[d][n]
  <1>1. saved \in [Clients -> [Names -> Seq(Block)]] /\ <<>> \in Seq(Block)
    BY DEF TypeOK
  <1> QED BY <1>1

\* What is on the way after a fault of the network.
LEMMA Disturbed ==
    ASSUME TypeOK, NEW c \in Clients, Lose(c) \/ Duplicate(c) \/ Reorder(c)
    PROVE  /\ pdus' \in [Clients -> Seq(PDU)] /\ requests' \in [Clients -> Seq(Names)]
           /\ \A d \in Clients : \A i \in 1..Len(pdus'[d]) :
                \E j \in 1..Len(pdus[d]) : pdus'[d][i] = pdus[d][j]
  <1>1. /\ pdus \in [Clients -> Seq(PDU)] /\ requests \in [Clients -> Seq(Names)]
        /\ pdus[c] \in Seq(PDU) /\ requests[c] \in Seq(Names)
        /\ Len(pdus[c]) \in Nat /\ DOMAIN pdus[c] = 1..Len(pdus[c])
        /\ DOMAIN requests[c] = 1..Len(requests[c])
    BY DEF TypeOK
  <1>2. ASSUME NEW s \in Seq(PDU), pdus' = [pdus EXCEPT ![c] = s], UNCHANGED requests,
               \A i \in 1..Len(s) : \E j \in 1..Len(pdus[c]) : s[i] = pdus[c][j]
        PROVE  /\ pdus' \in [Clients -> Seq(PDU)] /\ requests' \in [Clients -> Seq(Names)]
               /\ \A d \in Clients : \A i \in 1..Len(pdus'[d]) :
                    \E j \in 1..Len(pdus[d]) : pdus'[d][i] = pdus[d][j]
    <2>1. pdus'[c] = s /\ \A d \in Clients : d # c => pdus'[d] = pdus[d]
      BY <1>1, <1>2
    <2> QED BY <1>1, <1>2, <2>1
  <1>3. ASSUME NEW s \in Seq(Names), requests' = [requests EXCEPT ![c] = s], UNCHANGED pdus
        PROVE  /\ pdus' \in [Clients -> Seq(PDU)] /\ requests' \in [Clients -> Seq(Names)]
               /\ \A d \in Clients : \A i \in 1..Len(pdus'[d]) :
                    \E j \in 1..Len(pdus[d]) : pdus'[d][i] = pdus[d][j]
    BY <1>1, <1>3
  <1>4. ASSUME NEW k \in 1..Len(pdus[c])
        PROVE  /\ RemoveAt(pdus[c], k) \in Seq(PDU)
               /\ \A i \in 1..Len(RemoveAt(pdus[c], k)) :
                    \E j \in 1..Len(pdus[c]) : RemoveAt(pdus[c], k)[i] = pdus[c][j]
    <2>1. /\ RemoveAt(pdus[c], k) \in Seq(PDU)
          /\ Len(RemoveAt(pdus[c], k)) = Len(pdus[c]) - 1
          /\ \A i \in 1..(Len(pdus[c]) - 1) :
               RemoveAt(pdus[c], k)[i] = IF i < k THEN pdus[c][i] ELSE pdus[c][i + 1]
      BY <1>1, RemoveAtElements
    <2>2. ASSUME NEW i \in 1..(Len(pdus[c]) - 1)
          PROVE  i \in 1..Len(pdus[c]) /\ i + 1 \in 1..Len(pdus[c])
      BY <1>1
    <2> QED BY <2>1, <2>2
  <1>5. CASE Lose(c)
    <2>1. CASE \E k \in DOMAIN pdus[c] :
                 pdus' = [pdus EXCEPT ![c] = RemoveAt(@, k)] /\ UNCHANGED requests
      BY <1>1, <1>2, <1>4, <2>1
    <2>2. CASE \E k \in DOMAIN requests[c] :
                 requests' = [requests EXCEPT ![c] = RemoveAt(@, k)] /\ UNCHANGED pdus
      <3>1. PICK k \in 1..Len(requests[c]) :
              requests' = [requests EXCEPT ![c] = RemoveAt(requests[c], k)] /\ UNCHANGED pdus
        BY <1>1, <2>2
      <3>2. RemoveAt(requests[c], k) \in Seq(Names)
        BY <1>1, RemoveAtElements
      <3> QED BY <1>3, <3>1, <3>2
    <2> QED BY <1>5, <2>1, <2>2 DEF Lose
  <1>6. CASE Duplicate(c)
    <2>1. CASE \E k \in DOMAIN pdus[c] :
                 pdus' = [pdus EXCEPT ![c] = Append(@, pdus[c][k])] /\ UNCHANGED requests
      <3>1. PICK k \in 1..Len(pdus[c]) :
              pdus' = [pdus EXCEPT ![c] = Append(pdus[c], pdus[c][k])] /\ UNCHANGED requests
        BY <1>1, <2>1
      <3> DEFINE s == Append(pdus[c], pdus[c][k])
      <3>2. s \in Seq(PDU) /\ Len(s) = Len(pdus[c]) + 1 /\ s[Len(pdus[c]) + 1] = pdus[c][k]
            /\ \A i \in 1..Len(pdus[c]) : s[i] = pdus[c][i]
        BY <1>1
      <3> HIDE DEF s
      <3>3. ASSUME NEW i \in 1..Len(s) PROVE \E j \in 1..Len(pdus[c]) : s[i] = pdus[c][j]
        <4>1. Len(pdus[c]) \in Nat /\ Len(s) = Len(pdus[c]) + 1
          BY <1>1, <3>2
        <4>2. i \in 1..Len(pdus[c]) \/ i = Len(pdus[c]) + 1
          BY <4>1
        <4> QED BY <3>2, <4>2
      <3> QED BY <1>2, <3>1, <3>2, <3>3 DEF s
    <2>2. CASE \E k \in DOMAIN requests[c] :
                 requests' = [requests EXCEPT ![c] = Append(@, requests[c][k])] /\ UNCHANGED pdus
      <3>1. PICK k \in 1..Len(requests[c]) :
              requests' = [requests EXCEPT ![c] = Append(requests[c], requests[c][k])]
              /\ UNCHANGED pdus
        BY <1>1, <2>2
      <3>2. Append(requests[c], requests[c][k]) \in Seq(Names)
        BY <1>1
      <3> QED BY <1>3, <3>1, <3>2
    <2> QED BY <1>6, <2>1, <2>2 DEF Duplicate
  <1>7. CASE Reorder(c)
    <2>1. PICK k \in 2..Len(pdus[c]) :
            pdus' = [pdus EXCEPT ![c] = <<pdus[c][k]>> \o RemoveAt(pdus[c], k)]
            /\ UNCHANGED requests
      BY <1>7 DEF Reorder
    <2>2. k \in 1..Len(pdus[c]) /\ pdus[c][k] \in PDU
      BY <1>1
    <2> DEFINE r == RemoveAt(pdus[c], k)
               s == <<pdus[c][k]>> \o r
    <2>3. /\ r \in Seq(PDU)
          /\ \A i \in 1..Len(r) : \E j \in 1..Len(pdus[c]) : r[i] = pdus[c][j]
      BY <1>4, <2>2
    <2> HIDE DEF r
    <2>4. s \in Seq(PDU) /\ Len(s) = Len(r) + 1 /\ s[1] = pdus[c][k]
          /\ \A i \in 1..Len(r) : s[i + 1] = r[i]
      BY <2>2, <2>3
    <2>5. ASSUME NEW i \in 1..Len(s) PROVE \E j \in 1..Len(pdus[c]) : s[i] = pdus[c][j]
      <3>1. CASE i = 1
        BY <2>2, <2>4, <3>1
      <3>2. CASE i # 1
        <4>1. i - 1 \in 1..Len(r) /\ (i - 1) + 1 = i
          BY <2>3, <2>4, <3>2
        <4> QED BY <2>3, <2>4, <4>1
      <3> QED BY <3>1, <3>2
    <2> QED BY <1>2, <2>1, <2>4, <2>5 DEF r
  <1> QED BY <1>5, <1>6, <1>7

-----------------------------------------------------------------------------
(* The steps keep the invariant, action by action.                          *)

\* A PDU that joins a queue, and a block with it.
LEMMA Messages ==
    ASSUME NEW n \in DOMAIN Size, NEW k \in Nat
    PROVE  /\ [type |-> "D", block |-> <<n, k>>] \in PDU
           /\ [type |-> "F", block |-> <<n, k>>] \in PDU
           /\ Error \in PDU
  BY TransferAssumption DEF PDU, Block

LEMMA SentLasts ==
    ASSUME TypeOK, LastsOnTheWay, NEW c \in Clients, NEW p \in PDU, SendTo(c, p),
           p.type = "F" => IsLast(p.block)
    PROVE  LastsOnTheWay'
  <1> SUFFICES ASSUME NEW d \in Clients, NEW i \in 1..Len(pdus'[d]), pdus'[d][i].type = "F"
               PROVE  IsLast(pdus'[d][i].block)
    BY DEF LastsOnTheWay, IsLast
  <1>1. CASE d # c \/ pc[c] = "ended"
    <2>1. pdus'[d] = pdus[d]
      BY <1>1, Sent
    <2> QED BY <2>1 DEF LastsOnTheWay
  <1>2. CASE d = c /\ pc[c] # "ended"
    <2>1. /\ Len(pdus'[c]) = Len(pdus[c]) + 1
          /\ \A j \in 1..Len(pdus[c]) : pdus'[c][j] = pdus[c][j]
          /\ pdus'[c][Len(pdus[c]) + 1] = p
          /\ Len(pdus[c]) \in Nat
      <3>1. Len(pdus[c]) \in Nat
        BY DEF TypeOK
      <3> QED BY <1>2, <3>1, Sent
    <2>2. i \in 1..Len(pdus[c]) \/ i = Len(pdus[c]) + 1
      BY <1>2, <2>1
    <2> QED BY <1>2, <2>1, <2>2 DEF LastsOnTheWay
  <1> QED BY <1>1, <1>2

LEMMA TakenLasts ==
    ASSUME TypeOK, LastsOnTheWay, NEW c \in Clients, NEW types, Take(c, types)
    PROVE  LastsOnTheWay'
  <1> SUFFICES ASSUME NEW d \in Clients, NEW i \in 1..Len(pdus'[d]), pdus'[d][i].type = "F"
               PROVE  IsLast(pdus'[d][i].block)
    BY DEF LastsOnTheWay, IsLast
  <1>1. CASE d # c
    <2>1. pdus'[d] = pdus[d]
      BY <1>1, Taken
    <2> QED BY <2>1 DEF LastsOnTheWay
  <1>2. CASE d = c
    <2>1. /\ Len(pdus'[c]) = Len(pdus[c]) - 1 /\ Len(pdus[c]) \in Nat
          /\ \A j \in 1..Len(pdus'[c]) : pdus'[c][j] = pdus[c][j + 1]
      BY Taken
    <2>2. i + 1 \in 1..Len(pdus[c]) /\ pdus'[c][i] = pdus[c][i + 1]
      BY <1>2, <2>1
    <2> QED BY <1>2, <2>2 DEF LastsOnTheWay
  <1> QED BY <1>1, <1>2

LEMMA ServerKeeps ==
    ASSUME RemnantInv,
           \/ StartServer \/ SendBlock \/ SendLast \/ KillServer
           \/ \E c \in Clients : RefuseRequest(c) \/ AcceptRequest(c) \/ Bounce(c)
    PROVE  RemnantInv'
  <1> USE DEF RemnantInv
  <1>1. UNCHANGED client
    BY DEF StartServer, SendBlock, SendLast, KillServer, RefuseRequest, AcceptRequest, Bounce
  <1>2. NoRemnants'
    <2>1. happened \subseteq happened'
      BY DEF StartServer, SendBlock, SendLast, KillServer, RefuseRequest, AcceptRequest, Bounce,
             Fault, trouble
    <2> QED BY <1>1, <2>1 DEF NoRemnants, Closed, client
  <1>3. ASSUME NEW c \in Clients, requests[c] # <<>>
        PROVE  /\ [requests EXCEPT ![c] = Tail(@)] \in [Clients -> Seq(Names)]
               /\ Head(requests[c]) \in Names
    BY <1>3 DEF TypeOK
  <1>4. CASE StartServer
    <2>1. TypeOK'
      BY <1>4 DEF StartServer, TypeOK, channel, client, trouble, Idle
    <2>2. LastsOnTheWay'
      BY <1>4 DEF StartServer, LastsOnTheWay, channel
    <2> QED BY <1>2, <2>1, <2>2
  <1>5. CASE SendBlock
    <2>1. job \in Job /\ job.to \in Clients /\ job.name \in DOMAIN Size /\ job.next \in Nat
          /\ job.next <= Size[job.name] /\ Size[job.name] \in Nat /\ up
      BY <1>5, TransferAssumption DEF SendBlock, TypeOK, Job
    <2> DEFINE p == [type |-> "D", block |-> <<job.name, job.next>>]
    <2>2. p \in PDU /\ p.type = "D"
      BY <2>1, Messages
    <2>3. SendTo(job.to, p)
      BY <1>5 DEF SendBlock
    <2> HIDE DEF p
    <2>4. pdus' \in [Clients -> Seq(PDU)] /\ LastsOnTheWay'
      BY <2>1, <2>2, <2>3, Sent, SentLasts
    <2>5. job' \in Job /\ job'.to \in Clients /\ job'.name \in DOMAIN Size
          /\ job'.next \in 1..(Size[job'.name] + 1)
      BY <1>5, <2>1 DEF SendBlock, Job
    <2>6. TypeOK'
      BY <1>5, <2>1, <2>4, <2>5 DEF SendBlock, TypeOK, client, trouble
    <2> QED BY <1>2, <2>4, <2>6
  <1>6. CASE SendLast
    <2>1. job \in Job /\ job.to \in Clients /\ job.name \in DOMAIN Size /\ job.next \in Nat
          /\ job.next = Size[job.name] + 1 /\ Size[job.name] \in Nat
      BY <1>6, TransferAssumption DEF SendLast, TypeOK, Job
    <2> DEFINE p == IF job.name \in Unreadable THEN Error
                    ELSE [type |-> "F", block |-> <<job.name, job.next>>]
    <2>2. p \in PDU
      BY <2>1, Messages
    <2>3. p.type = "F" => IsLast(p.block)
      BY <2>1 DEF IsLast, Error
    <2>4. SendTo(job.to, p)
      BY <1>6 DEF SendLast
    <2> HIDE DEF p
    <2>5. pdus' \in [Clients -> Seq(PDU)] /\ LastsOnTheWay'
      BY <2>1, <2>2, <2>3, <2>4, Sent, SentLasts
    <2>6. job' = Idle /\ Idle \in Job
      BY <1>6 DEF SendLast, Job, Idle
    <2>7. TypeOK'
      BY <1>6, <2>5, <2>6 DEF SendLast, TypeOK, client, trouble
    <2> QED BY <1>2, <2>5, <2>7
  <1>7. CASE KillServer
    <2>1. job' = Idle /\ Idle \in Job /\ requests' \in [Clients -> Seq(Names)]
      <3>1. job' = Idle /\ Idle \in Job
        BY <1>7 DEF KillServer, Job, Idle
      <3>2. PICK late \in SUBSET Clients :
              requests' = [c \in Clients |-> IF c \in late THEN requests[c] ELSE <<>>]
        BY <1>7 DEF KillServer
      <3> QED BY <3>1, <3>2 DEF TypeOK
    <2>2. faults' \in 0..MaxFaults /\ happened' \subseteq FaultKinds
      BY <1>7, TransferAssumption DEF KillServer, Fault, TypeOK, FaultKinds
    <2>3. TypeOK'
      BY <1>7, <2>1, <2>2 DEF KillServer, TypeOK, client
    <2>4. LastsOnTheWay'
      BY <1>7 DEF KillServer, LastsOnTheWay
    <2> QED BY <1>2, <2>3, <2>4
  <1>8. CASE \E c \in Clients : RefuseRequest(c)
    <2>1. PICK c \in Clients : RefuseRequest(c)
      BY <1>8
    <2>2. requests' \in [Clients -> Seq(Names)]
      BY <1>3, <2>1 DEF RefuseRequest
    <2>3. SendTo(c, Error) /\ Error \in PDU /\ Error.type # "F"
      BY <2>1 DEF RefuseRequest, PDU, Error
    <2>4. pdus' \in [Clients -> Seq(PDU)] /\ LastsOnTheWay'
      BY <2>3, Sent, SentLasts
    <2>5. TypeOK'
      BY <2>1, <2>2, <2>4 DEF RefuseRequest, TypeOK, client, trouble
    <2> QED BY <1>2, <2>4, <2>5
  <1>9. CASE \E c \in Clients : AcceptRequest(c)
    <2>1. PICK c \in Clients : AcceptRequest(c)
      BY <1>9
    <2>2. requests' \in [Clients -> Seq(Names)]
      BY <1>3, <2>1 DEF AcceptRequest
    <2>3. /\ job' \in Job /\ job'.to \in Clients /\ job'.name \in DOMAIN Size
          /\ job'.next \in 1..(Size[job'.name] + 1)
      BY <1>3, <2>1, TransferAssumption DEF AcceptRequest, Job
    <2>4. TypeOK'
      BY <2>1, <2>2, <2>3 DEF AcceptRequest, TypeOK, client, trouble
    <2>5. LastsOnTheWay'
      BY <2>1 DEF AcceptRequest, LastsOnTheWay
    <2> QED BY <1>2, <2>4, <2>5
  <1>10. CASE \E c \in Clients : Bounce(c)
    <2>1. PICK c \in Clients : Bounce(c)
      BY <1>10
    <2>2. requests' \in [Clients -> Seq(Names)]
      BY <1>3, <2>1 DEF Bounce
    <2>3. TypeOK'
      BY <2>1, <2>2 DEF Bounce, TypeOK, client, trouble
    <2>4. LastsOnTheWay'
      BY <2>1 DEF Bounce, LastsOnTheWay
    <2> QED BY <1>2, <2>3, <2>4
  <1> QED BY <1>4, <1>5, <1>6, <1>7, <1>8, <1>9, <1>10

\* download_one returns: the variables of the menu.
LEMMA Returned ==
    ASSUME TypeOK, NEW c \in Clients, Return(c)
    PROVE  /\ pc' \in [Clients -> {"menu", "waiting", "ended"}]
           /\ remote' \in [Clients -> Names \cup {"none"}]
           /\ \A d \in Clients : pc'[d] = "waiting" <=> remote'[d] \in Names
           /\ created' \in [Clients -> BOOLEAN]
           /\ \A d \in Clients : created'[d] => pc'[d] = "waiting"
           /\ given' \in 0..MaxCommands
           /\ ~created'[c] /\ pc'[c] = "menu"
           /\ \A d \in Clients : d # c =>
                pc'[d] = pc[d] /\ remote'[d] = remote[d] /\ created'[d] = created[d]
  <1>1. /\ pc' = [pc EXCEPT ![c] = "menu"] /\ remote' = [remote EXCEPT ![c] = "none"]
        /\ created' = [created EXCEPT ![c] = FALSE] /\ given' = given
    BY DEF Return
  <1>2. /\ pc' \in [Clients -> {"menu", "waiting", "ended"}]
        /\ remote' \in [Clients -> Names \cup {"none"}]
        /\ created' \in [Clients -> BOOLEAN]
        /\ pc'[c] = "menu" /\ remote'[c] = "none" /\ ~created'[c]
    BY <1>1 DEF TypeOK
  <1>3. \A d \in Clients : d # c =>
          pc'[d] = pc[d] /\ remote'[d] = remote[d] /\ created'[d] = created[d]
    BY <1>1 DEF TypeOK
  <1>4. ASSUME NEW d \in Clients
        PROVE  (pc'[d] = "waiting" <=> remote'[d] \in Names) /\ (created'[d] => pc'[d] = "waiting")
    <2>1. CASE d = c
      BY <1>2, <2>1, TransferAssumption
    <2>2. CASE d # c
      BY <1>3, <2>2 DEF TypeOK
    <2> QED BY <2>1, <2>2
  <1>5. given' \in 0..MaxCommands
    BY <1>1 DEF TypeOK
  <1> QED BY <1>2, <1>3, <1>4, <1>5

\* It fails: no file is left of it, and the others are as they were.
LEMMA Failed ==
    ASSUME TypeOK, NoRemnants, happened \subseteq happened',
           NEW c \in Clients, pc[c] = "waiting", Return(c),
           \/ ~created[c] /\ UNCHANGED saved
           \/ saved' = [saved EXCEPT ![c][remote[c]] = <<>>]
    PROVE  NoRemnants' /\ saved' \in [Clients -> [Names -> Seq(Block)]]
  <1>1. remote[c] \in Names /\ saved \in [Clients -> [Names -> Seq(Block)]]
    BY DEF TypeOK
  <1>2. ~created'[c] /\ \A d \in Clients : d # c =>
            remote'[d] = remote[d] /\ created'[d] = created[d]
    BY Returned
  <1>3. CASE ~created[c] /\ UNCHANGED saved
    <2>1. ASSUME NEW d \in Clients, NEW n \in Names, Closed(d, n)'
          PROVE  Closed(d, n)
      BY <1>2, <1>3, <2>1 DEF Closed
    <2> QED BY <1>1, <1>3, <2>1 DEF NoRemnants
  <1>4. CASE saved' = [saved EXCEPT ![c][remote[c]] = <<>>]
    <2>1. /\ saved' \in [Clients -> [Names -> Seq(Block)]]
          /\ \A d \in Clients : \A n \in Names :
               saved'[d][n] = IF d = c /\ n = remote[c] THEN <<>> ELSE saved[d][n]
      BY <1>1, <1>4, Removed
    <2>2. ASSUME NEW d \in Clients, NEW n \in Names, Closed(d, n)', saved'[d][n] # <<>>
          PROVE  saved'[d][n] = saved[d][n] /\ Closed(d, n)
      BY <1>2, <2>1, <2>2 DEF Closed
    <2> QED BY <2>1, <2>2 DEF NoRemnants
  <1> QED BY <1>3, <1>4

LEMMA ReceiveKeeps ==
    ASSUME RemnantInv, NEW c \in Clients, Receive(c) \/ WriteFails(c) \/ CloseFails(c)
    PROVE  RemnantInv'
  <1> USE DEF RemnantInv
  <1>1. ASSUME NEW types, Take(c, types), Return(c), NoRemnants',
               saved' \in [Clients -> [Names -> Seq(Block)]],
               faults' \in 0..MaxFaults, happened' \subseteq FaultKinds
        PROVE  RemnantInv'
    <2>1. pdus' \in [Clients -> Seq(PDU)] /\ UNCHANGED <<up, job, requests, refused>>
      BY <1>1, Taken
    <2>2. LastsOnTheWay'
      BY <1>1, TakenLasts
    <2>3. TypeOK'
      BY <1>1, <2>1, Returned DEF TypeOK
    <2> QED BY <1>1, <2>2, <2>3
  <1>2. CASE ReceiveBlock(c)
    <2>1. Take(c, {"D"}) /\ UNCHANGED <<pc, remote, given, trouble>>
          /\ created' = [created EXCEPT ![c] = TRUE]
      BY <1>2 DEF ReceiveBlock
    <2>2. /\ pc[c] = "waiting" /\ remote[c] \in Names
          /\ pdus' \in [Clients -> Seq(PDU)] /\ UNCHANGED <<up, job, requests, refused>>
          /\ Head(pdus[c]) \in PDU /\ Head(pdus[c]).type = "D"
      BY <2>1, Taken
    <2>3. Head(pdus[c]).block \in Block
      BY <2>2 DEF PDU, Error
    <2>4. /\ saved' \in [Clients -> [Names -> Seq(Block)]]
          /\ \A d \in Clients : \A n \in Names :
                d # c \/ n # remote[c] => saved'[d][n] = saved[d][n]
      BY <1>2, <2>2, <2>3, WrittenType DEF ReceiveBlock
    <2>5. LastsOnTheWay'
      BY <2>1, TakenLasts
    <2>6. TypeOK'
      BY <2>1, <2>2, <2>4 DEF TypeOK, trouble
    <2>7. created'[c] /\ \A d \in Clients : d # c => created'[d] = created[d]
      BY <2>1 DEF TypeOK
    <2>8. ASSUME NEW d \in Clients, NEW n \in Names, Closed(d, n)'
          PROVE  saved'[d][n] = saved[d][n] /\ Closed(d, n)
      BY <2>1, <2>4, <2>7, <2>8 DEF Closed
    <2>9. NoRemnants'
      BY <2>1, <2>8 DEF NoRemnants, trouble
    <2> QED BY <2>5, <2>6, <2>9
  <1>3. CASE ReceiveLast(c)
    <2>1. Take(c, {"F"}) /\ Return(c) /\ UNCHANGED trouble
      BY <1>3 DEF ReceiveLast
    <2> DEFINE b == Head(pdus[c]).block
    <2>2. /\ remote[c] \in Names
          /\ Head(pdus[c]) \in PDU /\ Head(pdus[c]) = pdus[c][1] /\ pdus[c][1].type = "F"
          /\ 1 \in 1..Len(pdus[c])
      BY <2>1, Taken
    <2>3. b \in Block /\ IsLast(b)
      BY <2>2 DEF PDU, Error, LastsOnTheWay
    <2> HIDE DEF b
    <2>4. Written(c, b)
      BY <1>3 DEF ReceiveLast, b
    <2>5. /\ saved' \in [Clients -> [Names -> Seq(Block)]]
          /\ \A d \in Clients : \A n \in Names :
               d # c \/ n # remote[c] => saved'[d][n] = saved[d][n]
          /\ saved'[c][remote[c]][Len(saved'[c][remote[c]])] = b
      BY <2>2, <2>3, <2>4, WrittenType
    <2>6. \A d \in Clients : d # c =>
            remote'[d] = remote[d] /\ created'[d] = created[d]
      BY <2>1, Returned
    <2>7. ASSUME NEW d \in Clients, NEW n \in Names, Closed(d, n)', saved'[d][n] # <<>>,
                 "close" \notin happened'
          PROVE  IsLast(saved'[d][n][Len(saved'[d][n])])
      <3>1. CASE d = c /\ n = remote[c]
        BY <2>3, <2>5, <3>1
      <3>2. CASE ~(d = c /\ n = remote[c])
        <4>1. saved'[d][n] = saved[d][n] /\ Closed(d, n)
          BY <2>5, <2>6, <2>7, <3>2 DEF Closed
        <4> QED BY <2>1, <2>7, <4>1 DEF NoRemnants, IsLast, trouble
      <3> QED BY <3>1, <3>2
    <2>8. NoRemnants'
      BY <2>7 DEF NoRemnants, IsLast
    <2>9. faults' \in 0..MaxFaults /\ happened' \subseteq FaultKinds
      BY <2>1 DEF TypeOK, trouble
    <2> QED BY <1>1, <2>1, <2>5, <2>8, <2>9
  <1>4. ASSUME Fail(c)
        PROVE  /\ Return(c)
               /\ \/ ~created[c] /\ UNCHANGED saved
                  \/ saved' = [saved EXCEPT ![c][remote[c]] = <<>>]
    BY <1>4 DEF Fail
  <1>5. CASE ReceiveError(c)
    <2>1. Take(c, {"E"}) /\ Fail(c) /\ UNCHANGED trouble
      BY <1>5 DEF ReceiveError
    <2>2. pc[c] = "waiting"
      BY <2>1 DEF Take
    <2>3. NoRemnants' /\ saved' \in [Clients -> [Names -> Seq(Block)]]
      BY <1>4, <2>1, <2>2, Failed DEF trouble
    <2>4. faults' \in 0..MaxFaults /\ happened' \subseteq FaultKinds
      BY <2>1 DEF TypeOK, trouble
    <2> QED BY <1>1, <1>4, <2>1, <2>3, <2>4
  <1>6. CASE WriteFails(c)
    <2>1. Take(c, {"D", "F"}) /\ Return(c)
          /\ \/ ~created[c] /\ UNCHANGED saved
             \/ saved' = [saved EXCEPT ![c][remote[c]] = <<>>]
      BY <1>6 DEF WriteFails
    <2>2. pc[c] = "waiting"
      BY <2>1 DEF Take
    <2>3. happened \subseteq happened'
      BY <1>6 DEF WriteFails, Fault
    <2>4. NoRemnants' /\ saved' \in [Clients -> [Names -> Seq(Block)]]
      BY <2>1, <2>2, <2>3, Failed
    <2>5. faults' \in 0..MaxFaults /\ happened' \subseteq FaultKinds
      BY <1>6, TransferAssumption DEF WriteFails, Fault, TypeOK, FaultKinds
    <2> QED BY <1>1, <2>1, <2>4, <2>5
  <1>7. CASE ReceiveRefused(c)
    <2>1. /\ pc[c] = "waiting" /\ Fail(c) /\ refused' = refused \ {c}
          /\ UNCHANGED <<up, job, requests, pdus, trouble>>
      BY <1>7 DEF ReceiveRefused
    <2>2. NoRemnants' /\ saved' \in [Clients -> [Names -> Seq(Block)]]
      BY <1>4, <2>1, Failed DEF trouble
    <2>3. LastsOnTheWay'
      BY <2>1 DEF LastsOnTheWay
    <2>4. TypeOK'
      BY <1>4, <2>1, <2>2, Returned DEF TypeOK, trouble
    <2> QED BY <2>2, <2>3, <2>4
  <1>8. CASE CloseFails(c)
    <2> DEFINE b == Head(pdus[c]).block
               whole == Output(c, b)
    <2>1. Take(c, {"F"}) /\ Return(c) /\ Fault("close")
      BY <1>8 DEF CloseFails
    <2>2. remote[c] \in Names /\ b \in Block
      BY <2>1, Taken DEF PDU, Error
    <2>3. whole \in Seq(Block)
      BY <2>2 DEF TypeOK, Output
    <2>4. PICK k \in 0..(Len(whole) - 1) :
            saved' = [saved EXCEPT ![c][remote[c]] = SubSeq(whole, 1, k)]
      BY <1>8 DEF CloseFails
    <2> HIDE DEF whole
    <2>5. SubSeq(whole, 1, k) \in Seq(Block)
      <3>1. k \in Int /\ \A i \in 1..k : whole[i] \in Block
        BY <2>3, <2>4
      <3> QED BY <3>1, SubSeqProperties
    <2>6. saved' \in [Clients -> [Names -> Seq(Block)]]
      BY <2>2, <2>4, <2>5 DEF TypeOK
    <2>7. NoRemnants'
      BY <2>1 DEF NoRemnants, Fault
    <2>8. faults' \in 0..MaxFaults /\ happened' \subseteq FaultKinds
      BY <2>1, TransferAssumption DEF Fault, TypeOK, FaultKinds
    <2> QED BY <1>1, <2>1, <2>6, <2>7, <2>8
  <1> QED BY <1>2, <1>3, <1>5, <1>6, <1>7, <1>8 DEF Receive

LEMMA MenuKeeps ==
    ASSUME RemnantInv, NEW c \in Clients, Quit(c) \/ \E n \in Names : Ask(c, n)
    PROVE  RemnantInv'
  <1> USE DEF RemnantInv
  <1>1. pc[c] = "menu" /\ ~created[c] /\ UNCHANGED <<up, job, created, saved, trouble>>
    BY DEF Quit, Ask, TypeOK
  <1>2. CASE Quit(c)
    <2>1. pdus' = [pdus EXCEPT ![c] = <<>>] /\ pdus' \in [Clients -> Seq(PDU)]
      BY <1>2 DEF Quit, TypeOK
    <2>2. pdus'[c] = <<>> /\ \A d \in Clients : d # c => pdus'[d] = pdus[d]
      BY <2>1 DEF TypeOK
    <2>3. LastsOnTheWay'
      BY <2>2 DEF LastsOnTheWay
    <2>4. TypeOK'
      BY <1>1, <1>2, <2>1 DEF Quit, TypeOK, trouble
    <2>5. NoRemnants'
      BY <1>1, <1>2 DEF Quit, NoRemnants, Closed, trouble
    <2> QED BY <2>3, <2>4, <2>5
  <1>3. CASE \E n \in Names : Ask(c, n)
    <2>1. PICK n \in Names : Ask(c, n)
      BY <1>3
    <2>2. CASE c \in refused
      <3>1. /\ UNCHANGED <<requests, pc, remote, pdus>> /\ refused' \subseteq Clients
            /\ given' \in 0..MaxCommands
        BY <2>1, <2>2, TransferAssumption DEF Ask, TypeOK
      <3>2. TypeOK'
        BY <1>1, <3>1 DEF TypeOK, trouble
      <3>3. LastsOnTheWay' /\ NoRemnants'
        BY <1>1, <3>1 DEF LastsOnTheWay, NoRemnants, Closed, trouble
      <3> QED BY <3>2, <3>3
    <2>3. CASE c \notin refused
      <3>1. /\ requests' = [requests EXCEPT ![c] = Append(@, n)]
            /\ pc' = [pc EXCEPT ![c] = "waiting"] /\ remote' = [remote EXCEPT ![c] = n]
            /\ UNCHANGED <<pdus, refused>>
        BY <2>1, <2>3 DEF Ask
      <3>2. requests' \in [Clients -> Seq(Names)]
        BY <3>1 DEF TypeOK
      <3>3. given' \in 0..MaxCommands
        BY <2>1, TransferAssumption DEF Ask, TypeOK
      <3>4. /\ pc' \in [Clients -> {"menu", "waiting", "ended"}]
            /\ remote' \in [Clients -> Names \cup {"none"}]
            /\ pc'[c] = "waiting" /\ remote'[c] = n
            /\ \A d \in Clients : d # c => pc'[d] = pc[d] /\ remote'[d] = remote[d]
        BY <3>1 DEF TypeOK
      <3>5. /\ \A d \in Clients : pc'[d] = "waiting" <=> remote'[d] \in Names
            /\ \A d \in Clients : created'[d] => pc'[d] = "waiting"
        BY <1>1, <3>4 DEF TypeOK
      <3>6. TypeOK'
        BY <1>1, <3>1, <3>2, <3>3, <3>4, <3>5 DEF TypeOK, trouble
      <3>7. LastsOnTheWay'
        BY <3>1 DEF LastsOnTheWay
      <3>8. NoRemnants'
        BY <1>1, <3>4 DEF NoRemnants, Closed, trouble
      <3> QED BY <3>6, <3>7, <3>8
    <2> QED BY <2>2, <2>3
  <1> QED BY <1>2, <1>3

LEMMA NetworkKeeps ==
    ASSUME RemnantInv, NEW c \in Clients, Lose(c) \/ Duplicate(c) \/ Reorder(c)
    PROVE  RemnantInv'
  <1> USE DEF RemnantInv
  <1>1. UNCHANGED <<up, job, refused, client>>
    BY DEF Lose, Duplicate, Reorder
  <1>2. faults' \in 0..MaxFaults /\ happened' \subseteq FaultKinds
    <2>1. Fault("lose") \/ Fault("duplicate") \/ Fault("reorder")
      BY DEF Lose, Duplicate, Reorder
    <2> QED BY <2>1, TransferAssumption DEF Fault, TypeOK, FaultKinds
  <1>3. /\ pdus' \in [Clients -> Seq(PDU)] /\ requests' \in [Clients -> Seq(Names)]
        /\ \A d \in Clients : \A i \in 1..Len(pdus'[d]) :
             \E j \in 1..Len(pdus[d]) : pdus'[d][i] = pdus[d][j]
    BY Disturbed
  <1>4. TypeOK'
    BY <1>1, <1>2, <1>3 DEF TypeOK, client
  <1>5. LastsOnTheWay'
    <2>1. ASSUME NEW d \in Clients, NEW i \in 1..Len(pdus'[d]), pdus'[d][i].type = "F"
          PROVE  IsLast(pdus'[d][i].block)
      <3>1. PICK j \in 1..Len(pdus[d]) : pdus'[d][i] = pdus[d][j]
        BY <1>3
      <3> QED BY <2>1, <3>1 DEF LastsOnTheWay
    <2> QED BY <2>1 DEF LastsOnTheWay, IsLast
  <1>6. NoRemnants'
    <2>1. happened \subseteq happened'
      BY DEF Lose, Duplicate, Reorder, Fault
    <2> QED BY <1>1, <2>1 DEF NoRemnants, Closed, client
  <1> QED BY <1>4, <1>5, <1>6

LEMMA NextRemnant == RemnantInv /\ [Next]_vars => RemnantInv'
  <1> SUFFICES ASSUME RemnantInv, [Next]_vars PROVE RemnantInv'
    OBVIOUS
  <1>1. CASE StartServer \/ Serve \/ KillServer
    BY <1>1, ServerKeeps DEF Serve
  <1>2. ASSUME NEW c \in Clients, Receive(c) \/ WriteFails(c) \/ CloseFails(c)
        PROVE  RemnantInv'
    BY <1>2, ReceiveKeeps
  <1>3. ASSUME NEW c \in Clients, Quit(c) \/ \E n \in Names : Ask(c, n) PROVE RemnantInv'
    BY <1>3, MenuKeeps
  <1>4. ASSUME NEW c \in Clients, Lose(c) \/ Duplicate(c) \/ Reorder(c) PROVE RemnantInv'
    BY <1>4, NetworkKeeps
  <1>5. CASE UNCHANGED vars
    BY <1>5 DEF vars, channel, client, trouble, RemnantInv, TypeOK, LastsOnTheWay,
                NoRemnants, Closed
  <1> QED BY <1>1, <1>2, <1>3, <1>4, <1>5 DEF Next

\* Every variable has its type; the server sends nothing past the end of a
\* file, and a client's output file is open only while it waits.
THEOREM TypeCorrect == Spec => []TypeOK
  <1>1. RemnantInv => TypeOK
    BY DEF RemnantInv
  <1> QED BY InitRemnant, NextRemnant, <1>1, PTL DEF Spec

\* Whatever the network and the operators do, and whichever fopen or fwrite
\* fails, no client keeps a file that lacks the last block: what download_one
\* leaves behind, in all its ways out, was ended by an F.  The one exception,
\* an fclose that fails, is in the property.
THEOREM NoRemnantsEver == Spec => []NoRemnants
  <1>1. RemnantInv => NoRemnants
    BY DEF RemnantInv
  <1> QED BY InitRemnant, NextRemnant, <1>1, PTL DEF Spec

-----------------------------------------------------------------------------
(* As long as the network, if anything, loses: who waits for what.          *)

\* A client has one thing to wait for at most: its request, the rest of the
\* file that is being sent, the PDU that ends an answer, or the error of the
\* closed port; one that waits for nothing has nothing left on its way.
OneAnswer(c) ==
    /\ Len(requests[c]) <= 1
    /\ requests[c] # <<>> => pc[c] = "waiting" /\ pdus[c] = <<>> /\ job.to # c /\ c \notin refused
    /\ job.to = c => /\ pc[c] = "waiting" /\ c \notin refused
                     /\ \A i \in 1..Len(pdus[c]) : pdus[c][i].type = "D"
    /\ c \in refused => pc[c] = "waiting" /\ pdus[c] = <<>>
    /\ pdus[c] # <<>> => pc[c] = "waiting"
    /\ \A i \in 1..Len(pdus[c]) : i < Len(pdus[c]) => pdus[c][i].type = "D"

\* How much of its file a client that waits has.
Had(c) == IF created[c] THEN Len(saved[c][remote[c]]) ELSE 0

\* What it has, what is on its way and what the server has yet to send are the
\* file that it asked for.
Follows(c) ==
    /\ created[c] => \A k \in 1..Had(c) : saved[c][remote[c]][k] = <<remote[c], k>>
    /\ requests[c] # <<>> => ~created[c] /\ requests[c][1] = remote[c]
    /\ job.to = c => job.name = remote[c] /\ job.next = Had(c) + Len(pdus[c]) + 1
    /\ \A i \in 1..Len(pdus[c]) : pdus[c][i].type # "E" =>
          /\ remote[c] \in DOMAIN Size
          /\ pdus[c][i].block = <<remote[c], Had(c) + i>>
          /\ pdus[c][i].type = "F" => Had(c) + i = Size[remote[c]] + 1

\* A closed file is whole or not there.
Whole(c, n) ==
    Closed(c, n) => saved[c][n] = <<>> \/ (n \in DOMAIN Size /\ saved[c][n] = Content(n))

AnswerInv ==
    /\ happened \subseteq {"lose", "kill"} => \A c \in Clients : OneAnswer(c)
    /\ happened \subseteq {"kill"} =>
          \A c \in Clients : Follows(c) /\ \A n \in Names : Whole(c, n)

\* What a step leaves alone of a client.
Untouched(d) ==
    /\ pdus'[d] = pdus[d] /\ requests'[d] = requests[d] /\ (d \in refused' <=> d \in refused)
    /\ pc'[d] = pc[d] /\ remote'[d] = remote[d]
    /\ created'[d] = created[d] /\ saved'[d] = saved[d]
    /\ (job'.to = d <=> job.to = d) /\ (job.to = d => job' = job)

Right(c) == Follows(c) /\ \A n \in Names : Whole(c, n)

LEMMA UntouchedKeeps ==
    ASSUME NEW d \in Clients, Untouched(d)
    PROVE  (OneAnswer(d) => OneAnswer(d)') /\ (Right(d) => Right(d)')
  <1> USE DEF Untouched
  <1>1. OneAnswer(d) => OneAnswer(d)'
    BY DEF OneAnswer
  <1>2. (Had(d) = Had(d)')
    BY DEF Had
  <1>3. Follows(d) => Follows(d)'
    BY <1>2 DEF Follows
  <1>4. ASSUME NEW n \in Names, Whole(d, n) PROVE Whole(d, n)'
    BY <1>4 DEF Whole, Closed, Content
  <1> QED BY <1>1, <1>3, <1>4 DEF Right

\* The lengths and types that the steps below reckon with.
LEMMA Lengths ==
    ASSUME TypeOK, NEW c \in Clients
    PROVE  /\ requests[c] \in Seq(Names) /\ Len(requests[c]) \in Nat
           /\ pdus[c] \in Seq(PDU) /\ Len(pdus[c]) \in Nat
           /\ pdus[c] = <<>> <=> Len(pdus[c]) = 0
           /\ requests[c] = <<>> <=> Len(requests[c]) = 0
           /\ Had(c) \in Nat
           /\ job.to = c => /\ job # Idle /\ up /\ job.name \in DOMAIN Size
                            /\ Size[job.name] \in Nat /\ job.next \in 1..(Size[job.name] + 1)
  <1>1. requests[c] \in Seq(Names) /\ pdus[c] \in Seq(PDU)
    BY DEF TypeOK
  <1>2. created[c] => saved[c][remote[c]] \in Seq(Block)
    BY DEF TypeOK
  <1>3. Had(c) \in Nat
    BY <1>2 DEF Had
  <1>4. job.to = c => job # Idle
    BY TransferAssumption DEF Idle
  <1> QED BY <1>1, <1>3, <1>4, EmptySeq, TransferAssumption DEF TypeOK

\* A PDU more on its way to the client whose file is sent.
LEMMA SendAnswers ==
    ASSUME RemnantInv, \A c \in Clients : OneAnswer(c), SendBlock \/ SendLast
    PROVE  /\ \A c \in Clients : OneAnswer(c)'
           /\ (\A c \in Clients : Right(c)) => \A c \in Clients : Right(c)'
  <1> DEFINE last == job.next > Size[job.name]
             pdu == IF ~last THEN [type |-> "D", block |-> <<job.name, job.next>>]
                    ELSE IF job.name \in Unreadable THEN Error
                    ELSE [type |-> "F", block |-> <<job.name, job.next>>]
  <1>0. /\ job # Idle /\ job.name \in DOMAIN Size /\ TypeOK /\ job \in Job
        /\ Size[job.name] \in Nat /\ job.next \in 1..(Size[job.name] + 1) /\ job.next \in Nat
    BY TransferAssumption DEF SendBlock, SendLast, RemnantInv, TypeOK
  <1>1. PICK c \in Clients : c = job.to
    BY <1>0 DEF TypeOK
  <1>2. /\ SendTo(c, pdu) /\ UNCHANGED <<requests, refused, pc, remote, created, saved>>
        /\ job' = IF last THEN Idle ELSE [job EXCEPT !.next = @ + 1]
    BY <1>0, <1>1 DEF SendBlock, SendLast, client
  <1>3. PICK p \in PDU : p = pdu
    BY <1>0, Messages
  <1>4. /\ p.type # "D" <=> last
        /\ p.type # "E" => p.block = <<job.name, job.next>>
        /\ p.type = "F" => last
    BY <1>3 DEF Error
  <1>5. /\ OneAnswer(c) /\ pc[c] = "waiting" /\ c \notin refused /\ requests[c] = <<>>
        /\ \A i \in 1..Len(pdus[c]) : pdus[c][i].type = "D"
    BY <1>1 DEF OneAnswer
  <1> HIDE DEF pdu
  <1>6. /\ \A d \in Clients : d # c => pdus'[d] = pdus[d]
        /\ Len(pdus'[c]) = Len(pdus[c]) + 1
        /\ \A i \in 1..Len(pdus[c]) : pdus'[c][i] = pdus[c][i]
        /\ pdus'[c][Len(pdus[c]) + 1] = p
        /\ Len(pdus[c]) \in Nat
    BY <1>0, <1>2, <1>3, <1>5, Sent, Lengths
  <1>7. job'.to = (IF last THEN "none" ELSE c) /\ c # "none"
        /\ (~last => job'.name = job.name /\ job'.next = job.next + 1)
    BY <1>0, <1>1, <1>2, TransferAssumption DEF Idle, Job
  <1>8. \A i \in 1..Len(pdus'[c]) : i \in 1..Len(pdus[c]) \/ i = Len(pdus[c]) + 1
    BY <1>6
  <1> HIDE DEF last
  <1>9. ASSUME NEW d \in Clients, d # c PROVE Untouched(d)
    BY <1>1, <1>2, <1>6, <1>7, <1>9, TransferAssumption DEF Untouched
  <1>10. OneAnswer(c)'
    <2>1. \A i \in 1..Len(pdus'[c]) : i < Len(pdus'[c]) \/ ~last => pdus'[c][i].type = "D"
      BY <1>4, <1>5, <1>6, <1>8
    <2>2. job'.to = c => ~last
      BY <1>7
    <2>3. requests'[c] = <<>> /\ pc'[c] = "waiting" /\ c \notin refused' /\ Len(requests'[c]) = 0
      BY <1>2, <1>5
    <2> QED BY <2>1, <2>2, <2>3 DEF OneAnswer
  <1>11. ASSUME Right(c) PROVE Right(c)'
    <2>1. Had(c)' = Had(c) /\ Had(c) \in Nat
      BY <1>0, <1>2, Lengths DEF Had
    <2>2. job.name = remote[c] /\ job.next = Had(c) + Len(pdus[c]) + 1
      BY <1>1, <1>11 DEF Right, Follows
    <2>3. ASSUME NEW i \in 1..Len(pdus'[c]), pdus'[c][i].type # "E"
          PROVE  /\ remote[c] \in DOMAIN Size
                 /\ pdus'[c][i].block = <<remote[c], Had(c) + i>>
                 /\ pdus'[c][i].type = "F" => Had(c) + i = Size[remote[c]] + 1
      <3>1. CASE i \in 1..Len(pdus[c])
        BY <1>6, <1>11, <2>3, <3>1 DEF Right, Follows
      <3>2. CASE i = Len(pdus[c]) + 1
        <4>1. pdus'[c][i] = p /\ job.next = Had(c) + i
          BY <1>6, <2>1, <2>2, <3>2
        <4>2. p.type = "F" => job.next = Size[job.name] + 1
          BY <1>0, <1>4 DEF last
        <4> QED BY <1>0, <1>4, <2>2, <2>3, <4>1, <4>2
      <3> QED BY <1>8, <3>1, <3>2
    <2>4. job'.to = c => job'.name = remote[c] /\ job'.next = Had(c) + Len(pdus'[c]) + 1
      BY <1>0, <1>6, <1>7, <2>1, <2>2
    <2>5. /\ created[c] => \A k \in 1..Had(c) : saved[c][remote[c]][k] = <<remote[c], k>>
          /\ requests'[c] = <<>>
      BY <1>2, <1>5, <1>11 DEF Right, Follows
    <2>6. Follows(c)'
      BY <1>2, <2>1, <2>3, <2>4, <2>5 DEF Follows
    <2>7. ASSUME NEW n \in Names PROVE Whole(c, n)'
      <3>1. Whole(c, n)
        BY <1>11 DEF Right
      <3> QED BY <1>2, <3>1 DEF Whole, Closed, Content
    <2> QED BY <2>6, <2>7 DEF Right
  <1> QED BY <1>9, <1>10, <1>11, UntouchedKeeps

\* A request is taken from the server's socket.
LEMMA RequestAnswers ==
    ASSUME RemnantInv, \A c \in Clients : OneAnswer(c), NEW c \in Clients,
           RefuseRequest(c) \/ AcceptRequest(c) \/ Bounce(c)
    PROVE  /\ \A d \in Clients : OneAnswer(d)'
           /\ (\A d \in Clients : Right(d)) => \A d \in Clients : Right(d)'
  <1>0. TypeOK /\ requests \in [Clients -> Seq(Names)] /\ c # "none"
    BY TransferAssumption DEF RemnantInv, TypeOK
  <1>1. /\ requests[c] # <<>> /\ requests' = [requests EXCEPT ![c] = Tail(@)]
        /\ UNCHANGED <<pc, remote, created, saved>>
    BY DEF RefuseRequest, AcceptRequest, Bounce, client
  <1>2. /\ requests'[c] = <<>> /\ Len(requests'[c]) = 0 /\ Len(requests[c]) = 1
        /\ Head(requests[c]) = requests[c][1]
        /\ \A d \in Clients : d # c => requests'[d] = requests[d]
    <2>1. requests'[c] = Tail(requests[c]) /\ requests[c] \in Seq(Names)
      BY <1>0, <1>1
    <2>2. PICK k \in Nat : k = Len(requests[c])
      BY <2>1
    <2>3. Len(requests[c]) = 1
      <3>1. k # 0
        BY <1>1, <2>1, <2>2, EmptySeq
      <3>2. k <= 1
        BY <2>2 DEF OneAnswer
      <3>3. k = 1
        BY <3>1, <3>2
      <3> QED BY <2>2, <3>3
    <2>4. Tail(requests[c]) \in Seq(Names) /\ Len(Tail(requests[c])) = 0
      BY <1>1, <2>1, <2>3, HeadTailProperties
    <2> QED BY <1>0, <1>1, <2>1, <2>3, <2>4, EmptySeq
  <1>3. pc[c] = "waiting" /\ pdus[c] = <<>> /\ job.to # c /\ c \notin refused /\ Len(pdus[c]) = 0
    BY <1>1 DEF OneAnswer
  <1>4. Had(c)' = Had(c) /\ Had(c) \in Nat
    BY <1>0, <1>1, Lengths DEF Had
  <1>5. ASSUME Right(c) PROVE ~created[c] /\ requests[c][1] = remote[c] /\ Had(c) = 0
    BY <1>1, <1>5 DEF Right, Follows, Had
  <1>6. ASSUME Right(c), NEW n \in Names PROVE Whole(c, n)'
    <2>1. Whole(c, n)
      BY <1>6 DEF Right
    <2> QED BY <1>1, <2>1 DEF Whole, Closed, Content
  <1>7. CASE RefuseRequest(c)
    <2>1. SendTo(c, Error) /\ Error \in PDU /\ Error.type = "E" /\ UNCHANGED <<job, refused>>
      BY <1>7 DEF RefuseRequest, PDU, Error
    <2>2. PICK p \in PDU : p = Error /\ SendTo(c, p)
      BY <2>1
    <2>3. /\ Len(pdus'[c]) = 1 /\ pdus'[c][1] = p
          /\ \A d \in Clients : d # c => pdus'[d] = pdus[d]
      <3>1. /\ Len(pdus'[c]) = Len(pdus[c]) + 1 /\ pdus'[c][Len(pdus[c]) + 1] = p
            /\ \A d \in Clients : d # c => pdus'[d] = pdus[d]
        BY <1>0, <1>3, <2>2, Sent
      <3> QED BY <1>3, <3>1
    <2>4. \A i \in 1..Len(pdus'[c]) : i = 1 /\ pdus'[c][i].type = "E"
      BY <2>1, <2>2, <2>3
    <2>5. OneAnswer(c)'
      BY <1>1, <1>2, <1>3, <2>1, <2>3, <2>4 DEF OneAnswer
    <2>6. Right(c) => Follows(c)'
      BY <1>1, <1>2, <1>3, <1>5, <2>1, <2>4 DEF Follows
    <2>7. \A d \in Clients : d # c => Untouched(d)
      BY <1>1, <1>2, <2>1, <2>3 DEF Untouched
    <2> QED BY <1>6, <2>5, <2>6, <2>7, UntouchedKeeps DEF Right
  <1>8. CASE AcceptRequest(c)
    <2>1. /\ job = Idle /\ UNCHANGED <<pdus, refused>>
          /\ job' = [to |-> c, name |-> requests[c][1], next |-> 1]
      BY <1>2, <1>8 DEF AcceptRequest
    <2>2. job.to = "none" /\ job'.to = c /\ job'.name = requests[c][1] /\ job'.next = 1
      BY <2>1 DEF Idle
    <2>3. OneAnswer(c)'
      BY <1>1, <1>2, <1>3, <2>1, <2>2 DEF OneAnswer
    <2>4. Right(c) => Follows(c)'
      BY <1>1, <1>2, <1>3, <1>4, <1>5, <2>1, <2>2 DEF Follows
    <2>5. \A d \in Clients : d # c => Untouched(d)
      BY <1>1, <1>2, <2>1, <2>2, TransferAssumption DEF Untouched
    <2> QED BY <1>6, <2>3, <2>4, <2>5, UntouchedKeeps DEF Right
  <1>9. CASE Bounce(c)
    <2>1. UNCHANGED <<job, pdus>> /\ refused' = refused \cup {c}
      BY <1>3, <1>9 DEF Bounce
    <2>2. OneAnswer(c)'
      BY <1>1, <1>2, <1>3, <2>1 DEF OneAnswer
    <2>3. Right(c) => Follows(c)'
      BY <1>1, <1>2, <1>3, <1>4, <1>5, <2>1 DEF Follows
    <2>4. \A d \in Clients : d # c => Untouched(d)
      BY <1>1, <1>2, <2>1 DEF Untouched
    <2> QED BY <1>6, <2>2, <2>3, <2>4, UntouchedKeeps DEF Right
  <1> QED BY <1>7, <1>8, <1>9

\* What the server leaves behind stays on its way; what it had to send is lost.
LEMMA OperatorAnswers ==
    ASSUME RemnantInv, \A c \in Clients : OneAnswer(c), StartServer \/ KillServer
    PROVE  /\ \A c \in Clients : OneAnswer(c)'
           /\ (\A c \in Clients : Right(c)) => \A c \in Clients : Right(c)'
  <1>1. UNCHANGED <<pdus, refused, pc, remote, created, saved>>
    BY DEF StartServer, KillServer, channel, client
  <1>2. CASE StartServer
    BY <1>1, <1>2, UntouchedKeeps DEF StartServer, channel, Untouched
  <1>3. CASE KillServer
    <2>1. /\ job'.to = "none"
          /\ \A d \in Clients : requests'[d] = requests[d] \/ requests'[d] = <<>>
      BY <1>3 DEF KillServer, Idle
    <2>2. ASSUME NEW c \in Clients
          PROVE  job'.to # c /\ (requests'[c] = requests[c] \/ requests'[c] = <<>>)
      BY <2>1, TransferAssumption
    <2>3. ASSUME NEW c \in Clients PROVE OneAnswer(c)'
      BY <1>1, <2>2 DEF OneAnswer
    <2>4. ASSUME NEW c \in Clients, Right(c) PROVE Right(c)'
      <3>1. Had(c)' = Had(c)
        BY <1>1 DEF Had
      <3>2. Follows(c)'
        BY <1>1, <2>2, <2>4, <3>1 DEF Right, Follows
      <3>3. ASSUME NEW n \in Names PROVE Whole(c, n)'
        <4>1. Whole(c, n)
          BY <2>4 DEF Right
        <4> QED BY <1>1, <4>1 DEF Whole, Closed, Content
      <3> QED BY <3>2, <3>3 DEF Right
    <2> QED BY <2>3, <2>4
  <1> QED BY <1>2, <1>3

\* A user starts a download or leaves.
LEMMA MenuAnswers ==
    ASSUME RemnantInv, \A c \in Clients : OneAnswer(c), NEW c \in Clients,
           Quit(c) \/ \E n \in Names : Ask(c, n)
    PROVE  /\ \A d \in Clients : OneAnswer(d)'
           /\ (\A d \in Clients : Right(d)) => \A d \in Clients : Right(d)'
  <1>0. TypeOK /\ pc[c] = "menu" /\ ~created[c] /\ UNCHANGED <<job, created, saved>>
    BY DEF RemnantInv, TypeOK, Quit, Ask
  <1>1. requests[c] = <<>> /\ pdus[c] = <<>> /\ job.to # c /\ c \notin refused /\ Len(pdus[c]) = 0
    BY <1>0 DEF OneAnswer
  <1>2. ASSUME Right(c), NEW n \in Names PROVE Whole(c, n)'
    <2>1. Whole(c, n) /\ Closed(c, n)
      BY <1>0, <1>2 DEF Right, Closed
    <2> QED BY <1>0, <2>1 DEF Whole, Content
  <1>3. CASE Quit(c)
    <2>1. pdus'[c] = <<>> /\ pc'[c] = "ended" /\ UNCHANGED <<requests, remote>>
          /\ refused' = refused \ {c}
          /\ \A d \in Clients : d # c => pdus'[d] = pdus[d] /\ pc'[d] = pc[d]
      BY <1>0, <1>3 DEF Quit, TypeOK
    <2>2. OneAnswer(c)'
      BY <1>0, <1>1, <2>1 DEF OneAnswer
    <2>3. Follows(c)'
      BY <1>0, <1>1, <2>1 DEF Follows
    <2>4. \A d \in Clients : d # c => Untouched(d)
      BY <1>0, <2>1 DEF Untouched
    <2> QED BY <1>2, <2>2, <2>3, <2>4, UntouchedKeeps DEF Right
  <1>4. ASSUME NEW n \in Names, Ask(c, n)
        PROVE  /\ \A d \in Clients : OneAnswer(d)'
               /\ (\A d \in Clients : Right(d)) => \A d \in Clients : Right(d)'
    <2>1. /\ requests' = [requests EXCEPT ![c] = Append(@, n)] /\ UNCHANGED <<pdus, refused>>
          /\ pc' = [pc EXCEPT ![c] = "waiting"] /\ remote' = [remote EXCEPT ![c] = n]
      BY <1>1, <1>4 DEF Ask
    <2>2. /\ requests'[c] = <<n>> /\ Len(requests'[c]) = 1 /\ requests'[c][1] = n
          /\ pc'[c] = "waiting" /\ remote'[c] = n
          /\ \A d \in Clients : d # c => /\ requests'[d] = requests[d]
                                         /\ pc'[d] = pc[d] /\ remote'[d] = remote[d]
      BY <1>0, <1>1, <2>1 DEF TypeOK
    <2>3. OneAnswer(c)'
      BY <1>0, <1>1, <2>1, <2>2 DEF OneAnswer
    <2>4. Follows(c)'
      BY <1>0, <1>1, <2>1, <2>2 DEF Follows
    <2>5. \A d \in Clients : d # c => Untouched(d)
      BY <1>0, <2>1, <2>2 DEF Untouched
    <2> QED BY <1>2, <2>3, <2>4, <2>5, UntouchedKeeps DEF Right
  <1> QED BY <1>3, <1>4

\* A lost PDU or request leaves no more to wait for than there was.
LEMMA LossAnswers ==
    ASSUME RemnantInv, \A c \in Clients : OneAnswer(c), NEW c \in Clients, Lose(c)
    PROVE  \A d \in Clients : OneAnswer(d)'
  <1>0. /\ TypeOK /\ UNCHANGED <<job, refused, pc, remote, created, saved>>
        /\ pdus \in [Clients -> Seq(PDU)] /\ requests \in [Clients -> Seq(Names)]
        /\ pdus[c] \in Seq(PDU) /\ DOMAIN pdus[c] = 1..Len(pdus[c])
        /\ requests[c] \in Seq(Names) /\ DOMAIN requests[c] = 1..Len(requests[c])
        /\ Len(pdus[c]) \in Nat /\ Len(requests[c]) \in Nat
    BY DEF RemnantInv, TypeOK, Lose, client
  <1>1. CASE \E k \in DOMAIN pdus[c] :
               pdus' = [pdus EXCEPT ![c] = RemoveAt(@, k)] /\ UNCHANGED requests
    <2>1. PICK k \in 1..Len(pdus[c]) :
            pdus' = [pdus EXCEPT ![c] = RemoveAt(@, k)] /\ UNCHANGED requests
      BY <1>0, <1>1
    <2>2. /\ pdus'[c] = RemoveAt(pdus[c], k)
          /\ \A d \in Clients : d # c => pdus'[d] = pdus[d]
      BY <1>0, <2>1
    <2>3. /\ Len(pdus'[c]) = Len(pdus[c]) - 1 /\ Len(pdus[c]) \in Nat
          /\ \A i \in 1..Len(pdus'[c]) :
               pdus'[c][i] = IF i < k THEN pdus[c][i] ELSE pdus[c][i + 1]
      <3>1. /\ Len(RemoveAt(pdus[c], k)) = Len(pdus[c]) - 1
            /\ \A i \in 1..(Len(pdus[c]) - 1) :
                 RemoveAt(pdus[c], k)[i] = IF i < k THEN pdus[c][i] ELSE pdus[c][i + 1]
        BY <1>0, RemoveAtElements
      <3> QED BY <1>0, <2>2, <3>1
    <2>4. /\ pdus[c] # <<>>
          /\ \A i \in 1..Len(pdus'[c]) :
               i \in 1..Len(pdus[c]) /\ i + 1 \in 1..Len(pdus[c]) /\ i < Len(pdus[c])
      <3>1. PICK j \in Nat : j = Len(pdus[c])
        BY <1>0
      <3>2. Len(pdus'[c]) = j - 1 /\ j >= 1
        BY <2>3, <3>1
      <3>3. pdus[c] # <<>>
        <4>1. j # 0
          BY <3>2
        <4> QED BY <1>0, <3>1, <4>1, EmptySeq
      <3> QED BY <3>1, <3>2, <3>3
    <2>5. ASSUME NEW i \in 1..Len(pdus'[c]),
                 i < Len(pdus'[c]) \/ \A j \in 1..Len(pdus[c]) : pdus[c][j].type = "D"
          PROVE  pdus'[c][i].type = "D"
      <3>1. PICK j \in 1..Len(pdus[c]) :
              pdus'[c][i] = pdus[c][j] /\ (i < Len(pdus'[c]) => j < Len(pdus[c]))
        BY <2>3, <2>4
      <3> QED BY <2>5, <3>1 DEF OneAnswer
    <2>6. OneAnswer(c)'
      BY <1>0, <2>1, <2>4, <2>5 DEF OneAnswer
    <2> QED BY <1>0, <2>1, <2>2, <2>6, UntouchedKeeps DEF Untouched
  <1>2. CASE \E k \in DOMAIN requests[c] :
               requests' = [requests EXCEPT ![c] = RemoveAt(@, k)] /\ UNCHANGED pdus
    <2>1. PICK k \in 1..Len(requests[c]) :
            requests' = [requests EXCEPT ![c] = RemoveAt(@, k)] /\ UNCHANGED pdus
      BY <1>0, <1>2
    <2>2. /\ requests'[c] = RemoveAt(requests[c], k)
          /\ \A d \in Clients : d # c => requests'[d] = requests[d]
      BY <1>0, <2>1
    <2>3. Len(requests'[c]) = Len(requests[c]) - 1 /\ Len(requests[c]) \in Nat
      <3>1. Len(RemoveAt(requests[c], k)) = Len(requests[c]) - 1
        BY <1>0, RemoveAtElements
      <3> QED BY <1>0, <2>2, <3>1
    <2>4. requests[c] # <<>> /\ Len(requests[c]) <= 1
      BY <1>0, <2>1 DEF OneAnswer
    <2>5. OneAnswer(c)'
      BY <1>0, <2>1, <2>3, <2>4 DEF OneAnswer
    <2> QED BY <1>0, <2>1, <2>2, <2>5, UntouchedKeeps DEF Untouched
  <1> QED BY <1>1, <1>2 DEF Lose

\* The next block is written behind the ones before it.
LEMMA BlockAnswers ==
    ASSUME RemnantInv, \A c \in Clients : OneAnswer(c), NEW c \in Clients, ReceiveBlock(c)
    PROVE  /\ \A d \in Clients : OneAnswer(d)'
           /\ (\A d \in Clients : Right(d)) => \A d \in Clients : Right(d)'
  <1>0. TypeOK /\ Take(c, {"D"}) /\ UNCHANGED <<pc, remote>>
    BY DEF RemnantInv, ReceiveBlock
  <1>1. /\ pc[c] = "waiting" /\ remote[c] \in Names
        /\ \A d \in Clients : d # c => pdus'[d] = pdus[d]
        /\ Len(pdus[c]) \in Nat /\ Len(pdus[c]) >= 1
        /\ Head(pdus[c]) = pdus[c][1] /\ pdus[c][1] \in PDU /\ pdus[c][1].type = "D"
        /\ Len(pdus'[c]) = Len(pdus[c]) - 1
        /\ \A i \in 1..Len(pdus'[c]) : pdus'[c][i] = pdus[c][i + 1]
        /\ UNCHANGED <<up, job, requests, refused>>
    BY <1>0, Taken
  <1>2. /\ OneAnswer(c) /\ pdus[c] # <<>> /\ requests[c] = <<>> /\ c \notin refused
    BY <1>0 DEF OneAnswer, Take
  <1>3. Len(requests'[c]) <= 1 /\ requests'[c] = <<>>
    BY <1>1, <1>2 DEF OneAnswer
  <1>4. ASSUME NEW i \in 1..Len(pdus'[c])
        PROVE  /\ i + 1 \in 1..Len(pdus[c]) /\ pdus'[c][i] = pdus[c][i + 1]
               /\ i < Len(pdus'[c]) => i + 1 < Len(pdus[c])
    BY <1>1
  <1>5. OneAnswer(c)'
    <2>1. ASSUME NEW i \in 1..Len(pdus'[c]), i < Len(pdus'[c]) \/ job.to = c
          PROVE  pdus'[c][i].type = "D"
      BY <1>2, <1>4, <2>1 DEF OneAnswer
    <2> QED BY <1>0, <1>1, <1>2, <1>3, <2>1 DEF OneAnswer
  <1>6. PICK b \in Block : b = pdus[c][1].block
    BY <1>1 DEF PDU, Error
  <1>7. /\ Written(c, b) /\ created' = [created EXCEPT ![c] = TRUE]
        /\ created'[c] /\ \A d \in Clients : d # c => created'[d] = created[d]
    BY <1>0, <1>1, <1>6 DEF ReceiveBlock, TypeOK
  <1>8. /\ saved' \in [Clients -> [Names -> Seq(Block)]]
        /\ \A d \in Clients : \A n \in Names :
             d # c \/ n # remote[c] => saved'[d][n] = saved[d][n]
        /\ ~created[c] => saved'[c][remote[c]] = <<b>>
        /\ created[c] => saved'[c][remote[c]] = Append(saved[c][remote[c]], b)
    BY <1>0, <1>1, <1>7, WrittenType
  <1>9. ASSUME NEW d \in Clients, d # c PROVE Untouched(d)
    <2>1. saved'[d] = saved[d]
      BY <1>0, <1>1, <1>8, <1>9 DEF TypeOK
    <2> QED BY <1>0, <1>1, <1>7, <1>9, <2>1 DEF Untouched
  <1>10. ASSUME Right(c) PROVE Right(c)'
    <2>1. PICK h \in Nat : h = Had(c)
      BY <1>0, Lengths
    <2>2. /\ remote[c] \in DOMAIN Size /\ b = <<remote[c], h + 1>>
      <3>1. 1 \in 1..Len(pdus[c]) /\ pdus[c][1].type # "E"
        BY <1>1
      <3> QED BY <1>6, <1>10, <2>1, <3>1 DEF Right, Follows
    <2>3. /\ Len(saved'[c][remote[c]]) = h + 1
          /\ \A k \in 1..(h + 1) : saved'[c][remote[c]][k] = <<remote[c], k>>
      <3>1. CASE created[c]
        <4>1. /\ saved[c][remote[c]] \in Seq(Block) /\ Len(saved[c][remote[c]]) = h
              /\ saved'[c][remote[c]] = Append(saved[c][remote[c]], b)
          BY <1>0, <1>1, <1>8, <2>1, <3>1 DEF Had, TypeOK
        <4>2. \A k \in 1..h : saved[c][remote[c]][k] = <<remote[c], k>>
          BY <1>10, <2>1, <3>1 DEF Right, Follows
        <4>3. \A k \in 1..(h + 1) : k \in 1..h \/ k = h + 1
          BY <2>1
        <4>4. PICK old \in Seq(Block), new \in Seq(Block) :
                /\ old = saved[c][remote[c]] /\ new = saved'[c][remote[c]]
                /\ Len(old) = h /\ new = Append(old, b)
          <5>1. saved[c][remote[c]] \in Seq(Block)
            BY <4>1
          <5>2. Append(saved[c][remote[c]], b) \in Seq(Block)
            BY <5>1
          <5> QED BY <4>1, <5>1, <5>2, Zenon
        <4>5. Len(new) = h + 1 /\ new[h + 1] = b /\ \A k \in 1..h : new[k] = old[k]
          BY <4>4
        <4>6. \A k \in 1..(h + 1) : new[k] = <<remote[c], k>>
          BY <2>2, <4>2, <4>3, <4>4, <4>5
        <4> QED BY <4>4, <4>5, <4>6
      <3>2. CASE ~created[c]
        <4>1. h = 0 /\ saved'[c][remote[c]] = <<b>>
          BY <1>8, <2>1, <3>2 DEF Had
        <4> QED BY <2>2, <4>1
      <3> QED BY <3>1, <3>2
    <2>4. Had(c)' = h + 1
      BY <1>0, <1>7, <2>3 DEF Had
    <2>5. ASSUME NEW i \in 1..Len(pdus'[c]), pdus'[c][i].type # "E"
          PROVE  /\ pdus'[c][i].block = <<remote[c], (h + 1) + i>>
                 /\ pdus'[c][i].type = "F" => (h + 1) + i = Size[remote[c]] + 1
      <3>1. h + (i + 1) = (h + 1) + i
        BY <2>1
      <3> QED BY <1>4, <1>10, <2>1, <2>5, <3>1 DEF Right, Follows
    <2>6. job.to = c => /\ job.name = remote[c]
                        /\ job.next = (h + 1) + Len(pdus'[c]) + 1
      <3>1. h + Len(pdus[c]) + 1 = (h + 1) + Len(pdus'[c]) + 1
        BY <1>1, <2>1
      <3> QED BY <1>10, <2>1, <3>1 DEF Right, Follows
    <2>7. Follows(c)'
      BY <1>0, <1>1, <1>3, <2>2, <2>3, <2>4, <2>5, <2>6 DEF Follows
    <2>8. ASSUME NEW n \in Names PROVE Whole(c, n)'
      <3>1. Whole(c, n)
        BY <1>10 DEF Right
      <3>2. n # remote[c] => saved'[c][n] = saved[c][n]
        BY <1>8
      <3> QED BY <1>0, <1>7, <3>1, <3>2 DEF Whole, Closed, Content
    <2> QED BY <2>7, <2>8 DEF Right
  <1> QED BY <1>5, <1>9, <1>10, UntouchedKeeps

\* The end of a download: nothing else is on its way.
LEMMA EndAnswers ==
    ASSUME RemnantInv, \A c \in Clients : OneAnswer(c), NEW c \in Clients,
           ReceiveLast(c) \/ ReceiveError(c) \/ ReceiveRefused(c)
    PROVE  /\ \A d \in Clients : OneAnswer(d)'
           /\ (\A d \in Clients : Right(d)) => \A d \in Clients : Right(d)'
  <1>0. TypeOK /\ pc[c] = "waiting" /\ remote[c] \in Names /\ Return(c) /\ UNCHANGED job
    BY DEF RemnantInv, TypeOK, ReceiveLast, ReceiveError, ReceiveRefused, Take, Fail
  <1>1. /\ pc'[c] = "menu" /\ ~created'[c]
        /\ \A d \in Clients : d # c =>
             pc'[d] = pc[d] /\ remote'[d] = remote[d] /\ created'[d] = created[d]
    BY <1>0, Returned
  <1>2. /\ requests'[c] = <<>> /\ pdus'[c] = <<>> /\ job'.to # c /\ c \notin refused'
        /\ \A d \in Clients : d # c =>
             requests'[d] = requests[d] /\ pdus'[d] = pdus[d] /\ (d \in refused' <=> d \in refused)
    <2>1. ASSUME NEW types, Take(c, types), "D" \notin types
          PROVE  /\ requests'[c] = <<>> /\ pdus'[c] = <<>> /\ job'.to # c /\ c \notin refused'
                 /\ \A d \in Clients : d # c =>
                      /\ requests'[d] = requests[d] /\ pdus'[d] = pdus[d]
                      /\ d \in refused' <=> d \in refused
      <3>1. /\ \A d \in Clients : d # c => pdus'[d] = pdus[d]
            /\ pdus' \in [Clients -> Seq(PDU)]
            /\ Len(pdus[c]) \in Nat /\ Len(pdus[c]) >= 1
            /\ pdus[c][1].type \in types
            /\ Len(pdus'[c]) = Len(pdus[c]) - 1
            /\ UNCHANGED <<requests, refused>>
        BY <1>0, <2>1, Taken
      <3>2. 1 \in 1..Len(pdus[c]) /\ pdus[c][1].type # "D" /\ pdus[c] # <<>>
        BY <2>1, <3>1 DEF Take
      <3>3. requests[c] = <<>> /\ job.to # c /\ c \notin refused /\ ~(1 < Len(pdus[c]))
        BY <3>2 DEF OneAnswer
      <3>4. Len(pdus'[c]) = 0
        <4>1. PICK k \in Nat : k = Len(pdus[c])
          BY <3>1
        <4>2. k >= 1 /\ ~(1 < k)
          BY <3>1, <3>3, <4>1
        <4>3. k = 1
          BY <4>2
        <4> QED BY <3>1, <4>1, <4>3
      <3>5. pdus'[c] = <<>>
        BY <3>1, <3>4, EmptySeq
      <3> QED BY <1>0, <3>1, <3>3, <3>5
    <2>2. CASE ReceiveLast(c)
      BY <2>1, <2>2 DEF ReceiveLast
    <2>3. CASE ReceiveError(c)
      BY <2>1, <2>3 DEF ReceiveError
    <2>4. CASE ReceiveRefused(c)
      BY <1>0, <2>4 DEF ReceiveRefused, OneAnswer
    <2> QED BY <2>2, <2>3, <2>4
  <1>3. OneAnswer(c)' /\ Follows(c)'
    <2>1. Len(requests'[c]) = 0 /\ Len(pdus'[c]) = 0
      BY <1>2, EmptySeq
    <2> QED BY <1>1, <1>2, <2>1 DEF OneAnswer, Follows
  <1>4. /\ \A d \in Clients : d # c => saved'[d] = saved[d]
        /\ \A n \in Names : n # remote[c] => saved'[c][n] = saved[c][n]
        /\ Right(c) => \/ saved'[c][remote[c]] = <<>>
                       \/ ~created[c] /\ saved'[c][remote[c]] = saved[c][remote[c]]
                       \/ /\ remote[c] \in DOMAIN Size
                          /\ saved'[c][remote[c]] = Content(remote[c])
    <2>1. CASE Fail(c)
      <3>1. CASE created[c]
        <4>1. saved' = [saved EXCEPT ![c][remote[c]] = <<>>]
          BY <2>1, <3>1 DEF Fail
        <4> QED BY <1>0, <4>1 DEF TypeOK
      <3>2. CASE ~created[c]
        BY <2>1, <3>2 DEF Fail
      <3> QED BY <3>1, <3>2
    <2>2. CASE ReceiveLast(c)
      <3>0. Take(c, {"F"})
        BY <2>2 DEF ReceiveLast
      <3>1. /\ Head(pdus[c]) = pdus[c][1] /\ pdus[c][1] \in PDU /\ pdus[c][1].type = "F"
            /\ 1 \in 1..Len(pdus[c])
        BY <1>0, <3>0, Taken
      <3>2. PICK b \in Block : b = pdus[c][1].block
        BY <3>1 DEF PDU, Error
      <3>3. Written(c, b)
        BY <2>2, <3>1, <3>2 DEF ReceiveLast
      <3>4. /\ saved' \in [Clients -> [Names -> Seq(Block)]]
            /\ \A d \in Clients : \A n \in Names :
                 d # c \/ n # remote[c] => saved'[d][n] = saved[d][n]
            /\ ~created[c] => saved'[c][remote[c]] = <<b>>
            /\ created[c] => saved'[c][remote[c]] = Append(saved[c][remote[c]], b)
        BY <1>0, <3>3, WrittenType
      <3>5. \A d \in Clients : d # c => saved'[d] = saved[d]
        BY <1>0, <3>4 DEF TypeOK
      <3>6. ASSUME Right(c)
            PROVE  remote[c] \in DOMAIN Size /\ saved'[c][remote[c]] = Content(remote[c])
        <4>1. PICK h \in Nat : h = Had(c)
          BY <1>0, Lengths
        <4>2. /\ remote[c] \in DOMAIN Size /\ b = <<remote[c], h + 1>>
              /\ h + 1 = Size[remote[c]] + 1
          BY <3>1, <3>2, <3>6, <4>1 DEF Right, Follows
        <4> DEFINE s == saved'[c][remote[c]]
        <4>3. s \in Seq(Block)
          BY <1>0, <3>4
        <4>4. Len(s) = h + 1 /\ \A k \in 1..(h + 1) : s[k] = <<remote[c], k>>
          <5>1. CASE created[c]
            <6>1. /\ saved[c][remote[c]] \in Seq(Block) /\ Len(saved[c][remote[c]]) = h
                  /\ s = Append(saved[c][remote[c]], b)
              BY <1>0, <3>4, <4>1, <5>1 DEF Had, TypeOK
            <6>2. \A k \in 1..h : saved[c][remote[c]][k] = <<remote[c], k>>
              BY <3>6, <4>1, <5>1 DEF Right, Follows
            <6>3. \A k \in 1..(h + 1) : k \in 1..h \/ k = h + 1
              BY <4>1
            <6>4. /\ Len(s) = h + 1 /\ s[h + 1] = b
                  /\ \A k \in 1..h : s[k] = saved[c][remote[c]][k]
              BY <6>1
            <6> QED BY <4>2, <6>2, <6>3, <6>4
          <5>2. CASE ~created[c]
            <6>1. h = 0 /\ s = <<b>>
              BY <3>4, <4>1, <5>2 DEF Had
            <6> QED BY <4>2, <6>1
          <5> QED BY <5>1, <5>2
        <4> HIDE DEF s
        <4>5. s = [k \in 1..(h + 1) |-> <<remote[c], k>>]
          <5>1. DOMAIN s = 1..(h + 1) /\ s = [k \in DOMAIN s |-> s[k]]
            BY <4>3, <4>4
          <5> QED BY <4>4, <5>1
        <4> QED BY <4>2, <4>5 DEF s, Content
      <3> QED BY <3>4, <3>5, <3>6
    <2> QED BY <2>1, <2>2 DEF ReceiveLast, ReceiveError, ReceiveRefused
  <1>5. ASSUME Right(c), NEW n \in Names PROVE Whole(c, n)'
    <2>1. Whole(c, n)
      BY <1>5 DEF Right
    <2> QED BY <1>4, <1>5, <2>1 DEF Whole, Closed, Content
  <1>6. ASSUME NEW d \in Clients, d # c PROVE Untouched(d)
    BY <1>0, <1>1, <1>2, <1>4, <1>6 DEF Untouched
  <1> QED BY <1>3, <1>5, <1>6, UntouchedKeeps DEF Right

LEMMA InitAnswers == Init => AnswerInv
  <1> SUFFICES ASSUME Init, NEW c \in Clients
               PROVE  OneAnswer(c) /\ Right(c)
    BY DEF AnswerInv, Right
  <1>1. /\ requests[c] = <<>> /\ pdus[c] = <<>> /\ job.to # c /\ c \notin refused /\ ~created[c]
        /\ \A n \in Names : saved[c][n] = <<>>
    BY TransferAssumption DEF Init, Idle
  <1>2. Len(requests[c]) = 0 /\ Len(pdus[c]) = 0
    BY <1>1
  <1> QED BY <1>1, <1>2 DEF OneAnswer, Right, Follows, Whole

LEMMA NextAnswers == RemnantInv /\ AnswerInv /\ [Next]_vars => AnswerInv'
  <1> SUFFICES ASSUME RemnantInv, AnswerInv, [Next]_vars PROVE AnswerInv'
    OBVIOUS
  <1>1. CASE SendBlock \/ SendLast
    <2>1. UNCHANGED happened
      BY <1>1 DEF SendBlock, SendLast, trouble
    <2> QED BY <1>1, <2>1, SendAnswers DEF AnswerInv, Right
  <1>2. ASSUME NEW c \in Clients, RefuseRequest(c) \/ AcceptRequest(c) \/ Bounce(c)
        PROVE  AnswerInv'
    <2>1. UNCHANGED happened
      BY <1>2 DEF RefuseRequest, AcceptRequest, Bounce, trouble
    <2> QED BY <1>2, <2>1, RequestAnswers DEF AnswerInv, Right
  <1>3. CASE StartServer \/ KillServer
    <2>1. happened \subseteq happened'
      BY <1>3 DEF StartServer, KillServer, Fault, trouble
    <2> QED BY <1>3, <2>1, OperatorAnswers DEF AnswerInv, Right
  <1>4. ASSUME NEW c \in Clients, Receive(c) PROVE AnswerInv'
    <2>1. UNCHANGED happened
      BY <1>4 DEF Receive, ReceiveBlock, ReceiveLast, ReceiveError, ReceiveRefused, trouble
    <2> QED BY <1>4, <2>1, BlockAnswers, EndAnswers DEF AnswerInv, Right, Receive
  <1>5. ASSUME NEW c \in Clients, Quit(c) \/ \E n \in Names : Ask(c, n) PROVE AnswerInv'
    <2>1. UNCHANGED happened
      BY <1>5 DEF Quit, Ask, trouble
    <2> QED BY <1>5, <2>1, MenuAnswers DEF AnswerInv, Right
  <1>6. ASSUME NEW c \in Clients, Lose(c) PROVE AnswerInv'
    <2>1. happened \subseteq happened' /\ "lose" \in happened'
      BY <1>6 DEF Lose, Fault
    <2> QED BY <1>6, <2>1, LossAnswers DEF AnswerInv
  <1>7. ASSUME NEW c \in Clients,
               Duplicate(c) \/ Reorder(c) \/ WriteFails(c) \/ CloseFails(c)
        PROVE  AnswerInv'
    <2>1. ~(happened' \subseteq {"lose", "kill"})
      <3>1. Fault("duplicate") \/ Fault("reorder") \/ Fault("write") \/ Fault("close")
        BY <1>7 DEF Duplicate, Reorder, WriteFails, CloseFails
      <3>2. \E kind \in {"duplicate", "reorder", "write", "close"} : kind \in happened'
        BY <3>1 DEF Fault
      <3> QED BY <3>2
    <2> QED BY <2>1 DEF AnswerInv
  <1>8. CASE UNCHANGED vars
    <2>1. UNCHANGED happened /\ \A c \in Clients : Untouched(c)
      BY <1>8 DEF vars, channel, client, trouble, Untouched
    <2> QED BY <2>1, UntouchedKeeps DEF AnswerInv, Right
  <1> QED BY <1>1, <1>2, <1>3, <1>4, <1>5, <1>6, <1>7, <1>8 DEF Next, Serve

\* Servers killed, also in the middle of a file, and nothing worse: every
\* reported download is the whole file in its order, and every failed one has
\* left nothing.
THEOREM WholeFilesSaved == Spec => []WholeFiles
  <1>1. AnswerInv => WholeFiles
    BY DEF AnswerInv, WholeFiles, WholeOrNone, Whole
  <1> QED BY InitRemnant, NextRemnant, InitAnswers, NextAnswers, <1>1, PTL DEF Spec

\* PDUs lost and servers killed: a client is back at its menu only when nothing
\* of its downloads is on its way, so that the next one reads its own answer.
THEOREM NothingStaysBehind == Spec => []NothingLeftOver
  <1>1. RemnantInv /\ AnswerInv => NothingLeftOver
    BY DEF AnswerInv, NothingLeftOver, OneAnswer
  <1> QED BY InitRemnant, NextRemnant, InitAnswers, NextAnswers, <1>1, PTL DEF Spec

-----------------------------------------------------------------------------
(* As long as the network, if anything, loses: the order of the blocks.     *)

\* The number of the last block that a client which waits has written.
Top(c) ==
    IF created[c] THEN saved[c][remote[c]][Len(saved[c][remote[c]])][2] ELSE 0

\* The blocks written, on their way and to be sent are blocks of the file that
\* was asked for, and their numbers rise.
Rising(c) ==
    /\ created[c] => saved[c][remote[c]] # <<>>
    /\ requests[c] # <<>> => ~created[c] /\ requests[c][1] = remote[c]
    /\ job.to = c => /\ job.name = remote[c] /\ Top(c) < job.next
                     /\ \A i \in 1..Len(pdus[c]) : pdus[c][i].block[2] < job.next
    /\ \A i \in 1..Len(pdus[c]) : pdus[c][i].type # "E" =>
          /\ remote[c] \in DOMAIN Size
          /\ pdus[c][i].block[1] = remote[c] /\ Top(c) < pdus[c][i].block[2]
          /\ pdus[c][i].type = "F" => pdus[c][i].block[2] = Size[remote[c]] + 1
    /\ \A i, j \in 1..Len(pdus[c]) :
          i < j /\ pdus[c][j].type # "E" => pdus[c][i].block[2] < pdus[c][j].block[2]

\* A file has its own blocks in order, and a closed one its last.
Tidy(c, n) ==
    /\ InOrder(saved[c][n], n)
    /\ Closed(c, n) /\ saved[c][n] # <<>> =>
          n \in DOMAIN Size /\ saved[c][n][Len(saved[c][n])] = <<n, Size[n] + 1>>

Gapped(c) == Rising(c) /\ \A n \in Names : Tidy(c, n)

GapInv == happened \subseteq {"lose", "kill"} => \A c \in Clients : Gapped(c)

LEMMA UntouchedGaps ==
    ASSUME NEW d \in Clients, Untouched(d), Gapped(d)
    PROVE  Gapped(d)'
  <1> USE DEF Untouched
  <1>1. Top(d)' = Top(d)
    BY DEF Top
  <1>2. Rising(d)'
    BY <1>1 DEF Gapped, Rising
  <1>3. ASSUME NEW n \in Names PROVE Tidy(d, n)'
    <2>1. Tidy(d, n)
      BY DEF Gapped
    <2> QED BY <2>1 DEF Tidy, Closed, InOrder
  <1> QED BY <1>2, <1>3 DEF Gapped

\* The numbers that are compared.
LEMMA Numbers ==
    ASSUME TypeOK, NEW c \in Clients, Rising(c)
    PROVE  /\ Top(c) \in Nat
           /\ \A i \in 1..Len(pdus[c]) : pdus[c][i].type # "E" =>
                pdus[c][i].block \in Block /\ pdus[c][i].block[2] \in Nat
  <1>1. ASSUME created[c] PROVE Top(c) \in Nat
    <2>1. PICK s \in Seq(Block) : s = saved[c][remote[c]] /\ s # <<>>
      BY <1>1 DEF TypeOK, Rising
    <2>2. s[Len(s)] \in Block
      BY <2>1, EmptySeq, ElementOfSeq
    <2> QED BY <1>1, <2>1, <2>2 DEF Top, Block
  <1>2. ASSUME NEW i \in 1..Len(pdus[c]), pdus[c][i].type # "E"
        PROVE  pdus[c][i].block \in Block /\ pdus[c][i].block[2] \in Nat
    <2>1. PICK s \in Seq(PDU) : s = pdus[c] /\ i \in 1..Len(s)
      BY DEF TypeOK
    <2>2. s[i] \in PDU
      BY <2>1, ElementOfSeq
    <2>3. pdus[c][i].block \in Block
      BY <1>2, <2>1, <2>2 DEF PDU, Error
    <2> QED BY <2>3 DEF Block
  <1> QED BY <1>1, <1>2 DEF Top

\* A block with a higher number than the last keeps a file in order.
LEMMA AppendInOrder ==
    ASSUME NEW n, NEW s \in Seq(Block), InOrder(s, n), NEW b \in Block, b[1] = n,
           s # <<>> => s[Len(s)][2] < b[2]
    PROVE  /\ InOrder(Append(s, b), n)
           /\ Append(s, b) # <<>> /\ Append(s, b)[Len(Append(s, b))] = b
  <1>1. PICK k \in Nat : k = Len(s)
    OBVIOUS
  <1>2. \A i \in 1..k : s[i] \in Block /\ s[i][2] \in Nat /\ s[i][1] = n
    BY <1>1, ElementOfSeq DEF InOrder, Block
  <1>3. b[2] \in Nat
    BY DEF Block
  <1>4. PICK t \in Seq(Block) : t = Append(s, b)
    <2>1. Append(s, b) \in Seq(Block)
      OBVIOUS
    <2> QED BY <2>1
  <1>5. /\ Len(t) = k + 1 /\ DOMAIN t = 1..(k + 1) /\ t[k + 1] = b
        /\ \A i \in 1..k : t[i] = s[i]
    BY <1>1, <1>4
  <1>6. ASSUME NEW j \in 1..k PROVE s[j][2] < b[2]
    <2>1. s # <<>> /\ k \in 1..k /\ k >= 1
      BY <1>1, EmptySeq
    <2>2. s[k][2] < b[2]
      BY <1>1, <2>1
    <2>3. j = k \/ j \in 1..(k - 1)
      BY <1>1
    <2>4. j \in 1..(k - 1) => s[j][2] < s[k][2]
      BY <1>1, <2>1 DEF InOrder
    <2> QED BY <1>2, <1>3, <2>1, <2>2, <2>3, <2>4
  <1>7. ASSUME NEW i \in DOMAIN t
        PROVE  t[i][1] = n /\ \A j \in 1..(i - 1) : t[j][2] < t[i][2]
    <2>1. CASE i = k + 1
      <3>1. (k + 1) - 1 = k
        BY <1>1
      <3> QED BY <1>5, <1>6, <2>1, <3>1
    <2>2. CASE i \in 1..k
      <3>1. \A j \in 1..(i - 1) : j \in 1..k
        BY <1>1, <2>2
      <3>2. s[i][1] = n /\ \A j \in 1..(i - 1) : s[j][2] < s[i][2]
        BY <1>1, <2>2 DEF InOrder
      <3> QED BY <1>5, <2>2, <3>1, <3>2
    <2> QED BY <1>1, <1>5, <2>1, <2>2
  <1>8. t # <<>> /\ t[Len(t)] = b
    BY <1>1, <1>5, EmptySeq
  <1> QED BY <1>4, <1>7, <1>8 DEF InOrder

\* A step on the wires after which no more of them is there than before.
LEMMA WireGaps ==
    ASSUME NEW c \in Clients, Rising(c), UNCHANGED <<remote, created, saved>>,
           requests'[c] = requests[c] \/ requests'[c] = <<>>,
           job'.to = c => job' = job,
           \A i, j \in 1..Len(pdus'[c]) : \E k, l \in 1..Len(pdus[c]) :
               /\ pdus'[c][i] = pdus[c][k] /\ pdus'[c][j] = pdus[c][l]
               /\ i < j => k < l
    PROVE  Rising(c)'
  <1>1. Top(c)' = Top(c)
    BY DEF Top
  <1>2. \A i \in 1..Len(pdus'[c]) : \E k \in 1..Len(pdus[c]) : pdus'[c][i] = pdus[c][k]
    OBVIOUS
  <1>3. ASSUME NEW i \in 1..Len(pdus'[c]), NEW j \in 1..Len(pdus'[c]),
               i < j, pdus'[c][j].type # "E"
        PROVE  pdus'[c][i].block[2] < pdus'[c][j].block[2]
    <2>1. PICK k \in 1..Len(pdus[c]), l \in 1..Len(pdus[c]) :
            pdus'[c][i] = pdus[c][k] /\ pdus'[c][j] = pdus[c][l] /\ k < l
      BY <1>3
    <2> QED BY <1>3, <2>1 DEF Rising
  <1> QED BY <1>1, <1>2, <1>3, ZenonT(40) DEF Rising

\* What is not written stays as it is.
LEMMA UnwrittenTidy ==
    ASSUME NEW c \in Clients, NEW n \in Names, Tidy(c, n), saved'[c] = saved[c],
           Closed(c, n)' => Closed(c, n)
    PROVE  Tidy(c, n)'
  BY DEF Tidy, InOrder

\* The PDU that the server sends is the next of the file that was asked for.
LEMMA SendGaps ==
    ASSUME RemnantInv, \A c \in Clients : OneAnswer(c), \A c \in Clients : Gapped(c),
           SendBlock \/ SendLast
    PROVE  \A c \in Clients : Gapped(c)'
  <1> DEFINE last == job.next > Size[job.name]
             pdu == IF ~last THEN [type |-> "D", block |-> <<job.name, job.next>>]
                    ELSE IF job.name \in Unreadable THEN Error
                    ELSE [type |-> "F", block |-> <<job.name, job.next>>]
  <1>0. /\ job # Idle /\ job.name \in DOMAIN Size /\ TypeOK /\ job \in Job
        /\ Size[job.name] \in Nat /\ job.next \in 1..(Size[job.name] + 1) /\ job.next \in Nat
    BY TransferAssumption DEF SendBlock, SendLast, RemnantInv, TypeOK
  <1>1. PICK c \in Clients : c = job.to
    BY <1>0 DEF TypeOK
  <1>2. /\ SendTo(c, pdu) /\ UNCHANGED <<requests, refused, pc, remote, created, saved>>
        /\ job' = IF last THEN Idle ELSE [job EXCEPT !.next = @ + 1]
    BY <1>0, <1>1 DEF SendBlock, SendLast, client
  <1>3. PICK p \in PDU : p = pdu
    BY <1>0, Messages
  <1>4. /\ p.type # "D" <=> last
        /\ p.type # "E" => p.block = <<job.name, job.next>>
    BY <1>3 DEF Error
  <1>5. /\ OneAnswer(c) /\ Rising(c) /\ pc[c] = "waiting" /\ requests[c] = <<>>
        /\ \A i \in 1..Len(pdus[c]) : pdus[c][i].type = "D"
    BY <1>1 DEF OneAnswer, Gapped
  <1> HIDE DEF pdu
  <1>6. PICK m \in Nat :
          /\ m = Len(pdus[c])
          /\ \A d \in Clients : d # c => pdus'[d] = pdus[d]
          /\ Len(pdus'[c]) = m + 1
          /\ \A i \in 1..m : pdus'[c][i] = pdus[c][i]
          /\ pdus'[c][m + 1] = p
    BY <1>0, <1>2, <1>3, <1>5, Sent, Lengths
  <1>7. job'.to = (IF last THEN "none" ELSE c) /\ c # "none"
        /\ (~last => job'.name = job.name /\ job'.next = job.next + 1)
    BY <1>0, <1>1, <1>2, TransferAssumption DEF Idle, Job
  <1>8. last => job.next = Size[job.name] + 1
    BY <1>0
  <1> HIDE DEF last
  <1>9. \A i \in 1..(m + 1) : i \in 1..m \/ i = m + 1
    OBVIOUS
  <1>10. ASSUME NEW d \in Clients, d # c PROVE Untouched(d)
    BY <1>1, <1>2, <1>6, <1>7, <1>10, TransferAssumption DEF Untouched
  <1>11. PICK top \in Nat : top = Top(c) /\ Top(c)' = top
    <2>1. Top(c) \in Nat
      BY <1>0, <1>5, Numbers
    <2>2. Top(c)' = Top(c)
      BY <1>2 DEF Top
    <2> QED BY <2>1, <2>2
  <1>12. /\ job.name = remote[c] /\ top < job.next
         /\ \A i \in 1..m : pdus[c][i].block[2] \in Nat /\ pdus[c][i].block[2] < job.next
    <2>1. \A i \in 1..m : pdus[c][i].type # "E"
      BY <1>5, <1>6
    <2> QED BY <1>0, <1>1, <1>5, <1>6, <1>11, <2>1, Numbers DEF Rising
  <1>13. ASSUME NEW i \in 1..(m + 1), pdus'[c][i].type # "E"
         PROVE  /\ remote[c] \in DOMAIN Size
                /\ pdus'[c][i].block[1] = remote[c] /\ top < pdus'[c][i].block[2]
                /\ pdus'[c][i].type = "F" => pdus'[c][i].block[2] = Size[remote[c]] + 1
    <2>1. CASE i \in 1..m
      BY <1>5, <1>6, <1>11, <1>13, <2>1 DEF Rising
    <2>2. CASE i = m + 1
      <3>1. p.block[1] = job.name /\ p.block[2] = job.next
        BY <1>4, <1>6, <1>13, <2>2
      <3>2. p.type = "F" => job.next = Size[job.name] + 1
        BY <1>4, <1>8
      <3> QED BY <1>0, <1>6, <1>12, <2>2, <3>1, <3>2
    <2> QED BY <1>9, <2>1, <2>2
  <1>14. ASSUME NEW i \in 1..(m + 1), NEW j \in 1..(m + 1), i < j, pdus'[c][j].type # "E"
         PROVE  pdus'[c][i].block[2] < pdus'[c][j].block[2]
    <2>1. i \in 1..m
      BY <1>14
    <2>2. CASE j \in 1..m
      BY <1>5, <1>6, <1>14, <2>1, <2>2 DEF Rising
    <2>3. CASE j = m + 1
      <3>1. pdus'[c][j].block[2] = job.next
        BY <1>4, <1>6, <1>14, <2>3
      <3> QED BY <1>6, <1>12, <2>1, <3>1
    <2> QED BY <1>9, <2>2, <2>3
  <1>15. ASSUME job'.to = c
         PROVE  /\ job'.name = remote[c] /\ top < job'.next
                /\ \A i \in 1..(m + 1) : pdus'[c][i].block[2] < job'.next
    <2>1. ~last /\ job'.name = job.name /\ job'.next = job.next + 1
      BY <1>7, <1>15
    <2>2. top < job.next + 1
      BY <1>0, <1>12
    <2>3. ASSUME NEW i \in 1..m PROVE pdus'[c][i].block[2] < job.next + 1
      <3>1. PICK k \in Nat : k = pdus[c][i].block[2] /\ k < job.next
        BY <1>12
      <3>2. k < job.next + 1
        BY <1>0, <3>1
      <3> QED BY <1>6, <3>1, <3>2
    <2>4. p.block[2] = job.next /\ job.next < job.next + 1
      BY <1>0, <1>4, <2>1
    <2> QED BY <1>6, <1>9, <1>12, <2>1, <2>2, <2>3, <2>4
  <1>16. Rising(c)'
    <2>1. /\ created[c] => saved[c][remote[c]] # <<>>
          /\ requests'[c] = <<>>
      BY <1>2, <1>5 DEF Rising
    <2>2. 1..Len(pdus'[c]) = 1..(m + 1)
      BY <1>6
    <2> QED BY <1>2, <1>11, <1>13, <1>14, <1>15, <2>1, <2>2 DEF Rising
  <1>17. ASSUME NEW n \in Names PROVE Tidy(c, n)'
    <2>1. Tidy(c, n) /\ (Closed(c, n)' <=> Closed(c, n))
      BY <1>2 DEF Gapped, Closed
    <2> QED BY <1>2, <2>1, UnwrittenTidy
  <1> QED BY <1>10, <1>16, <1>17, UntouchedGaps DEF Gapped

\* A request is taken from the server's socket, or the server comes or goes.
LEMMA RequestGaps ==
    ASSUME RemnantInv, \A c \in Clients : OneAnswer(c), \A c \in Clients : Gapped(c),
           \/ StartServer \/ KillServer
           \/ \E c \in Clients : RefuseRequest(c) \/ AcceptRequest(c) \/ Bounce(c)
    PROVE  \A c \in Clients : Gapped(c)'
  <1>0. TypeOK /\ UNCHANGED <<remote, created, saved>>
    BY DEF RemnantInv, StartServer, KillServer, RefuseRequest, AcceptRequest, Bounce, client
  <1>1. SUFFICES ASSUME NEW c \in Clients PROVE Rising(c)'
    <2>1. ASSUME NEW c \in Clients, NEW n \in Names PROVE Tidy(c, n)'
      <3>1. Tidy(c, n) /\ (Closed(c, n)' <=> Closed(c, n))
        BY <1>0 DEF Gapped, Closed
      <3> QED BY <1>0, <3>1, UnwrittenTidy
    <2> QED BY <2>1 DEF Gapped
  <1>2. Rising(c) /\ c # "none"
    BY TransferAssumption DEF Gapped
  <1>3. CASE StartServer \/ KillServer
    <2>1. /\ pdus' = pdus /\ (job'.to = c => job' = job)
          /\ requests'[c] = requests[c] \/ requests'[c] = <<>>
      BY <1>2, <1>3 DEF StartServer, KillServer, channel, Idle
    <2> QED BY <1>0, <1>2, <2>1, WireGaps
  <1>4. ASSUME NEW d \in Clients, RefuseRequest(d) \/ AcceptRequest(d) \/ Bounce(d)
        PROVE  Rising(c)'
    <2>0. /\ requests[d] # <<>> /\ requests' = [requests EXCEPT ![d] = Tail(@)]
          /\ OneAnswer(d) /\ requests \in [Clients -> Seq(Names)]
      BY <1>0, <1>4 DEF RefuseRequest, AcceptRequest, Bounce, TypeOK
    <2>1. requests'[d] = <<>> /\ Head(requests[d]) = requests[d][1] /\ pdus[d] = <<>>
          /\ \A e \in Clients : e # d => requests'[e] = requests[e]
      <3>1. PICK s \in Seq(Names) : s = requests[d] /\ s # <<>> /\ Len(s) <= 1
        BY <2>0 DEF OneAnswer
      <3>2. PICK k \in Nat : k = Len(s)
        BY <3>1
      <3>3. k = 1
        <4>1. k # 0
          BY <3>1, <3>2, EmptySeq
        <4>2. k <= 1
          BY <3>1, <3>2
        <4> QED BY <4>1, <4>2
      <3>4. Tail(s) \in Seq(Names) /\ Len(Tail(s)) = 0
        <4>1. Len(s) = 1
          BY <3>2, <3>3
        <4> QED BY <3>1, <4>1, HeadTailProperties
      <3>5. Tail(s) = <<>> /\ Head(s) = s[1]
        BY <3>1, <3>4, EmptySeq
      <3> QED BY <2>0, <3>1, <3>5 DEF OneAnswer
    <2>2. requests'[c] = requests[c] \/ requests'[c] = <<>>
      BY <2>1
    <2>3. CASE AcceptRequest(d)
      <3>1. pdus' = pdus /\ job' = [to |-> d, name |-> requests[d][1], next |-> 1]
        BY <2>1, <2>3 DEF AcceptRequest
      <3>2. CASE d # c
        BY <1>0, <1>2, <2>2, <3>1, <3>2, WireGaps
      <3>3. CASE d = c
        <4>1. ~created[c] /\ requests[c][1] = remote[c] /\ Len(pdus'[c]) = 0
          BY <1>2, <2>0, <2>1, <3>1, <3>3 DEF Rising
        <4>2. Top(c)' = 0
          BY <1>0, <4>1 DEF Top
        <4> QED BY <1>0, <2>1, <3>1, <3>3, <4>1, <4>2 DEF Rising
      <3> QED BY <3>2, <3>3
    <2>4. CASE Bounce(d)
      BY <1>0, <1>2, <2>2, <2>4, WireGaps DEF Bounce
    <2>5. CASE RefuseRequest(d)
      <3>1. job' = job /\ SendTo(d, Error) /\ Error \in PDU /\ job.to = "none"
        BY <2>5 DEF RefuseRequest, PDU, Idle
      <3>2. PICK p \in PDU : p = Error /\ SendTo(d, p)
        BY <3>1
      <3>3. pc[d] # "ended"
        BY <2>0 DEF OneAnswer
      <3>4. /\ \A e \in Clients : e # d => pdus'[e] = pdus[e]
            /\ Len(pdus'[d]) = Len(pdus[d]) + 1 /\ pdus'[d][Len(pdus[d]) + 1] = p
        BY <1>0, <3>2, <3>3, Sent
      <3>5. CASE d # c
        BY <1>0, <1>2, <2>2, <3>1, <3>4, <3>5, WireGaps
      <3>6. CASE d = c
        <4>1. Len(pdus'[c]) = 1 /\ pdus'[c][1].type = "E"
          <5>1. Len(pdus[d]) = 0
            BY <2>1
          <5> QED BY <3>2, <3>4, <3>6, <5>1 DEF Error
        <4>2. \A i \in 1..Len(pdus'[c]) : pdus'[c][i].type = "E"
          BY <4>1
        <4>3. /\ created'[c] => saved'[c][remote'[c]] # <<>>
              /\ requests'[c] = <<>> /\ job'.to # c
          BY <1>0, <1>2, <2>1, <3>1, <3>6 DEF Rising
        <4> QED BY <4>2, <4>3 DEF Rising
      <3> QED BY <3>5, <3>6
    <2> QED BY <1>4, <2>3, <2>4, <2>5
  <1> QED BY <1>3, <1>4

\* A user starts a download or leaves.
LEMMA MenuGaps ==
    ASSUME RemnantInv, \A c \in Clients : OneAnswer(c), \A c \in Clients : Gapped(c),
           NEW c \in Clients, Quit(c) \/ \E n \in Names : Ask(c, n)
    PROVE  \A d \in Clients : Gapped(d)'
  <1>0. TypeOK /\ pc[c] = "menu" /\ ~created[c] /\ UNCHANGED <<job, created, saved>>
    BY DEF RemnantInv, TypeOK, Quit, Ask
  <1>1. requests[c] = <<>> /\ pdus[c] = <<>> /\ job.to # c /\ c \notin refused
    BY <1>0 DEF OneAnswer
  <1>2. ASSUME NEW n \in Names PROVE Tidy(c, n)'
    <2>1. Tidy(c, n) /\ Closed(c, n)
      BY <1>0 DEF Gapped, Closed
    <2> QED BY <1>0, <2>1, UnwrittenTidy
  <1>3. CASE Quit(c)
    <2>1. pdus'[c] = <<>> /\ UNCHANGED <<requests, remote>> /\ refused' = refused \ {c}
          /\ \A d \in Clients : d # c => pdus'[d] = pdus[d] /\ pc'[d] = pc[d]
      BY <1>0, <1>3 DEF Quit, TypeOK
    <2>2. Rising(c)'
      BY <1>0, <1>1, <2>1 DEF Rising
    <2>3. \A d \in Clients : d # c => Untouched(d)
      BY <1>0, <2>1 DEF Untouched
    <2> QED BY <1>2, <2>2, <2>3, UntouchedGaps DEF Gapped
  <1>4. ASSUME NEW n \in Names, Ask(c, n)
        PROVE  \A d \in Clients : Gapped(d)'
    <2>1. /\ requests' = [requests EXCEPT ![c] = Append(@, n)] /\ UNCHANGED <<pdus, refused>>
          /\ pc' = [pc EXCEPT ![c] = "waiting"] /\ remote' = [remote EXCEPT ![c] = n]
      BY <1>1, <1>4 DEF Ask
    <2>2. /\ requests'[c] = <<n>> /\ requests'[c][1] = n /\ remote'[c] = n
          /\ \A d \in Clients : d # c => /\ requests'[d] = requests[d]
                                         /\ pc'[d] = pc[d] /\ remote'[d] = remote[d]
      BY <1>0, <1>1, <2>1 DEF TypeOK
    <2>3. Rising(c)'
      BY <1>0, <1>1, <2>1, <2>2 DEF Rising
    <2>4. \A d \in Clients : d # c => Untouched(d)
      BY <1>0, <2>1, <2>2 DEF Untouched
    <2> QED BY <1>2, <2>3, <2>4, UntouchedGaps DEF Gapped
  <1> QED BY <1>3, <1>4

\* The network loses something: what is left is in the order it had.
LEMMA LossGaps ==
    ASSUME RemnantInv, \A c \in Clients : OneAnswer(c), \A c \in Clients : Gapped(c),
           NEW c \in Clients, Lose(c)
    PROVE  \A d \in Clients : Gapped(d)'
  <1>0. /\ TypeOK /\ UNCHANGED <<job, refused, pc, remote, created, saved>>
        /\ pdus \in [Clients -> Seq(PDU)] /\ requests \in [Clients -> Seq(Names)]
        /\ pdus[c] \in Seq(PDU) /\ DOMAIN pdus[c] = 1..Len(pdus[c])
        /\ requests[c] \in Seq(Names) /\ DOMAIN requests[c] = 1..Len(requests[c])
        /\ Len(pdus[c]) \in Nat /\ Len(requests[c]) \in Nat
    BY DEF RemnantInv, TypeOK, Lose, client
  <1>1. ASSUME NEW n \in Names PROVE Tidy(c, n)'
    <2>1. Tidy(c, n) /\ (Closed(c, n)' <=> Closed(c, n))
      BY <1>0 DEF Gapped, Closed
    <2> QED BY <1>0, <2>1, UnwrittenTidy
  <1>2. CASE \E k \in DOMAIN pdus[c] :
               pdus' = [pdus EXCEPT ![c] = RemoveAt(@, k)] /\ UNCHANGED requests
    <2>1. PICK k \in 1..Len(pdus[c]) :
            pdus' = [pdus EXCEPT ![c] = RemoveAt(@, k)] /\ UNCHANGED requests
      BY <1>0, <1>2
    <2>2. /\ pdus'[c] = RemoveAt(pdus[c], k)
          /\ \A d \in Clients : d # c => pdus'[d] = pdus[d]
      BY <1>0, <2>1
    <2>3. PICK m \in Nat : m = Len(pdus[c])
      BY <1>0
    <2>4. /\ Len(pdus'[c]) = m - 1
          /\ \A i \in 1..(m - 1) :
               pdus'[c][i] = IF i < k THEN pdus[c][i] ELSE pdus[c][i + 1]
      <3>1. /\ Len(RemoveAt(pdus[c], k)) = Len(pdus[c]) - 1
            /\ \A i \in 1..(Len(pdus[c]) - 1) :
                 RemoveAt(pdus[c], k)[i] = IF i < k THEN pdus[c][i] ELSE pdus[c][i + 1]
        BY <1>0, RemoveAtElements
      <3> QED BY <2>2, <2>3, <3>1
    <2>5. ASSUME NEW i \in 1..Len(pdus'[c]), NEW j \in 1..Len(pdus'[c])
          PROVE  \E g, l \in 1..Len(pdus[c]) :
                   /\ pdus'[c][i] = pdus[c][g] /\ pdus'[c][j] = pdus[c][l]
                   /\ i < j => g < l
      <3> DEFINE g == IF i < k THEN i ELSE i + 1
                 l == IF j < k THEN j ELSE j + 1
      <3>1. g \in 1..Len(pdus[c]) /\ l \in 1..Len(pdus[c]) /\ (i < j => g < l)
        BY <2>1, <2>3, <2>4
      <3>2. pdus'[c][i] = pdus[c][g] /\ pdus'[c][j] = pdus[c][l]
        BY <2>4
      <3> QED BY <3>1, <3>2
    <2>6. Rising(c)'
      BY <1>0, <2>1, <2>5, WireGaps DEF Gapped
    <2>7. \A d \in Clients : d # c => Untouched(d)
      BY <1>0, <2>1, <2>2 DEF Untouched
    <2> QED BY <1>1, <2>6, <2>7, UntouchedGaps DEF Gapped
  <1>3. CASE \E k \in DOMAIN requests[c] :
               requests' = [requests EXCEPT ![c] = RemoveAt(@, k)] /\ UNCHANGED pdus
    <2>1. PICK k \in 1..Len(requests[c]) :
            requests' = [requests EXCEPT ![c] = RemoveAt(@, k)] /\ UNCHANGED pdus
      BY <1>0, <1>3
    <2>2. /\ requests'[c] = RemoveAt(requests[c], k)
          /\ \A d \in Clients : d # c => requests'[d] = requests[d]
      BY <1>0, <2>1
    <2>3. Rising(c)'
      <3>1. Len(RemoveAt(requests[c], k)) = Len(requests[c]) - 1
            /\ RemoveAt(requests[c], k) \in Seq(Names)
        BY <1>0, RemoveAtElements
      <3>2. requests'[c] = <<>>
        <4>1. PICK m \in Nat : m = Len(requests[c]) /\ m <= 1
          BY <1>0 DEF OneAnswer
        <4>2. Len(requests'[c]) = 0
          BY <2>1, <2>2, <3>1, <4>1
        <4> QED BY <2>2, <3>1, <4>2, EmptySeq
      <3> QED BY <1>0, <2>1, <3>2, WireGaps DEF Gapped
    <2>4. \A d \in Clients : d # c => Untouched(d)
      BY <1>0, <2>1, <2>2 DEF Untouched
    <2> QED BY <1>1, <2>3, <2>4, UntouchedGaps DEF Gapped
  <1> QED BY <1>2, <1>3 DEF Lose

\* The next block is written behind the ones before it.
LEMMA BlockGaps ==
    ASSUME RemnantInv, \A c \in Clients : OneAnswer(c), \A c \in Clients : Gapped(c),
           NEW c \in Clients, ReceiveBlock(c)
    PROVE  \A d \in Clients : Gapped(d)'
  <1>0. TypeOK /\ Take(c, {"D"}) /\ UNCHANGED <<pc, remote>> /\ Rising(c)
    BY DEF RemnantInv, ReceiveBlock, Gapped
  <1>1. /\ pc[c] = "waiting" /\ remote[c] \in Names
        /\ \A d \in Clients : d # c => pdus'[d] = pdus[d]
        /\ Len(pdus[c]) \in Nat /\ Len(pdus[c]) >= 1
        /\ Head(pdus[c]) = pdus[c][1] /\ pdus[c][1] \in PDU /\ pdus[c][1].type = "D"
        /\ Len(pdus'[c]) = Len(pdus[c]) - 1
        /\ \A i \in 1..Len(pdus'[c]) : pdus'[c][i] = pdus[c][i + 1]
        /\ UNCHANGED <<up, job, requests, refused>>
    BY <1>0, Taken
  <1>2. requests[c] = <<>> /\ 1 \in 1..Len(pdus[c])
    BY <1>0, <1>1 DEF OneAnswer, Take
  <1>3. PICK b \in Block : b = pdus[c][1].block
    BY <1>1 DEF PDU, Error
  <1>4. PICK top \in Nat : top = Top(c)
    BY <1>0, Numbers
  <1>5. b[1] = remote[c] /\ top < b[2] /\ b[2] \in Nat
    BY <1>0, <1>1, <1>2, <1>3, <1>4 DEF Rising, Block
  <1>6. ASSUME NEW i \in 1..Len(pdus'[c])
        PROVE  i + 1 \in 1..Len(pdus[c]) /\ pdus'[c][i] = pdus[c][i + 1] /\ 1 < i + 1
    BY <1>1
  <1>7. /\ Written(c, b) /\ created' = [created EXCEPT ![c] = TRUE]
        /\ created'[c] /\ \A d \in Clients : d # c => created'[d] = created[d]
    BY <1>0, <1>1, <1>3 DEF ReceiveBlock, TypeOK
  <1>8. /\ saved' \in [Clients -> [Names -> Seq(Block)]]
        /\ \A d \in Clients : \A n \in Names :
             d # c \/ n # remote[c] => saved'[d][n] = saved[d][n]
        /\ ~created[c] => saved'[c][remote[c]] = <<b>>
        /\ created[c] => saved'[c][remote[c]] = Append(saved[c][remote[c]], b)
        /\ saved'[c][remote[c]] # <<>>
        /\ saved'[c][remote[c]][Len(saved'[c][remote[c]])] = b
    BY <1>0, <1>1, <1>7, WrittenType
  <1>9. ASSUME NEW d \in Clients, d # c PROVE Untouched(d)
    <2>1. saved'[d] = saved[d]
      BY <1>0, <1>1, <1>8, <1>9 DEF TypeOK
    <2> QED BY <1>0, <1>1, <1>7, <1>9, <2>1 DEF Untouched
  <1>10. Top(c)' = b[2]
    BY <1>0, <1>7, <1>8 DEF Top
  <1>11. job'.to = c => /\ job'.name = remote[c] /\ b[2] < job'.next
                        /\ \A i \in 1..Len(pdus'[c]) : pdus'[c][i].block[2] < job'.next
    BY <1>0, <1>1, <1>2, <1>3, <1>6 DEF Rising
  <1>12. ASSUME NEW i \in 1..Len(pdus'[c]), pdus'[c][i].type # "E"
         PROVE  /\ remote[c] \in DOMAIN Size
                /\ pdus'[c][i].block[1] = remote[c] /\ b[2] < pdus'[c][i].block[2]
                /\ pdus'[c][i].type = "F" => pdus'[c][i].block[2] = Size[remote[c]] + 1
    BY <1>0, <1>2, <1>3, <1>6, <1>12 DEF Rising
  <1>13. ASSUME NEW i \in 1..Len(pdus'[c]), NEW j \in 1..Len(pdus'[c]),
                i < j, pdus'[c][j].type # "E"
         PROVE  pdus'[c][i].block[2] < pdus'[c][j].block[2]
    <2>1. i + 1 < j + 1
      BY <1>1, <1>13
    <2> QED BY <1>0, <1>6, <1>13, <2>1 DEF Rising
  <1>14. Rising(c)'
    BY <1>0, <1>1, <1>2, <1>7, <1>8, <1>10, <1>11, <1>12, <1>13 DEF Rising
  <1>15. ASSUME NEW n \in Names PROVE Tidy(c, n)'
    <2>1. Tidy(c, n)
      BY DEF Gapped
    <2>2. CASE n # remote[c]
      <3>1. saved'[c][n] = saved[c][n] /\ Closed(c, n)
        BY <1>8, <2>2 DEF Closed
      <3> QED BY <2>1, <3>1 DEF Tidy, InOrder
    <2>3. CASE n = remote[c]
      <3>1. InOrder(saved'[c][n], n)
        <4>1. CASE created[c]
          <5>1. PICK s \in Seq(Block) : s = saved[c][n]
            BY <1>0 DEF TypeOK
          <5>2. InOrder(s, n) /\ s[Len(s)][2] < b[2]
            BY <1>4, <1>5, <2>1, <2>3, <4>1, <5>1 DEF Tidy, Top
          <5>3. InOrder(Append(s, b), n)
            BY <1>5, <2>3, <5>2, AppendInOrder
          <5> QED BY <1>8, <2>3, <4>1, <5>1, <5>3
        <4>2. CASE ~created[c]
          <5>1. saved'[c][n] = <<b>>
            BY <1>8, <2>3, <4>2
          <5>2. InOrder(<<b>>, n)
            BY <1>5, <2>3 DEF InOrder
          <5> QED BY <5>1, <5>2
        <4> QED BY <4>1, <4>2
      <3>2. ~Closed(c, n)'
        BY <1>0, <1>7, <2>3 DEF Closed
      <3> QED BY <3>1, <3>2 DEF Tidy, InOrder
    <2> QED BY <2>2, <2>3
  <1> QED BY <1>9, <1>14, <1>15, UntouchedGaps DEF Gapped

\* The end of a download: the last block is written, or nothing is left.
LEMMA EndGaps ==
    ASSUME RemnantInv, \A c \in Clients : OneAnswer(c), \A c \in Clients : Gapped(c),
           NEW c \in Clients, ReceiveLast(c) \/ ReceiveError(c) \/ ReceiveRefused(c)
    PROVE  \A d \in Clients : Gapped(d)'
  <1>0. /\ TypeOK /\ pc[c] = "waiting" /\ remote[c] \in Names /\ Return(c) /\ UNCHANGED job
        /\ Rising(c)
    BY DEF RemnantInv, TypeOK, ReceiveLast, ReceiveError, ReceiveRefused, Take, Fail, Gapped
  <1>1. /\ pc'[c] = "menu" /\ ~created'[c]
        /\ \A d \in Clients : d # c =>
             pc'[d] = pc[d] /\ remote'[d] = remote[d] /\ created'[d] = created[d]
    BY <1>0, Returned
  <1>2. requests'[c] = <<>> /\ Len(pdus'[c]) = 0 /\ job'.to # c
    <2>1. OneAnswer(c)'
      BY EndAnswers
    <2> QED BY <1>1, <2>1 DEF OneAnswer
  <1>3. Rising(c)'
    BY <1>1, <1>2 DEF Rising
  <1>4. ASSUME NEW types, Take(c, types)
        PROVE  /\ UNCHANGED <<requests, refused>>
               /\ \A d \in Clients : d # c => pdus'[d] = pdus[d]
    BY <1>0, <1>4, Taken
  <1>5. \A d \in Clients : d # c =>
             /\ requests'[d] = requests[d] /\ pdus'[d] = pdus[d]
             /\ d \in refused' <=> d \in refused
    BY <1>4 DEF ReceiveLast, ReceiveError, ReceiveRefused
  <1>6. /\ \A d \in Clients : d # c => saved'[d] = saved[d]
        /\ \A n \in Names : n # remote[c] => saved'[c][n] = saved[c][n]
        /\ \/ saved'[c][remote[c]] = <<>>
           \/ ~created[c] /\ saved'[c][remote[c]] = saved[c][remote[c]]
           \/ /\ InOrder(saved'[c][remote[c]], remote[c]) /\ remote[c] \in DOMAIN Size
              /\ saved'[c][remote[c]][Len(saved'[c][remote[c]])] =
                   <<remote[c], Size[remote[c]] + 1>>
    <2>1. CASE Fail(c)
      <3>1. CASE created[c]
        <4>1. saved' = [saved EXCEPT ![c][remote[c]] = <<>>]
          BY <2>1, <3>1 DEF Fail
        <4> QED BY <1>0, <4>1 DEF TypeOK
      <3>2. CASE ~created[c]
        BY <2>1, <3>2 DEF Fail
      <3> QED BY <3>1, <3>2
    <2>2. CASE ReceiveLast(c)
      <3>0. Take(c, {"F"})
        BY <2>2 DEF ReceiveLast
      <3>1. /\ Head(pdus[c]) = pdus[c][1] /\ pdus[c][1] \in PDU /\ pdus[c][1].type = "F"
            /\ 1 \in 1..Len(pdus[c])
        BY <1>0, <3>0, Taken
      <3>2. PICK b \in Block : b = pdus[c][1].block
        BY <3>1 DEF PDU, Error
      <3>3. Written(c, b)
        BY <2>2, <3>1, <3>2 DEF ReceiveLast
      <3>4. /\ saved' \in [Clients -> [Names -> Seq(Block)]]
            /\ \A d \in Clients : \A n \in Names :
                 d # c \/ n # remote[c] => saved'[d][n] = saved[d][n]
            /\ ~created[c] => saved'[c][remote[c]] = <<b>>
            /\ created[c] => saved'[c][remote[c]] = Append(saved[c][remote[c]], b)
            /\ saved'[c][remote[c]][Len(saved'[c][remote[c]])] = b
        BY <1>0, <3>3, WrittenType
      <3>5. \A d \in Clients : d # c => saved'[d] = saved[d]
        BY <1>0, <3>4 DEF TypeOK
      <3>6. /\ b[1] = remote[c] /\ Top(c) < b[2] /\ remote[c] \in DOMAIN Size
            /\ b[2] = Size[remote[c]] + 1
        BY <1>0, <3>1, <3>2 DEF Rising
      <3>7. b = <<remote[c], Size[remote[c]] + 1>>
        BY <3>6 DEF Block
      <3>8. InOrder(saved'[c][remote[c]], remote[c])
        <4>1. CASE created[c]
          <5>1. PICK s \in Seq(Block) : s = saved[c][remote[c]]
            BY <1>0 DEF TypeOK
          <5>2. InOrder(s, remote[c]) /\ s[Len(s)][2] < b[2]
            BY <1>0, <3>6, <4>1, <5>1 DEF Tidy, Top, Gapped
          <5>3. InOrder(Append(s, b), remote[c])
            BY <3>6, <5>2, AppendInOrder
          <5> QED BY <3>4, <4>1, <5>1, <5>3
        <4>2. CASE ~created[c]
          <5>1. saved'[c][remote[c]] = <<b>>
            BY <3>4, <4>2
          <5>2. InOrder(<<b>>, remote[c])
            BY <3>6 DEF InOrder
          <5> QED BY <5>1, <5>2
        <4> QED BY <4>1, <4>2
      <3> QED BY <3>4, <3>5, <3>6, <3>7, <3>8
    <2> QED BY <2>1, <2>2 DEF ReceiveError, ReceiveRefused
  <1>7. ASSUME NEW n \in Names PROVE Tidy(c, n)'
    <2>1. Tidy(c, n)
      BY DEF Gapped
    <2>2. CASE n # remote[c]
      <3>1. saved'[c][n] = saved[c][n] /\ Closed(c, n)
        BY <1>6, <2>2 DEF Closed
      <3> QED BY <2>1, <3>1 DEF Tidy, InOrder
    <2>3. CASE saved'[c][n] = <<>>
      BY <2>3 DEF Tidy, InOrder
    <2>4. CASE n = remote[c] /\ ~created[c] /\ saved'[c][n] = saved[c][n]
      <3>1. Closed(c, n)
        BY <2>4 DEF Closed
      <3> QED BY <2>1, <2>4, <3>1 DEF Tidy, InOrder
    <2>5. CASE /\ InOrder(saved'[c][n], n) /\ n \in DOMAIN Size
               /\ saved'[c][n][Len(saved'[c][n])] = <<n, Size[n] + 1>>
      BY <2>5 DEF Tidy, InOrder
    <2> QED BY <1>6, <2>2, <2>3, <2>4, <2>5
  <1>8. ASSUME NEW d \in Clients, d # c PROVE Untouched(d)
    BY <1>0, <1>1, <1>5, <1>6, <1>8 DEF Untouched
  <1> QED BY <1>3, <1>7, <1>8, UntouchedGaps DEF Gapped

LEMMA InitGaps == Init => GapInv
  <1> SUFFICES ASSUME Init, NEW c \in Clients
               PROVE  Gapped(c)
    BY DEF GapInv
  <1>1. /\ requests[c] = <<>> /\ pdus[c] = <<>> /\ job.to # c /\ ~created[c]
        /\ \A n \in Names : saved[c][n] = <<>>
    BY TransferAssumption DEF Init, Idle
  <1>2. Len(pdus[c]) = 0
    BY <1>1
  <1> QED BY <1>1, <1>2 DEF Gapped, Rising, Tidy, InOrder

LEMMA NextGaps == RemnantInv /\ AnswerInv /\ GapInv /\ [Next]_vars => GapInv'
  <1> SUFFICES ASSUME RemnantInv, AnswerInv, GapInv, [Next]_vars,
                      happened' \subseteq {"lose", "kill"}
               PROVE  \A c \in Clients : Gapped(c)'
    BY DEF GapInv
  <1>0. ASSUME happened \subseteq happened'
        PROVE  (\A c \in Clients : OneAnswer(c)) /\ (\A c \in Clients : Gapped(c))
    BY <1>0 DEF AnswerInv, GapInv
  <1>1. CASE SendBlock \/ SendLast
    <2>1. UNCHANGED happened
      BY <1>1 DEF SendBlock, SendLast, trouble
    <2> QED BY <1>0, <1>1, <2>1, SendGaps
  <1>2. CASE \/ StartServer \/ KillServer
             \/ \E c \in Clients : RefuseRequest(c) \/ AcceptRequest(c) \/ Bounce(c)
    <2>1. happened \subseteq happened'
      BY <1>2 DEF StartServer, KillServer, RefuseRequest, AcceptRequest, Bounce, Fault, trouble
    <2> QED BY <1>0, <1>2, <2>1, RequestGaps
  <1>3. ASSUME NEW c \in Clients, Receive(c) PROVE \A d \in Clients : Gapped(d)'
    <2>1. UNCHANGED happened
      BY <1>3 DEF Receive, ReceiveBlock, ReceiveLast, ReceiveError, ReceiveRefused, trouble
    <2> QED BY <1>0, <1>3, <2>1, BlockGaps, EndGaps DEF Receive
  <1>4. ASSUME NEW c \in Clients, Quit(c) \/ \E n \in Names : Ask(c, n)
        PROVE  \A d \in Clients : Gapped(d)'
    <2>1. UNCHANGED happened
      BY <1>4 DEF Quit, Ask, trouble
    <2> QED BY <1>0, <1>4, <2>1, MenuGaps
  <1>5. ASSUME NEW c \in Clients, Lose(c) PROVE \A d \in Clients : Gapped(d)'
    <2>1. happened \subseteq happened'
      BY <1>5 DEF Lose, Fault
    <2> QED BY <1>0, <1>5, <2>1, LossGaps
  <1>6. ASSUME NEW c \in Clients
        PROVE  ~(Duplicate(c) \/ Reorder(c) \/ WriteFails(c) \/ CloseFails(c))
    <2>1. ~(Fault("duplicate") \/ Fault("reorder") \/ Fault("write") \/ Fault("close"))
      BY DEF Fault
    <2> QED BY <2>1 DEF Duplicate, Reorder, WriteFails, CloseFails
  <1>7. CASE UNCHANGED vars
    <2>1. UNCHANGED happened /\ \A c \in Clients : Untouched(c)
      BY <1>7 DEF vars, channel, client, trouble, Untouched
    <2> QED BY <1>0, <2>1, UntouchedGaps
  <1> QED BY <1>1, <1>2, <1>3, <1>4, <1>5, <1>6, <1>7 DEF Next, Serve

\* PDUs lost and servers killed, and nothing worse: a file has blocks of its
\* own only, each once and in order, and a reported one ends with its last.
THEOREM GapsOnly == Spec => []NothingButGaps
  <1>1. GapInv => NothingButGaps
    BY DEF GapInv, Gapped, Tidy, NothingButGaps
  <1> QED BY InitRemnant, NextRemnant, InitAnswers, NextAnswers, InitGaps, NextGaps, <1>1,
             PTL DEF Spec
=============================================================================
