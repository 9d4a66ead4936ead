----------------------------- MODULE PeerProofs -----------------------------
(***************************************************************************)
(* Theorems about the peers and their index server, for every value of the *)
(* constants.                                                              *)
(***************************************************************************)
EXTENDS PeerToPeer, DirectoryProofs

-----------------------------------------------------------------------------
(* The peers: what they host is in their directories.                       *)

\* No type of the network is needed: whatever the server answers, the file of
\* the command was looked for, and files are never removed.
HostInv ==
    /\ pc \in [Procs -> PC]
    /\ arg \in [Procs -> Contents \cup {"none"}]
    /\ contentList \in [Procs -> Seq(Contents)]
    /\ snapshot \in [Procs -> SUBSET Contents]
    /\ file \in [DOMAIN Files -> [Contents -> {"none", "whole", "empty"}]]
    /\ \A p \in Procs : pc[p] \in {"register", "search", "fetch", "receive", "register_copy"} =>
                          arg[p] \in Contents
    /\ \A p \in Procs : pc[p] = "register" => file[Dir[p]][arg[p]] # "none"
    /\ HostsFiles

\* A list, a child's list or a command that a step changes is about files of
\* the directory; files stay.
LEMMA FilesStay ==
    ASSUME HostInv,
           pc' \in [Procs -> PC], arg' \in [Procs -> Contents \cup {"none"}],
           contentList' \in [Procs -> Seq(Contents)], snapshot' \in [Procs -> SUBSET Contents],
           file' \in [DOMAIN Files -> [Contents -> {"none", "whole", "empty"}]],
           \A p \in Procs : pc'[p] \in {"register", "search", "fetch", "receive", "register_copy"} =>
                              arg'[p] \in Contents,
           \A p \in Procs : \A c \in Contents :
               file[Dir[p]][c] # "none" => file'[Dir[p]][c] # "none",
           \A p \in Procs : \A c \in ToSet(contentList'[p]) \cup snapshot'[p] :
               c \in ToSet(contentList[p]) \cup snapshot[p] \/ file'[Dir[p]][c] # "none",
           \A p \in Procs : pc'[p] = "register" =>
               (pc[p] = "register" /\ arg'[p] = arg[p]) \/ file'[Dir[p]][arg'[p]] # "none"
    PROVE  HostInv'
  <1>1. \A p \in Procs : ToSet(contentList[p]) \cup snapshot[p] \subseteq Contents
    BY DEF HostInv, ToSet
  <1>2. HostsFiles'
    BY <1>1 DEF HostInv, HostsFiles
  <1>3. \A p \in Procs : pc'[p] = "register" => file'[Dir[p]][arg'[p]] # "none"
    BY DEF HostInv
  <1> QED BY <1>2, <1>3 DEF HostInv

\* Steps that change no file and no list.
LEMMA CommandsStay ==
    ASSUME HostInv, UNCHANGED <<contentList, snapshot, file>>,
           pc' \in [Procs -> PC], arg' \in [Procs -> Contents \cup {"none"}],
           \A p \in Procs : \/ pc'[p] = pc[p] /\ arg'[p] = arg[p]
                            \/ pc'[p] \notin {"register", "search", "fetch", "receive", "register_copy"}
                            \/ /\ arg'[p] \in Contents
                               /\ pc'[p] = "register" => file[Dir[p]][arg'[p]] # "none"
    PROVE  HostInv'
  <1>1. \A p \in Procs : pc'[p] \in {"register", "search", "fetch", "receive", "register_copy"} =>
                           arg'[p] \in Contents
    BY DEF HostInv
  <1> QED BY <1>1, FilesStay DEF HostInv

LEMMA ForkStays ==
    ASSUME HostInv, NEW p \in Procs, Fork(p), contentList' \in [Procs -> Seq(Contents)]
    PROVE  /\ snapshot' \in [Procs -> SUBSET Contents]
           /\ \A q \in Procs : snapshot'[q] \subseteq snapshot[q] \cup ToSet(contentList'[q])
  <1>1. ToSet(contentList'[p]) \subseteq Contents
    BY DEF ToSet
  <1> QED BY <1>1 DEF Fork, HostInv

LEMMA MenuTypes ==
    ASSUME HostInv, NEW p \in Procs, Menu(p)
    PROVE  /\ pc' \in [Procs -> PC] /\ arg' \in [Procs -> Contents \cup {"none"}]
           /\ pc'[p] = "menu"
           /\ \A q \in Procs : q # p => pc'[q] = pc[q] /\ arg'[q] = arg[q]
  BY DEF Menu, HostInv, PC

LEMMA GotoTypes ==
    ASSUME HostInv, NEW p \in Procs, NEW to \in PC, Goto(p, to)
    PROVE  /\ pc' \in [Procs -> PC] /\ arg' = arg /\ pc'[p] = to
           /\ \A q \in Procs : q # p => pc'[q] = pc[q]
  BY DEF Goto, HostInv

LEMMA LeavingHosts ==
    ASSUME HostInv, NEW p \in Procs, NEW n, Leaving(p, n)
    PROVE  HostInv'
  <1>1. /\ pc' \in [Procs -> PC] /\ pc'[p] \in {"quitting", "quit"} /\ UNCHANGED <<arg, file>>
        /\ \A q \in Procs : q # p => pc'[q] = pc[q]
    BY DEF Leaving, HostInv, PC, Waiting
  <1>2. /\ contentList' \in [Procs -> Seq(Contents)] /\ snapshot' \in [Procs -> SUBSET Contents]
        /\ \A q \in Procs : /\ ToSet(contentList'[q]) \subseteq ToSet(contentList[q])
                            /\ snapshot'[q] \subseteq snapshot[q]
    <2>1. CASE UNCHANGED <<contentList, tcp>>
      BY <2>1 DEF HostInv, tcp
    <2>2. CASE contentList' = [contentList EXCEPT ![p] = <<>>]
               /\ snapshot' = [snapshot EXCEPT ![p] = {}]
      BY <2>2 DEF HostInv, ToSet
    <2> QED BY <2>1, <2>2 DEF Leaving
  <1> QED BY <1>1, <1>2, FilesStay DEF HostInv

LEMMA UserHosts ==
    ASSUME HostInv, NEW p \in Procs, User(p)
    PROVE  HostInv'
  <1>1. ASSUME NEW c \in Contents \cup {"none"}, NEW type, NEW to \in Waiting, Ask(p, type, c, to)
        PROVE  /\ pc' \in [Procs -> PC] /\ arg' \in [Procs -> Contents \cup {"none"}]
               /\ pc'[p] = to /\ arg'[p] = c
               /\ \A q \in Procs : q # p => pc'[q] = pc[q] /\ arg'[q] = arg[q]
    BY <1>1 DEF Ask, HostInv, PC
  <1>2. ASSUME NEW c \in Contents, UserRegister(p, c) PROVE HostInv'
    <2>1. /\ Ask(p, "R", c, "register") /\ UNCHANGED <<contentList, snapshot, file>>
          /\ file[Dir[p]][c] # "none"
      BY <1>2 DEF UserRegister, Ask
    <2> QED BY <1>1, <2>1, CommandsStay DEF Waiting
  <1>3. ASSUME NEW c \in Contents, UserDownload(p, c) \/ UserDeregister(p, c) PROVE HostInv'
    <2>1. /\ Ask(p, "S", c, "search") \/ Ask(p, "T", c, "deregister")
          /\ UNCHANGED <<contentList, snapshot, file>>
      BY <1>3 DEF UserDownload, UserDeregister, Ask, tcp
    <2>2. /\ pc' \in [Procs -> PC] /\ arg' \in [Procs -> Contents \cup {"none"}]
          /\ pc'[p] # "register" /\ arg'[p] = c
          /\ \A q \in Procs : q # p => pc'[q] = pc[q] /\ arg'[q] = arg[q]
      BY <1>1, <2>1 DEF Waiting
    <2> QED BY <2>1, <2>2, CommandsStay
  <1>4. CASE UserList(p)
    <2>1. Ask(p, "O", "none", "list") /\ UNCHANGED <<contentList, snapshot, file>>
      BY <1>4 DEF UserList, Ask, tcp
    <2> QED BY <1>1, <2>1, CommandsStay DEF Waiting
  <1>5. CASE UserQuit(p)
    BY <1>5, LeavingHosts DEF UserQuit
  <1>6. CASE EndOfInput(p)
    <2>1. Goto(p, "eof") /\ UNCHANGED <<snapshot, file>>
          /\ contentList' = [contentList EXCEPT ![p] = <<>>]
      BY <1>6 DEF EndOfInput
    <2>2. /\ contentList' \in [Procs -> Seq(Contents)]
          /\ \A q \in Procs : ToSet(contentList'[q]) \subseteq ToSet(contentList[q])
      BY <2>1 DEF HostInv, ToSet
    <2>3. pc' \in [Procs -> PC] /\ arg' = arg /\ pc'[p] = "eof"
          /\ \A q \in Procs : q # p => pc'[q] = pc[q]
      BY <2>1, GotoTypes DEF PC
    <2> QED BY <2>1, <2>2, <2>3, FilesStay DEF HostInv
  <1> QED BY <1>2, <1>3, <1>4, <1>5, <1>6 DEF User

\* A list is longer by the content of a command whose file is there.
LEMMA ListGrows ==
    ASSUME HostInv, NEW p \in Procs, arg[p] \in Contents,
           \/ contentList' = contentList
           \/ contentList' = [contentList EXCEPT ![p] = Append(@, arg[p])]
    PROVE  /\ contentList' \in [Procs -> Seq(Contents)]
           /\ \A q \in Procs : \A c \in ToSet(contentList'[q]) :
                c \in ToSet(contentList[q]) \/ (q = p /\ c = arg[p])
  <1>1. /\ contentList[p] \in Seq(Contents)
        /\ Append(contentList[p], arg[p]) \in Seq(Contents)
        /\ ToSet(Append(contentList[p], arg[p])) = ToSet(contentList[p]) \cup {arg[p]}
    BY AppendElements DEF HostInv
  <1> QED BY <1>1 DEF HostInv

LEMMA AnswerHosts ==
    ASSUME HostInv, NEW p \in Procs, Registered(p) \/ CopyRegistered(p) \/ Deregistered(p)
    PROVE  HostInv'
  <1>1. /\ Menu(p) /\ UNCHANGED file
        /\ pc' \in [Procs -> PC] /\ arg' \in [Procs -> Contents \cup {"none"}]
        /\ pc'[p] = "menu"
        /\ \A q \in Procs : q # p => pc'[q] = pc[q] /\ arg'[q] = arg[q]
    <2>1. Menu(p) /\ UNCHANGED file
      BY DEF Registered, CopyRegistered, Deregistered
    <2> QED BY <2>1, MenuTypes
  <1>2. ASSUME contentList' \in [Procs -> Seq(Contents)],
               Fork(p) \/ UNCHANGED snapshot,
               \A q \in Procs : \A c \in ToSet(contentList'[q]) :
                  c \in ToSet(contentList[q]) \/ file[Dir[q]][c] # "none"
        PROVE  HostInv'
    <2>1. /\ snapshot' \in [Procs -> SUBSET Contents]
          /\ \A q \in Procs : snapshot'[q] \subseteq snapshot[q] \cup ToSet(contentList'[q])
      BY <1>2, ForkStays DEF HostInv
    <2>2. /\ \A q \in Procs : pc'[q] \in {"register", "search", "fetch", "receive", "register_copy"} =>
                arg'[q] \in Contents
          /\ \A q \in Procs : pc'[q] = "register" => pc[q] = "register" /\ arg'[q] = arg[q]
      BY <1>1 DEF HostInv
    <2> QED BY <1>1, <1>2, <2>1, <2>2, FilesStay DEF HostInv
  <1>3. CASE Registered(p)
    <2>1. /\ pc[p] = "register"
          /\ Fork(p) \/ UNCHANGED snapshot
          /\ contentList' = contentList
             \/ contentList' = [contentList EXCEPT ![p] = Append(@, arg[p])]
      BY <1>3 DEF Registered, Take, HostInv
    <2>2. arg[p] \in Contents /\ file[Dir[p]][arg[p]] # "none"
      BY <2>1 DEF HostInv
    <2> QED BY <1>2, <2>1, <2>2, ListGrows
  <1>4. CASE CopyRegistered(p)
    <2>1. UNCHANGED contentList /\ (Fork(p) \/ UNCHANGED snapshot)
      BY <1>4 DEF CopyRegistered
    <2> QED BY <1>2, <2>1 DEF HostInv
  <1>5. CASE Deregistered(p)
    <2>1. UNCHANGED snapshot
      BY <1>5 DEF Deregistered, tcp
    <2>2. CASE UNCHANGED contentList
      BY <1>2, <2>1, <2>2 DEF HostInv
    <2>3. ASSUME NEW k \in Places(p, arg[p]),
                 contentList' = [contentList EXCEPT ![p] = RemoveAt(@, k)]
          PROVE  HostInv'
      <3>1. PICK s \in Seq(Contents) : s = contentList[p] /\ k \in 1..Len(s)
        BY DEF HostInv, Places
      <3>2. RemoveAt(s, k) \in Seq(Contents) /\ ToSet(RemoveAt(s, k)) \subseteq ToSet(s)
        <4>1. /\ RemoveAt(s, k) \in Seq(Contents) /\ Len(RemoveAt(s, k)) = Len(s) - 1
              /\ \A i \in 1..(Len(s) - 1) :
                   RemoveAt(s, k)[i] = IF i < k THEN s[i] ELSE s[i + 1]
          BY <3>1, RemoveAtElements
        <4>2. ASSUME NEW i \in 1..(Len(s) - 1)
              PROVE  i \in 1..Len(s) /\ i + 1 \in 1..Len(s)
          OBVIOUS
        <4> QED BY <4>1, <4>2 DEF ToSet
      <3>3. /\ contentList' \in [Procs -> Seq(Contents)]
            /\ \A q \in Procs : ToSet(contentList'[q]) \subseteq ToSet(contentList[q])
        BY <2>3, <3>1, <3>2 DEF HostInv
      <3> QED BY <1>2, <2>1, <3>3
    <2> QED BY <1>5, <2>2, <2>3 DEF Deregistered
  <1> QED BY <1>3, <1>4, <1>5

LEMMA ContinueHosts ==
    ASSUME HostInv, NEW p \in Procs, Continue(p)
    PROVE  HostInv'
  <1>1. CASE Registered(p) \/ CopyRegistered(p) \/ Deregistered(p)
    BY <1>1, AnswerHosts
  <1>2. CASE Searched(p) \/ DownloadFails(p) \/ Listed(p)
    <2>1. /\ UNCHANGED <<contentList, snapshot, file>>
          /\ \/ Menu(p)
             \/ Goto(p, "fetch") /\ pc[p] = "search"
             \/ UNCHANGED <<pc, arg>>
      BY <1>2 DEF Searched, DownloadFails, Listed, Take, tcp
    <2>2. CASE Menu(p)
      BY <2>1, <2>2, MenuTypes, CommandsStay
    <2>3. CASE Goto(p, "fetch") /\ pc[p] = "search"
      <3>1. "fetch" \in PC /\ arg[p] \in Contents
        BY <2>3 DEF PC, HostInv
      <3>2. /\ pc' \in [Procs -> PC] /\ arg' = arg /\ pc'[p] = "fetch"
            /\ \A q \in Procs : q # p => pc'[q] = pc[q]
        BY <2>3, <3>1, GotoTypes
      <3> QED BY <2>1, <3>1, <3>2, CommandsStay DEF HostInv
    <2>4. CASE UNCHANGED <<pc, arg>>
      BY <2>1, <2>4, CommandsStay DEF HostInv
    <2> QED BY <2>1, <2>2, <2>3, <2>4
  <1>3. CASE OpenCopy(p) \/ DownloadEnds(p)
    <2>1. /\ pc[p] \in {"fetch", "receive"} /\ UNCHANGED snapshot
          /\ Goto(p, "receive") \/ Goto(p, "register_copy")
          /\ \E how \in {"empty", "whole"} :
                file' = [file EXCEPT ![Dir[p]][arg[p]] = how]
          /\ \/ contentList' = contentList
             \/ contentList' = [contentList EXCEPT ![p] = Append(@, arg[p])]
      BY <1>3 DEF OpenCopy, DownloadEnds, tcp, HostInv
    <2>2. arg[p] \in Contents /\ Dir[p] \in DOMAIN Files
      BY <2>1, PeerAssumption DEF HostInv
    <2>3. PICK how \in {"empty", "whole"} : file' = [file EXCEPT ![Dir[p]][arg[p]] = how]
      BY <2>1
    <2>4. /\ file' \in [DOMAIN Files -> [Contents -> {"none", "whole", "empty"}]]
          /\ file'[Dir[p]][arg[p]] # "none"
          /\ \A q \in Procs : \A c \in Contents :
               file[Dir[q]][c] # "none" => file'[Dir[q]][c] # "none"
      <3>1. file' = [file EXCEPT ![Dir[p]] = [file[Dir[p]] EXCEPT ![arg[p]] = how]]
        BY <2>3
      <3>2. /\ [file[Dir[p]] EXCEPT ![arg[p]] = how] \in [Contents -> {"none", "whole", "empty"}]
            /\ \A c \in Contents : [file[Dir[p]] EXCEPT ![arg[p]] = how][c]
                                     = IF c = arg[p] THEN how ELSE file[Dir[p]][c]
        BY <2>2 DEF HostInv
      <3>3. \A q \in Procs : file'[Dir[q]] = IF Dir[q] = Dir[p]
                 THEN [file[Dir[p]] EXCEPT ![arg[p]] = how] ELSE file[Dir[q]]
        BY <3>1, PeerAssumption DEF HostInv
      <3> QED BY <2>2, <3>1, <3>2, <3>3 DEF HostInv
    <2>5. /\ contentList' \in [Procs -> Seq(Contents)]
          /\ \A q \in Procs : \A c \in ToSet(contentList'[q]) :
               c \in ToSet(contentList[q]) \/ (q = p /\ c = arg[p])
      BY <2>1, <2>2, ListGrows
    <2>6. /\ pc' \in [Procs -> PC] /\ arg' = arg /\ pc'[p] \in {"receive", "register_copy"}
          /\ \A q \in Procs : q # p => pc'[q] = pc[q]
      BY <2>1, GotoTypes DEF PC, Waiting
    <2>7. /\ \A q \in Procs : pc'[q] \in {"register", "search", "fetch", "receive", "register_copy"} =>
                arg'[q] \in Contents
          /\ \A q \in Procs : pc'[q] = "register" => pc[q] = "register" /\ arg'[q] = arg[q]
      BY <2>2, <2>6 DEF HostInv
    <2>8. /\ arg' \in [Procs -> Contents \cup {"none"}] /\ snapshot' \in [Procs -> SUBSET Contents]
          /\ \A q \in Procs : \A c \in ToSet(contentList'[q]) \cup snapshot'[q] :
               c \in ToSet(contentList[q]) \cup snapshot[q] \/ file'[Dir[q]][c] # "none"
      BY <2>1, <2>4, <2>5, <2>6 DEF HostInv
    <2> QED BY <2>4, <2>5, <2>6, <2>7, <2>8, FilesStay
  <1>4. CASE Quitting(p)
    BY <1>4, LeavingHosts DEF Quitting
  <1> QED BY <1>1, <1>2, <1>3, <1>4 DEF Continue

LEMMA InitHosts == PInit => HostInv
  <1> SUFFICES ASSUME PInit PROVE HostInv
    OBVIOUS
  <1>1. file \in [DOMAIN Files -> [Contents -> {"none", "whole", "empty"}]]
    BY DEF PInit
  <1>2. \A p \in Procs : pc[p] = "menu" /\ ToSet(contentList[p]) = {} /\ snapshot[p] = {}
    BY DEF PInit, ToSet
  <1> QED BY <1>1, <1>2 DEF PInit, HostInv, HostsFiles, PC

LEMMA NextHosts == HostInv /\ [PNext]_vars => HostInv'
  <1> SUFFICES ASSUME HostInv, [PNext]_vars PROVE HostInv'
    OBVIOUS
  <1>1. CASE UNCHANGED <<pc, arg, contentList, snapshot, file>>
    BY <1>1 DEF HostInv, HostsFiles
  <1>2. ASSUME NEW p \in Procs, Answered(p) \/ Serve(p) \/ Duplicate(p) PROVE HostInv'
    BY <1>1, <1>2 DEF Answered, HostAnswers, Serve, Duplicate, DuplicateRequest, DuplicateAnswer,
                      Deliver, main, tcp
  <1>3. CASE Lose \/ Restart \/ UNCHANGED vars
    BY <1>1, <1>3 DEF Lose, Restart, vars, main, tcp
  <1> QED BY <1>2, <1>3, UserHosts, ContinueHosts DEF PNext

\* Whatever is lost, repeated, reordered or forgotten by a server that is
\* started again, a peer and its child host only files of the directory.
THEOREM HostedFilesExist == PSpec => []HostsFiles
  <1>1. HostInv => HostsFiles
    BY DEF HostInv
  <1> QED BY InitHosts, NextHosts, <1>1, PTL DEF PSpec

-----------------------------------------------------------------------------
(* The types of the whole system, whatever the network does.                *)

Item == [re : {"R", "S", "T", "O", "B"}, datagram : Answer]

\* A request that is about a content names one: the server files it.
MessagesOK ==
    /\ out \in Seq(Answer)
    /\ requests \subseteq Datagram
    /\ \A m \in requests : m.type \in {"R", "S", "T"} => m.content \in Contents
    /\ replies \in [Procs -> Seq(Item)]

\* A list is never longer than its array; while contents are still to be
\* deregistered, the next is in the list; a registration has a socket.
CommandsOK ==
    /\ given \in Nat
    /\ togo \in [Procs -> 0..MaxContent]
    /\ listening \subseteq Procs /\ hosting \subseteq listening
    /\ conn \in [Procs -> [to : Procs \cup {"none"},
                           answer : {"none", "E", "whole", "empty"}]]
    /\ \A p \in Procs :
         /\ Len(contentList[p]) <= MaxContent
         /\ pc[p] = "deregister" => arg[p] \in Contents
         /\ pc[p] = "quitting" => togo[p] \in 1..Len(contentList[p])
         /\ pc[p] \in {"register", "register_copy"} => p \in listening

PeerInv == TableInv /\ HostInv /\ MessagesOK /\ CommandsOK /\ faults \in Conditions

\* The steps of the peers leave the server alone.
LEMMA PeersAreQuiet ==
    ASSUME NEW p \in Procs, User(p) \/ Continue(p) \/ Answered(p)
    PROVE  Quiet
  <1>1. CASE User(p)
    BY <1>1, Zenon DEF User, UserRegister, UserDownload, UserDeregister, UserList, UserQuit,
                EndOfInput, Ask, Leaving
  <1>2. CASE Continue(p)
    BY <1>2, Zenon DEF Continue, Registered, Searched, OpenCopy, DownloadFails, DownloadEnds,
                CopyRegistered, Listed, Deregistered, Quitting, Leaving
  <1>3. CASE Answered(p)
    BY <1>3, Zenon DEF Answered, HostAnswers
  <1> QED BY <1>1, <1>2, <1>3

\* A request handled is a step of the server, and is answered from its sender's
\* place.
LEMMA HandleIsNext ==
    ASSUME MessagesOK, NEW m \in requests, Handle(m)
    PROVE  Next
  <1>1. /\ m \in Datagram /\ m.from \in Procs
        /\ m.type \in {"R", "S", "T"} => m.content \in Contents
    BY DEF MessagesOK, Datagram
  <1>2. Host[m.from] \in Ips /\ Name[m.from] \in Names /\ Port[m.from] \in Ports
    BY <1>1, PeerAssumption
  <1> QED BY <1>1, <1>2, Zenon DEF Handle, Next

LEMMA DeliverTypes ==
    ASSUME TableInv, MessagesOK, NEW m \in requests, Deliver(m)
    PROVE  /\ TableInv' /\ out' \in Seq(Answer)
           /\ replies' \in [Procs -> Seq(Item)]
  <1>1. Next
    BY HandleIsNext DEF Deliver
  <1>2. TableInv'
    BY <1>1, NextTable
  <1>3. out' \in Seq(Answer)
    BY <1>1, NextAnswers DEF TableInv
  <1>4. replies' \in [Procs -> Seq(Item)]
    <2>1. CASE replies' = replies
      BY <2>1 DEF MessagesOK
    <2> DEFINE new == [k \in 1..Len(out') |-> [re |-> m.type, datagram |-> out'[k]]]
    <2>2. CASE replies' = [replies EXCEPT ![m.from] = @ \o new]
      <3>1. m.type \in {"R", "S", "T", "O", "B"} /\ m.from \in Procs
        BY DEF MessagesOK, Datagram
      <3>2. new \in Seq(Item)
        <4>1. PICK s \in Seq(Answer) : s = out'
          BY <1>3
        <4>2. [k \in 1..Len(s) |-> [re |-> m.type, datagram |-> s[k]]] \in Seq(Item)
          BY <3>1 DEF Item
        <4> QED BY <4>1, <4>2
      <3> HIDE DEF new
      <3>3. replies[m.from] \o new \in Seq(Item)
        BY <3>1, <3>2 DEF MessagesOK
      <3> QED BY <2>2, <3>3 DEF MessagesOK
    <2> QED BY <2>1, <2>2 DEF Deliver
  <1> QED BY <1>2, <1>3, <1>4

\* A datagram taken or lost.
LEMMA ReplyGone ==
    ASSUME MessagesOK, NEW p \in Procs, NEW k \in 1..Len(replies[p]),
           replies' = [replies EXCEPT ![p] = RemoveAt(@, k)]
    PROVE  replies' \in [Procs -> Seq(Item)]
  <1>1. PICK s \in Seq(Item) : s = replies[p] /\ k \in 1..Len(s)
    BY DEF MessagesOK
  <1>2. RemoveAt(s, k) \in Seq(Item)
    BY <1>1, RemoveAtElements
  <1> QED BY <1>1, <1>2 DEF MessagesOK

LEMMA SendTypes ==
    ASSUME MessagesOK, NEW p \in Procs, NEW type \in {"R", "S", "T", "O", "B"},
           NEW c \in Contents \cup {"none"}, type \in {"R", "S", "T"} => c \in Contents,
           Send(p, type, c)
    PROVE  /\ requests' \subseteq Datagram
           /\ \A m \in requests' : m.type \in {"R", "S", "T"} => m.content \in Contents
  BY DEF Send, MessagesOK, Datagram

LEMMA LeavingTypes ==
    ASSUME PeerInv, NEW p \in Procs, NEW n \in 0..Len(contentList[p]), Leaving(p, n)
    PROVE  /\ requests' \subseteq Datagram
           /\ \A m \in requests' : m.type \in {"R", "S", "T"} => m.content \in Contents
           /\ togo' \in [Procs -> 0..MaxContent]
           /\ listening' \subseteq Procs /\ hosting' \subseteq listening' /\ UNCHANGED conn
           /\ \A q \in Procs :
                /\ Len(contentList'[q]) <= MaxContent
                /\ pc'[q] = "deregister" => arg'[q] \in Contents
                /\ pc'[q] = "quitting" => togo'[q] \in 1..Len(contentList'[q])
                /\ pc'[q] \in {"register", "register_copy"} => q \in listening'
  <1>1. PICK s \in Seq(Contents) : s = contentList[p] /\ Len(s) <= MaxContent /\ n \in 0..Len(s)
    BY DEF PeerInv, HostInv, CommandsOK
  <1>2. n \in 0..MaxContent /\ MaxContent \in Nat
    BY <1>1, DirectoryAssumption
  <1>3. togo' \in [Procs -> 0..MaxContent] /\ togo'[p] = n
        /\ (\A q \in Procs : q # p => togo'[q] = togo[q]) /\ UNCHANGED arg
    BY <1>2 DEF Leaving, PeerInv, CommandsOK
  <1>4. CASE /\ n > 0 /\ Send(p, "T", contentList[p][n])
             /\ pc' = [pc EXCEPT ![p] = "quitting"] /\ UNCHANGED <<contentList, tcp>>
    <2>1. contentList[p][n] \in Contents
      BY <1>1, <1>4
    <2>2. /\ requests' \subseteq Datagram
          /\ \A m \in requests' : m.type \in {"R", "S", "T"} => m.content \in Contents
      BY <1>4, <2>1, SendTypes DEF PeerInv
    <2>3. /\ pc'[p] = "quitting" /\ \A q \in Procs : q # p => pc'[q] = pc[q]
      BY <1>4 DEF PeerInv, HostInv
    <2>4. n \in 1..Len(contentList[p])
      BY <1>1, <1>4
    <2> QED BY <1>3, <1>4, <2>2, <2>3, <2>4 DEF PeerInv, CommandsOK, tcp
  <1>5. CASE /\ n = 0 /\ Send(p, "B", "none")
             /\ pc' = [pc EXCEPT ![p] = "quit"]
             /\ contentList' = [contentList EXCEPT ![p] = <<>>]
             /\ listening' = listening \ {p} /\ hosting' = hosting \ {p} /\ UNCHANGED conn
    <2>1. /\ requests' \subseteq Datagram
          /\ \A m \in requests' : m.type \in {"R", "S", "T"} => m.content \in Contents
      BY <1>5, SendTypes DEF PeerInv
    <2>2. /\ pc'[p] = "quit" /\ \A q \in Procs : q # p => pc'[q] = pc[q]
          /\ contentList'[p] = <<>> /\ \A q \in Procs : q # p => contentList'[q] = contentList[q]
      BY <1>5 DEF PeerInv, HostInv
    <2>3. Len(contentList'[p]) <= MaxContent
      BY <1>2, <2>2
    <2> QED BY <1>3, <1>5, <2>1, <2>2, <2>3 DEF PeerInv, CommandsOK
  <1> QED BY <1>4, <1>5 DEF Leaving

\* A step of p that is not about leaving.
LEMMA CommandsKept ==
    ASSUME PeerInv, NEW p \in Procs, given' \in Nat, UNCHANGED togo,
           listening' \subseteq Procs, hosting' \subseteq listening',
           \A q \in Procs : q # p /\ q \in listening => q \in listening',
           conn' \in [Procs -> [to : Procs \cup {"none"},
                                answer : {"none", "E", "whole", "empty"}]],
           \A q \in Procs : q # p => /\ pc'[q] = pc[q] /\ arg'[q] = arg[q]
                                     /\ contentList'[q] = contentList[q],
           Len(contentList'[p]) <= MaxContent,
           pc'[p] = "deregister" => arg'[p] \in Contents,
           pc'[p] # "quitting",
           pc'[p] \in {"register", "register_copy"} => p \in listening'
    PROVE  CommandsOK'
  <1>1. togo' \in [Procs -> 0..MaxContent]
    BY DEF PeerInv, CommandsOK
  <1>2. ASSUME NEW q \in Procs
        PROVE  /\ Len(contentList'[q]) <= MaxContent
               /\ pc'[q] = "deregister" => arg'[q] \in Contents
               /\ pc'[q] = "quitting" => togo'[q] \in 1..Len(contentList'[q])
               /\ pc'[q] \in {"register", "register_copy"} => q \in listening'
    <2>1. CASE q = p
      BY <2>1
    <2>2. CASE q # p
      BY <2>2 DEF PeerInv, CommandsOK
    <2> QED BY <2>1, <2>2
  <1> QED BY <1>1, <1>2 DEF CommandsOK

LEMMA UserTypes ==
    ASSUME PeerInv, NEW p \in Procs, User(p)
    PROVE  MessagesOK' /\ CommandsOK'
  <1>1. out' \in Seq(Answer)
    <2>1. out' = <<>>
      BY PeersAreQuiet DEF Quiet
    <2> QED BY <2>1
  <1>2. ASSUME NEW type \in {"R", "S", "T", "O", "B"}, NEW c \in Contents \cup {"none"},
               type \in {"R", "S", "T"} => c \in Contents,
               NEW to \in Waiting \ {"quitting", "register_copy"},
               Ask(p, type, c, to), to = "deregister" => c \in Contents,
               listening' = listening \cup {p} \/ (listening' = listening /\ to # "register"),
               UNCHANGED <<hosting, conn>>
        PROVE  MessagesOK' /\ CommandsOK'
    <2>1. /\ requests' \subseteq Datagram
          /\ \A m \in requests' : m.type \in {"R", "S", "T"} => m.content \in Contents
      BY <1>2, SendTypes DEF Ask, PeerInv
    <2>2. MessagesOK'
      BY <1>1, <1>2, <2>1 DEF Ask, MessagesOK, PeerInv
    <2>3. /\ pc'[p] = to /\ arg'[p] = c /\ UNCHANGED <<contentList, togo>>
          /\ \A q \in Procs : q # p => pc'[q] = pc[q] /\ arg'[q] = arg[q]
      BY <1>2 DEF Ask, PeerInv, HostInv
    <2>4. given' \in Nat
      BY <1>2, PeerAssumption DEF Ask, PeerInv, CommandsOK
    <2>5. /\ listening' \subseteq Procs /\ hosting' \subseteq listening'
          /\ \A q \in Procs : q # p /\ q \in listening => q \in listening'
          /\ to \in {"register", "register_copy"} => p \in listening'
      BY <1>2 DEF PeerInv, CommandsOK
    <2>6. conn' \in [Procs -> [to : Procs \cup {"none"},
                               answer : {"none", "E", "whole", "empty"}]]
          /\ Len(contentList'[p]) <= MaxContent
      BY <1>2, <2>3 DEF PeerInv, CommandsOK
    <2>7. CommandsOK'
      BY <1>2, <2>3, <2>4, <2>5, <2>6, CommandsKept
    <2> QED BY <2>2, <2>7
  <1>3. ASSUME NEW c \in Contents, UserRegister(p, c) PROVE MessagesOK' /\ CommandsOK'
    BY <1>2, <1>3 DEF UserRegister, Waiting
  <1>4. ASSUME NEW c \in Contents, UserDownload(p, c) PROVE MessagesOK' /\ CommandsOK'
    BY <1>2, <1>4 DEF UserDownload, Waiting, tcp
  <1>5. ASSUME NEW c \in Contents, UserDeregister(p, c) PROVE MessagesOK' /\ CommandsOK'
    BY <1>2, <1>5 DEF UserDeregister, Waiting, tcp
  <1>6. CASE UserList(p)
    BY <1>2, <1>6 DEF UserList, Waiting, tcp
  <1>7. CASE UserQuit(p)
    <2>1. Len(contentList[p]) \in 0..Len(contentList[p])
      <3>1. Len(contentList[p]) \in Nat
        BY DEF PeerInv, HostInv
      <3> QED BY <3>1
    <2>2. MessagesOK'
      BY <1>1, <1>7, <2>1, LeavingTypes DEF UserQuit, MessagesOK, PeerInv
    <2>3. given' \in Nat
      BY <1>7, PeerAssumption DEF UserQuit, PeerInv, CommandsOK
    <2>4. conn' \in [Procs -> [to : Procs \cup {"none"},
                               answer : {"none", "E", "whole", "empty"}]]
      BY <1>7, <2>1, LeavingTypes DEF UserQuit, PeerInv, CommandsOK
    <2> QED BY <1>7, <2>1, <2>2, <2>3, <2>4, LeavingTypes DEF UserQuit, CommandsOK
  <1>8. CASE EndOfInput(p)
    <2>1. MessagesOK'
      BY <1>1, <1>8 DEF EndOfInput, network, MessagesOK, PeerInv
    <2>2. /\ pc'[p] = "eof" /\ contentList'[p] = <<>> /\ UNCHANGED <<arg, given, togo, conn>>
          /\ \A q \in Procs : q # p => /\ pc'[q] = pc[q] /\ arg'[q] = arg[q]
                                       /\ contentList'[q] = contentList[q]
      BY <1>8 DEF EndOfInput, Goto, PeerInv, HostInv
    <2>3. Len(contentList'[p]) <= MaxContent
      BY <2>2, DirectoryAssumption
    <2>4. /\ listening' \subseteq Procs /\ hosting' \subseteq listening'
          /\ \A q \in Procs : q # p /\ q \in listening => q \in listening'
      BY <1>8 DEF EndOfInput, PeerInv, CommandsOK
    <2> QED BY <2>1, <2>2, <2>3, <2>4, CommandsKept DEF PeerInv, CommandsOK
  <1> QED BY <1>3, <1>4, <1>5, <1>6, <1>7, <1>8 DEF User

\* What p takes goes out of its queue.
LEMMA TakeTypes ==
    ASSUME PeerInv, NEW p \in Procs, NEW state, NEW r, Take(p, state, r)
    PROVE  /\ replies' \in [Procs -> Seq(Item)] /\ pc[p] = state
           /\ \E k \in 1..Len(replies[p]) : r = replies[p][k].datagram
  <1>1. PICK k \in 1..Len(replies[p]) :
          r = replies[p][k].datagram /\ replies' = [replies EXCEPT ![p] = RemoveAt(@, k)]
    BY DEF Take
  <1> QED BY <1>1, ReplyGone DEF Take, PeerInv

\* The list that a command leaves is no longer than the array.
LEMMA ListFits ==
    ASSUME PeerInv, NEW p \in Procs, arg[p] \in Contents,
           \/ contentList' = contentList
           \/ /\ Len(contentList[p]) < MaxContent
              /\ contentList' = [contentList EXCEPT ![p] = Append(@, arg[p])]
           \/ \E k \in 1..Len(contentList[p]) :
                contentList' = [contentList EXCEPT ![p] = RemoveAt(@, k)]
    PROVE  /\ Len(contentList'[p]) <= MaxContent
           /\ \A q \in Procs : q # p => contentList'[q] = contentList[q]
  <1>1. PICK s \in Seq(Contents) : s = contentList[p] /\ Len(s) <= MaxContent
    BY DEF PeerInv, HostInv, CommandsOK
  <1>2. CASE contentList' = contentList
    BY <1>1, <1>2
  <1>3. CASE /\ Len(contentList[p]) < MaxContent
             /\ contentList' = [contentList EXCEPT ![p] = Append(@, arg[p])]
    <2>1. contentList'[p] = Append(s, arg[p]) /\ Len(s) < MaxContent
      BY <1>1, <1>3 DEF PeerInv, HostInv
    <2>2. Len(contentList'[p]) = Len(s) + 1
      BY <2>1
    <2> QED BY <1>3, <2>1, <2>2, DirectoryAssumption DEF PeerInv, HostInv
  <1>4. ASSUME NEW k \in 1..Len(contentList[p]),
               contentList' = [contentList EXCEPT ![p] = RemoveAt(@, k)]
        PROVE  /\ Len(contentList'[p]) <= MaxContent
               /\ \A q \in Procs : q # p => contentList'[q] = contentList[q]
    <2>1. contentList'[p] = RemoveAt(s, k) /\ k \in 1..Len(s)
      BY <1>1, <1>4 DEF PeerInv, HostInv
    <2>2. Len(contentList'[p]) = Len(s) - 1
      BY <2>1, RemoveAtElements
    <2> QED BY <1>1, <1>4, <2>2, DirectoryAssumption DEF PeerInv, HostInv
  <1> QED BY <1>2, <1>3, <1>4

LEMMA ContinueTypes ==
    ASSUME PeerInv, NEW p \in Procs, Continue(p)
    PROVE  MessagesOK' /\ CommandsOK'
  <1> DEFINE Conns == [to : Procs \cup {"none"}, answer : {"none", "E", "whole", "empty"}]
  <1>1. out' \in Seq(Answer)
    <2>1. out' = <<>>
      BY PeersAreQuiet DEF Quiet
    <2> QED BY <2>1
  <1>2. ASSUME UNCHANGED requests, replies' \in [Procs -> Seq(Item)]
        PROVE  MessagesOK'
    BY <1>1, <1>2 DEF MessagesOK, PeerInv
  <1>3. ASSUME NEW q \in Procs, q # p, NEW to \in PC, Menu(p) \/ Goto(p, to)
        PROVE  pc'[q] = pc[q] /\ arg'[q] = arg[q]
    BY <1>3 DEF Menu, Goto, PeerInv, HostInv
  <1>4. /\ given \in Nat /\ conn \in [Procs -> Conns]
        /\ listening \subseteq Procs /\ hosting \subseteq listening
        /\ Len(contentList[p]) <= MaxContent
    BY DEF PeerInv, CommandsOK
  <1>5. ASSUME Menu(p), UNCHANGED <<togo, listening>>,
               hosting' = hosting \/ (hosting' = hosting \cup {p} /\ p \in listening),
               conn' \in [Procs -> Conns], Len(contentList'[p]) <= MaxContent,
               \A q \in Procs : q # p => contentList'[q] = contentList[q]
        PROVE  CommandsOK'
    <2>1. pc'[p] = "menu" /\ given' = given
      BY <1>5 DEF Menu, PeerInv, HostInv
    <2>2. \A q \in Procs : q # p => pc'[q] = pc[q] /\ arg'[q] = arg[q]
      BY <1>3, <1>5 DEF PC
    <2> QED BY <1>4, <1>5, <2>1, <2>2, CommandsKept
  <1>6. CASE Registered(p)
    <2>1. PICK r \in Received(p) :
            /\ Take(p, "register", r)
            /\ \/ r.type = "E" /\ UNCHANGED <<contentList, hosting, snapshot>>
               \/ /\ r.type # "E"
                  /\ contentList' = [contentList EXCEPT ![p] =
                                       IF Len(@) < MaxContent THEN Append(@, arg[p]) ELSE @]
                  /\ Fork(p)
      BY <1>6 DEF Registered
    <2>2. Menu(p) /\ UNCHANGED <<requests, togo, listening, conn>>
      BY <1>6 DEF Registered
    <2>3. replies' \in [Procs -> Seq(Item)] /\ pc[p] = "register"
      BY <2>1, TakeTypes
    <2>4. arg[p] \in Contents /\ p \in listening
      BY <2>3 DEF PeerInv, HostInv, CommandsOK
    <2>5. \/ contentList' = contentList
          \/ /\ Len(contentList[p]) < MaxContent
             /\ contentList' = [contentList EXCEPT ![p] = Append(@, arg[p])]
      BY <2>1 DEF PeerInv, HostInv
    <2>6. hosting' = hosting \/ hosting' = hosting \cup {p}
      BY <2>1 DEF Fork
    <2>7. /\ Len(contentList'[p]) <= MaxContent
          /\ \A q \in Procs : q # p => contentList'[q] = contentList[q]
      BY <2>4, <2>5, ListFits
    <2> QED BY <1>2, <1>4, <1>5, <2>2, <2>3, <2>4, <2>6, <2>7
  <1>7. CASE Searched(p)
    <2>1. PICK r \in Received(p) :
            /\ Take(p, "search", r)
            /\ \/ Menu(p) /\ UNCHANGED conn
               \/ \E q \in Listeners(r) :
                    /\ Goto(p, "fetch")
                    /\ conn' = [conn EXCEPT ![p] = [to |-> q, answer |-> "none"]]
      BY <1>7 DEF Searched
    <2>2. UNCHANGED <<requests, contentList, togo, listening, hosting>>
      BY <1>7 DEF Searched
    <2>3. replies' \in [Procs -> Seq(Item)]
      BY <2>1, TakeTypes
    <2>4. CASE Menu(p) /\ UNCHANGED conn
      BY <1>2, <1>4, <1>5, <2>2, <2>3, <2>4
    <2>5. ASSUME NEW q \in Listeners(r), Goto(p, "fetch"),
                 conn' = [conn EXCEPT ![p] = [to |-> q, answer |-> "none"]]
          PROVE  MessagesOK' /\ CommandsOK'
      <3>1. q \in Procs
        BY <1>4 DEF Listeners
      <3>2. conn' \in [Procs -> Conns]
        BY <1>4, <2>5, <3>1
      <3>3. pc'[p] = "fetch" /\ given' = given
        BY <2>5 DEF Goto, PeerInv, HostInv
      <3>4. \A x \in Procs : x # p => pc'[x] = pc[x] /\ arg'[x] = arg[x]
        BY <1>3, <2>5 DEF PC
      <3>5. CommandsOK'
        BY <1>4, <2>2, <3>2, <3>3, <3>4, CommandsKept
      <3> QED BY <1>2, <2>2, <2>3, <3>5
    <2> QED BY <2>1, <2>4, <2>5
  <1>8. CASE OpenCopy(p)
    <2>1. /\ Goto(p, "receive")
          /\ UNCHANGED <<requests, replies, contentList, togo, listening, hosting, conn>>
      BY <1>8 DEF OpenCopy, network, tcp
    <2>2. pc'[p] = "receive" /\ given' = given
      BY <2>1 DEF Goto, PeerInv, HostInv
    <2>3. \A x \in Procs : x # p => pc'[x] = pc[x] /\ arg'[x] = arg[x]
      BY <1>3, <2>1 DEF PC
    <2>4. CommandsOK'
      BY <1>4, <2>1, <2>2, <2>3, CommandsKept
    <2> QED BY <1>2, <2>1, <2>4 DEF PeerInv, MessagesOK
  <1>9. CASE DownloadFails(p)
    <2>1. /\ Menu(p) /\ conn' = [conn EXCEPT ![p] = NoConn]
          /\ UNCHANGED <<requests, replies, contentList, togo, listening, hosting>>
      BY <1>9 DEF DownloadFails, network
    <2>2. conn' \in [Procs -> Conns]
      BY <1>4, <2>1 DEF NoConn
    <2> QED BY <1>2, <1>4, <1>5, <2>1, <2>2 DEF PeerInv, MessagesOK
  <1>10. CASE DownloadEnds(p)
    <2>1. /\ pc[p] = "receive"
          /\ contentList' = [contentList EXCEPT ![p] =
                               IF arg[p] \in ToSet(@) \/ Len(@) >= MaxContent THEN @
                               ELSE Append(@, arg[p])]
          /\ Send(p, "R", arg[p]) /\ Goto(p, "register_copy")
          /\ conn' = [conn EXCEPT ![p] = NoConn]
          /\ listening' = listening \cup {p}
          /\ UNCHANGED <<replies, togo, hosting>>
      BY <1>10 DEF DownloadEnds
    <2>2. arg[p] \in Contents
      BY <2>1 DEF PeerInv, HostInv
    <2>3. MessagesOK'
      <3>1. /\ requests' \subseteq Datagram
            /\ \A m \in requests' : m.type \in {"R", "S", "T"} => m.content \in Contents
        BY <2>1, <2>2, SendTypes DEF PeerInv
      <3> QED BY <1>1, <2>1, <3>1 DEF PeerInv, MessagesOK
    <2>4. \/ contentList' = contentList
          \/ /\ Len(contentList[p]) < MaxContent
             /\ contentList' = [contentList EXCEPT ![p] = Append(@, arg[p])]
      <3>1. Len(contentList[p]) \in Nat
        BY DEF PeerInv, HostInv
      <3>2. ~(Len(contentList[p]) >= MaxContent) => Len(contentList[p]) < MaxContent
        BY <3>1, DirectoryAssumption
      <3> QED BY <2>1, <3>2 DEF PeerInv, HostInv
    <2>5. /\ Len(contentList'[p]) <= MaxContent
          /\ \A q \in Procs : q # p => contentList'[q] = contentList[q]
      BY <2>2, <2>4, ListFits
    <2>6. pc'[p] = "register_copy" /\ given' = given
      BY <2>1 DEF Goto, PeerInv, HostInv
    <2>7. \A x \in Procs : x # p => pc'[x] = pc[x] /\ arg'[x] = arg[x]
      BY <1>3, <2>1 DEF PC, Waiting
    <2>8. conn' \in [Procs -> Conns]
      BY <1>4, <2>1 DEF NoConn
    <2>9. /\ listening' \subseteq Procs /\ hosting' \subseteq listening' /\ p \in listening'
          /\ \A q \in Procs : q # p /\ q \in listening => q \in listening'
      BY <1>4, <2>1
    <2>10. CommandsOK'
      BY <1>4, <2>1, <2>5, <2>6, <2>7, <2>8, <2>9, CommandsKept
    <2> QED BY <2>3, <2>10
  <1>11. CASE CopyRegistered(p)
    <2>1. PICK r : Take(p, "register_copy", r)
      BY <1>11 DEF CopyRegistered
    <2>2. /\ Menu(p) /\ UNCHANGED <<requests, contentList, togo, listening, conn>>
          /\ hosting' = hosting \/ hosting' = hosting \cup {p}
      BY <1>11 DEF CopyRegistered, Fork
    <2>3. replies' \in [Procs -> Seq(Item)] /\ pc[p] = "register_copy"
      BY <2>1, TakeTypes
    <2>4. p \in listening
      BY <2>3 DEF PeerInv, CommandsOK
    <2> QED BY <1>2, <1>4, <1>5, <2>2, <2>3, <2>4
  <1>12. CASE Listed(p)
    <2>1. PICK r : Take(p, "list", r)
      BY <1>12 DEF Listed
    <2>2. /\ UNCHANGED <<requests, contentList, togo, listening, hosting, conn>>
          /\ Menu(p) \/ UNCHANGED <<pc, arg, given>>
      BY <1>12 DEF Listed, tcp
    <2>3. replies' \in [Procs -> Seq(Item)]
      BY <2>1, TakeTypes
    <2>4. CASE Menu(p)
      BY <1>2, <1>4, <1>5, <2>2, <2>3, <2>4
    <2>5. CASE UNCHANGED <<pc, arg, given>>
      BY <1>2, <2>2, <2>3, <2>5 DEF PeerInv, CommandsOK
    <2> QED BY <2>2, <2>4, <2>5
  <1>13. CASE Deregistered(p)
    <2>1. PICK r : Take(p, "deregister", r)
      BY <1>13 DEF Deregistered
    <2>2. /\ Menu(p) /\ UNCHANGED <<requests, togo, listening, hosting, conn>>
          /\ \/ contentList' = contentList
             \/ \E k \in Places(p, arg[p]) :
                  contentList' = [contentList EXCEPT ![p] = RemoveAt(@, k)]
      BY <1>13 DEF Deregistered, tcp
    <2>3. replies' \in [Procs -> Seq(Item)] /\ pc[p] = "deregister"
      BY <2>1, TakeTypes
    <2>4. \A k \in Places(p, arg[p]) : k \in 1..Len(contentList[p])
      <3>1. contentList[p] \in Seq(Contents)
        BY DEF PeerInv, HostInv
      <3> QED BY <3>1 DEF Places
    <2>5. arg[p] \in Contents
      BY <2>3 DEF PeerInv, CommandsOK
    <2>6. \/ contentList' = contentList
          \/ \E k \in 1..Len(contentList[p]) :
                  contentList' = [contentList EXCEPT ![p] = RemoveAt(@, k)]
      BY <2>2, <2>4
    <2>7. /\ Len(contentList'[p]) <= MaxContent
          /\ \A q \in Procs : q # p => contentList'[q] = contentList[q]
      BY <2>5, <2>6, ListFits
    <2> QED BY <1>2, <1>4, <1>5, <2>2, <2>3, <2>7
  <1>14. CASE Quitting(p)
    <2>1. PICK r : Take(p, "quitting", r)
      BY <1>14 DEF Quitting
    <2>2. Leaving(p, togo[p] - 1) /\ UNCHANGED given
      BY <1>14 DEF Quitting
    <2>3. replies' \in [Procs -> Seq(Item)] /\ pc[p] = "quitting"
      BY <2>1, TakeTypes
    <2>4. togo[p] - 1 \in 0..Len(contentList[p])
      <3>1. Len(contentList[p]) \in Nat /\ togo[p] \in 1..Len(contentList[p])
        BY <2>3 DEF PeerInv, HostInv, CommandsOK
      <3> QED BY <3>1
    <2>5. MessagesOK'
      BY <1>1, <2>2, <2>3, <2>4, LeavingTypes DEF MessagesOK
    <2>6. CommandsOK'
      BY <1>4, <2>2, <2>4, LeavingTypes DEF CommandsOK
    <2> QED BY <2>5, <2>6
  <1> QED BY <1>6, <1>7, <1>8, <1>9, <1>10, <1>11, <1>12, <1>13, <1>14 DEF Continue

\* The table of a server that is started again is that of the first start.
LEMMA EmptyTable ==
    ASSUME peers' = [i \in Slots |-> Cleared], npeers' = 0
    PROVE  TableInv'
  <1>1. \A i \in Slots : peers'[i] = Cleared /\ ~peers'[i].in_use
    BY ClearedWhole
  <1>2. TableTypeOK'
    BY ClearedWhole DEF TableTypeOK
  <1>3. {i \in Slots : peers'[i].in_use} = {}
    BY <1>1
  <1>4. NpeersCounts'
    BY <1>3, FS_EmptySet DEF NpeersCounts
  <1>5. EntriesWhole'
    BY <1>1, ClearedWhole DEF EntriesWhole
  <1>6. NamesUnique'
    BY <1>1 DEF NamesUnique
  <1> QED BY <1>2, <1>4, <1>5, <1>6 DEF TableInv

LEMMA InitPeers == PInit => PeerInv
  <1> SUFFICES ASSUME PInit PROVE PeerInv
    OBVIOUS
  <1>1. TableInv /\ HostInv
    BY InitTable, InitHosts DEF PInit
  <1>2. MessagesOK
    <2>1. <<>> \in Seq(Answer) /\ <<>> \in Seq(Item)
      OBVIOUS
    <2> QED BY <2>1 DEF PInit, Init, MessagesOK
  <1>3. CommandsOK
    <2>1. \A p \in Procs : contentList[p] = <<>> /\ pc[p] = "menu"
      BY DEF PInit
    <2>2. \A p \in Procs : Len(contentList[p]) <= MaxContent
      BY <2>1, DirectoryAssumption
    <2>3. given \in Nat /\ togo \in [Procs -> 0..MaxContent]
      BY PeerAssumption, DirectoryAssumption DEF PInit
    <2> QED BY <2>1, <2>2, <2>3 DEF PInit, CommandsOK, NoConn
  <1>4. faults \in Conditions
    BY DEF PInit
  <1> QED BY <1>1, <1>2, <1>3, <1>4 DEF PeerInv

\* What the faults of a behaviour are does not change.
LEMMA FaultsStay ==
    ASSUME [PNext]_vars
    PROVE  faults' = faults
  <1>1. ASSUME NEW p \in Procs,
               User(p) \/ Continue(p) \/ Answered(p) \/ Serve(p) \/ Duplicate(p)
        PROVE  faults' = faults
    <2>1. CASE User(p) \/ Continue(p) \/ Answered(p)
      BY <2>1, PeersAreQuiet DEF Quiet
    <2>2. CASE Serve(p) \/ Duplicate(p)
      BY <2>2 DEF Serve, Duplicate, DuplicateRequest, DuplicateAnswer, Deliver, Quiet
    <2> QED BY <1>1, <2>1, <2>2
  <1>2. CASE Lose \/ Restart \/ UNCHANGED vars
    BY <1>2 DEF Lose, Restart, Quiet, vars
  <1> QED BY <1>1, <1>2 DEF PNext

LEMMA NextPeers == PeerInv /\ [PNext]_vars => PeerInv'
  <1> SUFFICES ASSUME PeerInv, [PNext]_vars PROVE PeerInv'
    OBVIOUS
  <1>1. HostInv' /\ (faults \in Conditions)'
    BY NextHosts, FaultsStay DEF PeerInv
  <1>2. ASSUME UNCHANGED <<peers, npeers>> PROVE TableInv'
    BY <1>2 DEF PeerInv, TableInv, TableTypeOK, NamesUnique, EntriesWhole, NpeersCounts
  <1>3. ASSUME UNCHANGED <<main, tcp>> PROVE CommandsOK'
    BY <1>3 DEF PeerInv, CommandsOK, main, tcp
  <1>4. ASSUME NEW p \in Procs, User(p) \/ Continue(p) PROVE PeerInv'
    <2>1. TableInv'
      BY <1>2, <1>4, PeersAreQuiet DEF Quiet
    <2> QED BY <1>1, <1>4, <2>1, UserTypes, ContinueTypes DEF PeerInv
  <1>5. ASSUME NEW p \in Procs, Answered(p) PROVE PeerInv'
    <2>1. TableInv' /\ out' = <<>>
      BY <1>2, <1>5, PeersAreQuiet DEF Quiet
    <2>2. MessagesOK'
      BY <1>5, <2>1 DEF Answered, HostAnswers, network, PeerInv, MessagesOK
    <2>3. PICK q \in Procs : HostAnswers(q, p)
      BY <1>5 DEF Answered
    <2>4. PICK a \in {"E", "whole", "empty"} : conn' = [conn EXCEPT ![p].answer = a]
      <3>1. CASE arg[p] \in snapshot[q] /\ file[Dir[q]][arg[p]] # "none"
        <4>1. arg[p] \in Contents /\ Dir[q] \in DOMAIN Files
          BY <3>1, PeerAssumption DEF PeerInv, HostInv
        <4>2. file[Dir[q]][arg[p]] \in {"whole", "empty"}
          BY <3>1, <4>1 DEF PeerInv, HostInv
        <4> QED BY <2>3, <3>1, <4>2 DEF HostAnswers
      <3>2. CASE ~(arg[p] \in snapshot[q] /\ file[Dir[q]][arg[p]] # "none")
        BY <2>3, <3>2 DEF HostAnswers
      <3> QED BY <3>1, <3>2
    <2>5. UNCHANGED <<main, listening, hosting>>
      BY <2>3 DEF HostAnswers
    <2>6. conn' \in [Procs -> [to : Procs \cup {"none"},
                               answer : {"none", "E", "whole", "empty"}]]
      BY <2>4 DEF PeerInv, CommandsOK
    <2>7. CommandsOK'
      BY <2>5, <2>6 DEF main, PeerInv, CommandsOK
    <2> QED BY <1>1, <2>1, <2>2, <2>7 DEF PeerInv
  <1>6. ASSUME NEW p \in Procs, Serve(p) \/ DuplicateRequest(p) PROVE PeerInv'
    <2>1. PICK m \in requests : Deliver(m)
      BY <1>6 DEF Serve, DuplicateRequest
    <2>2. requests' \subseteq requests
      BY <1>6 DEF Serve, DuplicateRequest
    <2>3. TableInv' /\ MessagesOK'
      BY <2>1, <2>2, DeliverTypes DEF PeerInv, MessagesOK
    <2> QED BY <1>1, <1>3, <2>1, <2>3 DEF Deliver, PeerInv
  <1>10. ASSUME NEW p \in Procs, DuplicateAnswer(p) PROVE PeerInv'
    <2>1. TableInv' /\ out' = <<>> /\ CommandsOK'
      BY <1>2, <1>3, <1>10 DEF DuplicateAnswer, Quiet
    <2>2. replies' \in [Procs -> Seq(Item)]
      <3>1. PICK k \in 1..Len(replies[p]) : replies' = [replies EXCEPT ![p] = Append(@, @[k])]
        BY <1>10 DEF DuplicateAnswer
      <3>2. PICK s \in Seq(Item) : s = replies[p]
        BY DEF PeerInv, MessagesOK
      <3>3. Append(s, s[k]) \in Seq(Item)
        BY <3>1, <3>2, AppendProperties
      <3> QED BY <3>1, <3>2, <3>3 DEF PeerInv, MessagesOK
    <2>3. requests' = requests
      BY <1>10 DEF DuplicateAnswer
    <2> QED BY <1>1, <2>1, <2>2, <2>3 DEF PeerInv, MessagesOK
  <1>7. CASE Lose
    <2>1. TableInv' /\ out' = <<>> /\ CommandsOK'
      BY <1>2, <1>3, <1>7 DEF Lose, Quiet
    <2>2. requests' \subseteq requests /\ replies' \in [Procs -> Seq(Item)]
      BY <1>7, ReplyGone DEF Lose, PeerInv, MessagesOK
    <2> QED BY <1>1, <2>1, <2>2 DEF PeerInv, MessagesOK
  <1>8. CASE Restart
    <2>1. TableInv' /\ CommandsOK'
      BY <1>3, <1>8, EmptyTable DEF Restart
    <2>2. MessagesOK'
      <3>1. <<>> \in Seq(Answer)
        OBVIOUS
      <3> QED BY <1>8, <3>1 DEF Restart, PeerInv, MessagesOK
    <2> QED BY <1>1, <2>1, <2>2 DEF PeerInv
  <1>9. CASE UNCHANGED vars
    <2>1. MessagesOK'
      BY <1>9 DEF vars, server, network, PeerInv, MessagesOK
    <2> QED BY <1>1, <1>2, <1>3, <1>9, <2>1 DEF vars, server, PeerInv
  <1> QED BY <1>4, <1>5, <1>6, <1>7, <1>8, <1>9, <1>10 DEF PNext, Duplicate

\* The types of the server, the network and the peers, whatever the network
\* loses, repeats and reorders and however often the server restarts: what the
\* server files is a content, what a peer takes is a datagram of the server, no
\* list outgrows its array and every child belongs to an open socket.
THEOREM PeersTypeCorrect == PSpec => []PTypeOK
  <1>1. PeerInv => PTypeOK
    <2> SUFFICES ASSUME PeerInv PROVE PTypeOK
      OBVIOUS
    <2>1. TypeOK
      BY DEF PeerInv, TableInv, MessagesOK, TypeOK, Answer
    <2>2. \A p \in Procs : \A k \in DOMAIN replies[p] :
            replies[p][k].re \in {"R", "S", "T", "O", "B"}
      <3> SUFFICES ASSUME NEW p \in Procs, NEW k \in DOMAIN replies[p]
                   PROVE  replies[p][k].re \in {"R", "S", "T", "O", "B"}
        OBVIOUS
      <3>1. PICK s \in Seq(Item) : s = replies[p] /\ k \in 1..Len(s)
        BY DEF PeerInv, MessagesOK
      <3>2. s[k] \in Item
        BY <3>1
      <3> QED BY <3>1, <3>2 DEF Item
    <2> QED BY <2>1, <2>2 DEF PeerInv, HostInv, MessagesOK, CommandsOK, PTypeOK
  <1> QED BY <1>1, InitPeers, NextPeers, PTL DEF PSpec

-----------------------------------------------------------------------------
(* Answers, on a network that neither repeats nor reorders.                 *)

Unanswered(p) == {m \in requests : m.from = p}

\* At most one thing of p's is under way: a request, or the answers to it.  Only
\* a listing is more than one datagram, and its last one ends the command.
OneAnswer(p) ==
    /\ \A m \in Unanswered(p) :
         \/ m.type = "B" /\ pc[p] = "quit"
         \/ pc[p] \in Waiting /\ m.type = Asked[pc[p]] /\ replies[p] = <<>>
    /\ \A m, n \in Unanswered(p) : m = n
    /\ \A k \in DOMAIN replies[p] : pc[p] \in Waiting /\ replies[p][k].re = Asked[pc[p]]
    /\ pc[p] # "list" => Len(replies[p]) <= 1
    /\ pc[p] = "list" => \A k \in DOMAIN replies[p] :
                            replies[p][k].datagram.type = "F" => k = Len(replies[p])

AnswersInv == \A p \in Procs : OneAnswer(p)

Untouched(q) ==
    Unanswered(q)' = Unanswered(q) /\ replies'[q] = replies[q] /\ pc'[q] = pc[q]

LEMMA UntouchedStays ==
    ASSUME NEW q \in Procs, OneAnswer(q), Untouched(q)
    PROVE  OneAnswer(q)'
  BY DEF OneAnswer, Untouched

\* Nothing is under way.
LEMMA NothingAsked ==
    ASSUME NEW p \in Procs, Unanswered(p)' = {}, replies'[p] = <<>>
    PROVE  OneAnswer(p)'
  <1>1. Len(replies'[p]) <= 1 /\ DOMAIN replies'[p] = {}
    BY SMT
  <1> QED BY <1>1 DEF OneAnswer

\* One request is under way.
LEMMA OneAsked ==
    ASSUME NEW p \in Procs, replies'[p] = <<>>, NEW m, Unanswered(p)' = {m},
           \/ m.type = "B" /\ pc'[p] = "quit"
           \/ pc'[p] \in Waiting /\ m.type = Asked[pc'[p]]
    PROVE  OneAnswer(p)'
  <1>1. Len(replies'[p]) <= 1 /\ DOMAIN replies'[p] = {}
    BY SMT
  <1> QED BY <1>1 DEF OneAnswer

LEMMA NothingUnderWay ==
    ASSUME PeerInv, NEW p \in Procs, OneAnswer(p), pc[p] \notin Waiting \cup {"quit"}
    PROVE  Unanswered(p) = {} /\ replies[p] = <<>>
  <1>1. PICK s \in Seq(Item) : s = replies[p]
    BY DEF PeerInv, MessagesOK
  <1>2. Len(s) = 0
    <2>1. Len(s) \in Nat /\ DOMAIN s = 1..Len(s)
      BY <1>1
    <2>2. Len(s) # 0 => 1 \in DOMAIN s
      BY <2>1
    <2> QED BY <1>1, <2>1, <2>2 DEF OneAnswer
  <1>3. s = <<>>
    BY <1>1, <1>2
  <1> QED BY <1>1, <1>3 DEF OneAnswer

LEMMA SendOne ==
    ASSUME NEW p \in Procs, NEW type, NEW c, Send(p, type, c)
    PROVE  /\ Unanswered(p)' = Unanswered(p) \cup {[type |-> type, from |-> p, content |-> c]}
           /\ \A q \in Procs : q # p => Unanswered(q)' = Unanswered(q)
  BY DEF Send, Unanswered

LEMMA SendNone ==
    ASSUME UNCHANGED requests
    PROVE  \A q \in Procs : Unanswered(q)' = Unanswered(q)
  BY DEF Unanswered

\* What p takes is the first answer to its own request, and unless it is part
\* of a listing there is no other.
LEMMA TakeOne ==
    ASSUME PeerInv, "reorder" \notin faults, NEW p \in Procs, OneAnswer(p),
           NEW state, NEW r, Take(p, state, r)
    PROVE  /\ pc[p] = state /\ Unanswered(p) = {}
           /\ 1 \in DOMAIN replies[p] /\ r = replies[p][1].datagram
           /\ state # "list" \/ r.type = "F" => replies'[p] = <<>>
           /\ state = "list" => \A k \in DOMAIN replies'[p] :
                /\ k + 1 \in DOMAIN replies[p] /\ replies'[p][k] = replies[p][k + 1]
                /\ k = Len(replies'[p]) <=> k + 1 = Len(replies[p])
           /\ \A q \in Procs : q # p => replies'[q] = replies[q]
  <1>1. PICK s \in Seq(Item) : s = replies[p]
    BY DEF PeerInv, MessagesOK
  <1>2. /\ pc[p] = state /\ 1 \in 1..Len(s) /\ r = s[1].datagram
        /\ replies' = [replies EXCEPT ![p] = RemoveAt(@, 1)]
    BY <1>1 DEF Take
  <1>3. PICK n \in Nat : n = Len(s)
    BY <1>1
  <1>4. /\ RemoveAt(s, 1) \in Seq(Item) /\ Len(RemoveAt(s, 1)) = n - 1
        /\ \A k \in 1..(n - 1) : RemoveAt(s, 1)[k] = s[k + 1]
    <2>1. /\ RemoveAt(s, 1) \in Seq(Item) /\ Len(RemoveAt(s, 1)) = n - 1
          /\ \A k \in 1..(n - 1) : RemoveAt(s, 1)[k] = IF k < 1 THEN s[k] ELSE s[k + 1]
      BY <1>2, <1>3, RemoveAtElements
    <2>2. \A k \in 1..(n - 1) : ~(k < 1)
      BY <1>3
    <2> QED BY <2>1, <2>2
  <1>5. replies'[p] = RemoveAt(s, 1) /\ \A q \in Procs : q # p => replies'[q] = replies[q]
    BY <1>1, <1>2 DEF PeerInv, MessagesOK
  <1>6. 1 \in DOMAIN replies[p] /\ replies[p] # <<>>
    BY <1>1, <1>2
  <1>7. Unanswered(p) = {}
    <2>1. pc[p] \in Waiting
      BY <1>6 DEF OneAnswer
    <2>2. pc[p] # "quit"
      BY <2>1 DEF Waiting
    <2> QED BY <1>6, <2>2 DEF OneAnswer
  <1>8. ASSUME n = 1 PROVE replies'[p] = <<>>
    <2>1. Len(RemoveAt(s, 1)) = 0
      BY <1>4, <1>8
    <2> QED BY <1>4, <1>5, <2>1
  <1>9. ASSUME state # "list" \/ r.type = "F" PROVE n = 1
    <2>1. CASE state # "list"
      <3>1. Len(s) <= 1
        BY <1>1, <1>2, <2>1 DEF OneAnswer
      <3>2. 1 <= n
        BY <1>2, <1>3
      <3> QED BY <1>3, <3>1, <3>2
    <2>2. CASE state = "list" /\ r.type = "F"
      <3>1. 1 = Len(replies[p])
        BY <1>1, <1>2, <1>6, <2>2 DEF OneAnswer
      <3> QED BY <1>1, <1>3, <3>1
    <2> QED BY <1>9, <2>1, <2>2
  <1>10. ASSUME NEW k \in DOMAIN replies'[p]
         PROVE  /\ k + 1 \in DOMAIN replies[p] /\ replies'[p][k] = replies[p][k + 1]
                /\ k = Len(replies'[p]) <=> k + 1 = Len(replies[p])
    <2>1. k \in 1..(n - 1) /\ Len(replies'[p]) = n - 1 /\ DOMAIN replies[p] = 1..n
      BY <1>1, <1>3, <1>4, <1>5
    <2>2. k + 1 \in 1..n /\ (k = n - 1 <=> k + 1 = n)
      BY <1>3, <2>1
    <2> QED BY <1>1, <1>3, <1>4, <1>5, <2>1, <2>2
  <1> QED BY <1>1, <1>2, <1>5, <1>6, <1>7, <1>8, <1>9, <1>10

\* A listing asks for the pages; any other request is answered with one datagram.
LEMMA HandleAnswers ==
    ASSUME NEW m, Handle(m)
    PROVE  IF m.type = "O" THEN List ELSE \E a : out' = <<a>>
  <1>1. CASE m.type = "R" /\ Register(Host[m.from], Name[m.from], m.content, Port[m.from])
    BY <1>1, Zenon DEF Register, RegisterMore, RegisterNew, RegisterRefused
  <1>2. CASE m.type = "S" /\ Search(m.content)
    BY <1>2, Zenon DEF Search, SearchFound, SearchFails
  <1>3. CASE m.type = "T" /\ Deregister(Host[m.from], m.content)
    BY <1>3, Zenon DEF Deregister, DeregisterContent, DeregisterPeer, DeregisterRefused
  <1>4. CASE m.type = "O" /\ List
    BY <1>4
  <1>5. CASE m.type = "B" /\ Bye(Name[m.from])
    BY <1>5 DEF Bye
  <1> QED BY <1>1, <1>2, <1>3, <1>4, <1>5 DEF Handle

LEMMA ServeAnswers ==
    ASSUME PeerInv, AnswersInv, NEW p \in Procs, Serve(p)
    PROVE  AnswersInv'
  <1>1. PICK m \in requests : m.from = p /\ Deliver(m) /\ requests' = requests \ {m}
    BY DEF Serve
  <1>2. m \in Unanswered(p) /\ OneAnswer(p)
    BY <1>1 DEF Unanswered, AnswersInv
  <1>3. UNCHANGED pc
    BY <1>1 DEF Deliver, main
  <1>4. Unanswered(p)' = {}
    BY <1>1, <1>2 DEF OneAnswer, Unanswered
  <1>5. ASSUME NEW q \in Procs, q # p PROVE OneAnswer(q)'
    <2>1. Unanswered(q)' = Unanswered(q)
      BY <1>1, <1>5 DEF Unanswered
    <2>2. replies'[q] = replies[q]
      BY <1>1, <1>5 DEF Deliver, PeerInv, MessagesOK
    <2> QED BY <1>3, <2>1, <2>2, UntouchedStays DEF Untouched, AnswersInv
  <1>6. CASE pc[p] = "quit"
    <2>1. replies'[p] = replies[p]
      BY <1>1, <1>6 DEF Deliver
    <2> QED BY <1>2, <1>3, <1>4, <1>5, <1>6, <2>1 DEF OneAnswer, AnswersInv, Waiting
  <1>7. CASE pc[p] # "quit"
    <2>1. pc[p] \in Waiting /\ m.type = Asked[pc[p]] /\ replies[p] = <<>>
      BY <1>2, <1>7 DEF OneAnswer
    <2>2. pc[p] \notin {"quit", "eof"}
      BY <2>1 DEF Waiting
    <2> DEFINE new == [k \in 1..Len(out') |-> [re |-> m.type, datagram |-> out'[k]]]
    <2>3. PICK s \in Seq(Answer) : s = out'
      BY <1>1, DeliverTypes DEF PeerInv
    <2>4. /\ new \in Seq(Item) /\ Len(new) = Len(s)
          /\ \A k \in 1..Len(s) : new[k].re = m.type /\ new[k].datagram = s[k]
      <3>1. m.type \in {"R", "S", "T", "O", "B"}
        BY DEF PeerInv, MessagesOK, Datagram
      <3>2. new = [k \in 1..Len(s) |-> [re |-> m.type, datagram |-> s[k]]]
        BY <2>3
      <3>3. [k \in 1..Len(s) |-> [re |-> m.type, datagram |-> s[k]]] \in Seq(Item)
        BY <3>1 DEF Item
      <3> HIDE DEF new
      <3> QED BY <3>2, <3>3
    <2> HIDE DEF new
    <2>5. replies'[p] = new
      <3>1. replies' = [replies EXCEPT ![p] = @ \o new]
        BY <1>1, <2>2 DEF Deliver, new
      <3>2. replies'[p] = <<>> \o new
        BY <2>1, <3>1 DEF PeerInv, MessagesOK
      <3> QED BY <2>4, <3>2
    <2>6. \A k \in DOMAIN new : new[k].re = Asked[pc[p]]
      BY <2>1, <2>4
    <2>7. Handle(m)
      BY <1>1 DEF Deliver
    <2>8. CASE pc[p] = "list"
      <3>1. m.type = "O"
        BY <2>1, <2>8 DEF Asked, Waiting
      <3>2. s = Pages
        BY <2>3, <2>7, <3>1, HandleAnswers DEF List
      <3>3. \A k \in 1..Len(s) : s[k].type = "F" => k = Len(s)
        BY <3>2, PagesType DEF PeerInv, TableInv
      <3> QED BY <1>3, <1>4, <1>5, <2>1, <2>4, <2>5, <2>6, <2>8, <3>3 DEF OneAnswer, AnswersInv
    <2>9. CASE pc[p] # "list"
      <3>1. m.type # "O"
        BY <2>1, <2>9 DEF Asked, Waiting
      <3>2. PICK a : s = <<a>>
        BY <2>3, <2>7, <3>1, HandleAnswers
      <3>3. Len(new) <= 1
        BY <2>4, <3>2
      <3> QED BY <1>3, <1>4, <1>5, <2>1, <2>4, <2>5, <2>6, <2>9, <3>3 DEF OneAnswer, AnswersInv
    <2> QED BY <2>8, <2>9
  <1> QED BY <1>6, <1>7

LEMMA LeavingAnswers ==
    ASSUME PeerInv, NEW p \in Procs, NEW n, Leaving(p, n),
           Unanswered(p) = {}, replies'[p] = <<>>
    PROVE  OneAnswer(p)' /\ \A q \in Procs : q # p => /\ Unanswered(q)' = Unanswered(q)
                                                      /\ pc'[q] = pc[q]
  <1>1. ASSUME NEW type, NEW c, NEW to, Send(p, type, c), pc' = [pc EXCEPT ![p] = to],
               <<type, to>> \in {<<"T", "quitting">>, <<"B", "quit">>}
        PROVE  OneAnswer(p)' /\ \A q \in Procs : q # p => /\ Unanswered(q)' = Unanswered(q)
                                                          /\ pc'[q] = pc[q]
    <2>1. pc'[p] = to /\ \A q \in Procs : q # p => pc'[q] = pc[q]
      BY <1>1 DEF PeerInv, HostInv
    <2>2. Asked["quitting"] = "T" /\ "quitting" \in Waiting
      BY DEF Asked, Waiting
    <2> DEFINE m == [type |-> type, from |-> p, content |-> c]
    <2>3. Unanswered(p)' = {m} /\ m.type = type
      BY <1>1, SendOne
    <2>4. OneAnswer(p)'
      <3> HIDE DEF m
      <3> QED BY <1>1, <2>1, <2>2, <2>3, OneAsked
    <2> QED BY <1>1, <2>1, <2>4, SendOne
  <1>2. CASE /\ Send(p, "T", contentList[p][n])
             /\ pc' = [pc EXCEPT ![p] = "quitting"]
    <2>1. PICK c : c = contentList[p][n]
      OBVIOUS
    <2>2. Send(p, "T", c)
      BY <1>2, <2>1 DEF Send
    <2> QED BY <1>1, <1>2, <2>2, Zenon
  <1>3. CASE /\ Send(p, "B", "none")
             /\ pc' = [pc EXCEPT ![p] = "quit"]
    BY <1>1, <1>3
  <1> QED BY <1>2, <1>3 DEF Leaving

LEMMA UserAnswers ==
    ASSUME PeerInv, AnswersInv, NEW p \in Procs, User(p)
    PROVE  AnswersInv'
  <1>1. ASSUME OneAnswer(p)', UNCHANGED replies,
               \A q \in Procs : q # p => Unanswered(q)' = Unanswered(q) /\ pc'[q] = pc[q]
        PROVE  AnswersInv'
    BY <1>1, UntouchedStays DEF Untouched, AnswersInv
  <1>2. ASSUME pc[p] = "menu"
        PROVE  Unanswered(p) = {} /\ replies[p] = <<>>
    BY <1>2, NothingUnderWay DEF Waiting, AnswersInv
  <1>3. ASSUME NEW type \in {"R", "S", "T", "O"}, NEW c \in Contents \cup {"none"},
               NEW to \in Waiting, type = Asked[to], Ask(p, type, c, to)
        PROVE  AnswersInv'
    <2> DEFINE m == [type |-> type, from |-> p, content |-> c]
    <2>1. pc[p] = "menu" /\ Send(p, type, c) /\ UNCHANGED replies
      BY <1>3 DEF Ask
    <2>2. pc'[p] = to /\ \A q \in Procs : q # p => pc'[q] = pc[q]
      BY <1>3 DEF Ask, PeerInv, HostInv
    <2>3. Unanswered(p)' = {m} /\ m.type = type /\ replies'[p] = <<>>
      BY <1>2, <2>1, SendOne
    <2>4. OneAnswer(p)'
      <3> HIDE DEF m
      <3> QED BY <1>3, <2>2, <2>3, OneAsked
    <2> QED BY <1>1, <2>1, <2>2, <2>4, SendOne
  <1>4. ASSUME NEW c \in Contents,
               UserRegister(p, c) \/ UserDownload(p, c) \/ UserDeregister(p, c)
        PROVE  AnswersInv'
    <2>1. Ask(p, "R", c, "register") \/ Ask(p, "S", c, "search") \/ Ask(p, "T", c, "deregister")
      BY <1>4 DEF UserRegister, UserDownload, UserDeregister
    <2> QED BY <1>3, <2>1 DEF Waiting, Asked
  <1>5. CASE UserList(p)
    <2>1. Ask(p, "O", "none", "list")
      BY <1>5 DEF UserList
    <2> QED BY <1>3, <2>1 DEF Waiting, Asked
  <1>6. CASE UserQuit(p)
    <2>1. pc[p] = "menu" /\ Leaving(p, Len(contentList[p])) /\ UNCHANGED replies
      BY <1>6 DEF UserQuit
    <2> QED BY <1>1, <1>2, <2>1, LeavingAnswers
  <1>7. CASE EndOfInput(p)
    <2>1. pc[p] = "menu" /\ Goto(p, "eof") /\ UNCHANGED <<requests, replies>>
      BY <1>7 DEF EndOfInput, network
    <2>2. \A q \in Procs : q # p => pc'[q] = pc[q]
      BY <2>1 DEF Goto, PeerInv, HostInv
    <2> QED BY <1>1, <1>2, <2>1, <2>2, SendNone, NothingAsked
  <1> QED BY <1>4, <1>5, <1>6, <1>7 DEF User

\* Nothing of the other peers' is touched.
OthersUntouched(p) == \A q \in Procs : q # p => Untouched(q)

LEMMA OthersStay ==
    ASSUME AnswersInv, NEW p \in Procs, OthersUntouched(p), OneAnswer(p)'
    PROVE  AnswersInv'
  BY UntouchedStays DEF OthersUntouched, AnswersInv

\* The command p was waiting in is over, and all that was sent to it is taken.
LEMMA TakenAll ==
    ASSUME PeerInv, AnswersInv, "reorder" \notin faults, NEW p \in Procs,
           NEW state, NEW r, Take(p, state, r), state # "list" \/ r.type = "F",
           UNCHANGED requests, \A q \in Procs : q # p => pc'[q] = pc[q]
    PROVE  AnswersInv'
  <1>1. /\ Unanswered(p) = {} /\ replies'[p] = <<>>
        /\ \A q \in Procs : q # p => replies'[q] = replies[q]
    BY TakeOne DEF AnswersInv
  <1>2. OneAnswer(p)' /\ OthersUntouched(p)
    BY <1>1, SendNone, NothingAsked DEF OthersUntouched, Untouched
  <1> QED BY <1>2, OthersStay

\* A page that is not the last: the command goes on waiting for the others.
LEMMA PageTaken ==
    ASSUME PeerInv, AnswersInv, "reorder" \notin faults, NEW p \in Procs,
           NEW r, Take(p, "list", r), UNCHANGED <<requests, pc>>
    PROVE  AnswersInv'
  <1>1. /\ pc[p] = "list" /\ Unanswered(p) = {} /\ OneAnswer(p)
        /\ \A k \in DOMAIN replies'[p] :
             /\ k + 1 \in DOMAIN replies[p] /\ replies'[p][k] = replies[p][k + 1]
             /\ k = Len(replies'[p]) <=> k + 1 = Len(replies[p])
        /\ \A q \in Procs : q # p => replies'[q] = replies[q]
    BY TakeOne DEF AnswersInv
  <1>2. OthersUntouched(p) /\ Unanswered(p)' = {}
    BY <1>1, SendNone DEF OthersUntouched, Untouched
  <1>3. \A k \in DOMAIN replies'[p] :
          /\ pc'[p] \in Waiting /\ replies'[p][k].re = Asked[pc'[p]]
          /\ replies'[p][k].datagram.type = "F" => k = Len(replies'[p])
    BY <1>1 DEF OneAnswer
  <1>4. OneAnswer(p)'
    BY <1>1, <1>2, <1>3 DEF OneAnswer
  <1> QED BY <1>2, <1>4, OthersStay

\* A peer that waits for nothing keeps its datagrams where they are.
LEMMA BusyAnswers ==
    ASSUME PeerInv, AnswersInv, NEW p \in Procs, pc[p] \in {"fetch", "receive"},
           UNCHANGED replies, \A q \in Procs : q # p => pc'[q] = pc[q],
           \/ UNCHANGED requests
           \/ pc'[p] = "register_copy" /\ Send(p, "R", arg[p])
    PROVE  AnswersInv'
  <1>1. Unanswered(p) = {} /\ replies'[p] = <<>>
    BY NothingUnderWay DEF AnswersInv, Waiting
  <1>2. CASE UNCHANGED requests
    <2>1. OneAnswer(p)' /\ OthersUntouched(p)
      BY <1>1, <1>2, SendNone, NothingAsked DEF OthersUntouched, Untouched
    <2> QED BY <2>1, OthersStay
  <1>3. CASE pc'[p] = "register_copy" /\ Send(p, "R", arg[p])
    <2> DEFINE m == [type |-> "R", from |-> p, content |-> arg[p]]
    <2>1. Unanswered(p)' = {m} /\ m.type = "R" /\ OthersUntouched(p)
      BY <1>1, <1>3, SendOne DEF OthersUntouched, Untouched
    <2>2. Asked["register_copy"] = "R" /\ "register_copy" \in Waiting
      BY DEF Asked, Waiting
    <2>3. OneAnswer(p)'
      <3> HIDE DEF m
      <3> QED BY <1>1, <1>3, <2>1, <2>2, OneAsked
    <2> QED BY <2>1, <2>3, OthersStay
  <1> QED BY <1>2, <1>3

LEMMA ContinueAnswers ==
    ASSUME PeerInv, AnswersInv, "reorder" \notin faults, NEW p \in Procs, Continue(p)
    PROVE  AnswersInv'
  <1>1. ASSUME NEW state, NEW r, Take(p, state, r), state # "list" \/ r.type = "F",
               UNCHANGED requests, Menu(p) \/ Goto(p, "fetch")
        PROVE  AnswersInv'
    <2>1. \A q \in Procs : q # p => pc'[q] = pc[q]
      BY <1>1 DEF Menu, Goto, PeerInv, HostInv
    <2> QED BY <1>1, <2>1, TakenAll
  <1>2. CASE Registered(p)
    <2>1. PICK r : Take(p, "register", r) /\ Menu(p) /\ UNCHANGED requests
      BY <1>2 DEF Registered
    <2> QED BY <1>1, <2>1
  <1>3. CASE Searched(p)
    <2>1. PICK r : /\ Take(p, "search", r) /\ UNCHANGED requests
                   /\ Menu(p) \/ Goto(p, "fetch")
      BY <1>3 DEF Searched
    <2> QED BY <1>1, <2>1
  <1>4. CASE CopyRegistered(p)
    <2>1. PICK r : Take(p, "register_copy", r) /\ Menu(p) /\ UNCHANGED requests
      BY <1>4 DEF CopyRegistered
    <2> QED BY <1>1, <2>1
  <1>5. CASE Deregistered(p)
    <2>1. PICK r : Take(p, "deregister", r) /\ Menu(p) /\ UNCHANGED requests
      BY <1>5 DEF Deregistered
    <2> QED BY <1>1, <2>1
  <1>6. CASE Listed(p)
    <2>1. PICK r : /\ Take(p, "list", r) /\ UNCHANGED requests
                   /\ IF r.type = "F" THEN Menu(p) ELSE UNCHANGED pc
      BY <1>6 DEF Listed
    <2> QED BY <1>1, <2>1, PageTaken
  <1>7. CASE Quitting(p)
    <2>1. PICK r : Take(p, "quitting", r) /\ Leaving(p, togo[p] - 1)
      BY <1>7 DEF Quitting
    <2>2. /\ Unanswered(p) = {} /\ replies'[p] = <<>>
          /\ \A q \in Procs : q # p => replies'[q] = replies[q]
      BY <2>1, TakeOne DEF AnswersInv
    <2>3. OneAnswer(p)' /\ OthersUntouched(p)
      BY <2>1, <2>2, LeavingAnswers DEF OthersUntouched, Untouched
    <2> QED BY <2>3, OthersStay
  <1>8. CASE OpenCopy(p) \/ DownloadFails(p) \/ DownloadEnds(p)
    <2>1. pc[p] \in {"fetch", "receive"} /\ UNCHANGED replies
      BY <1>8 DEF OpenCopy, DownloadFails, DownloadEnds, network
    <2>2. \/ UNCHANGED requests /\ (Menu(p) \/ Goto(p, "receive"))
          \/ Send(p, "R", arg[p]) /\ Goto(p, "register_copy")
      BY <1>8 DEF OpenCopy, DownloadFails, DownloadEnds, network
    <2>3. /\ \A q \in Procs : q # p => pc'[q] = pc[q]
          /\ Goto(p, "register_copy") => pc'[p] = "register_copy"
      BY <2>2 DEF Menu, Goto, PeerInv, HostInv
    <2> QED BY <2>1, <2>2, <2>3, BusyAnswers
  <1> QED BY <1>2, <1>3, <1>4, <1>5, <1>6, <1>7, <1>8 DEF Continue

\* Fewer requests, or one answer fewer.
LEMMA LossAnswers ==
    ASSUME PeerInv, AnswersInv, UNCHANGED pc, requests' \subseteq requests,
           \/ UNCHANGED replies
           \/ \E p \in Procs : \E k \in 1..Len(replies[p]) :
                replies' = [replies EXCEPT ![p] = RemoveAt(@, k)]
    PROVE  AnswersInv'
  <1>1. \A q \in Procs : Unanswered(q)' \subseteq Unanswered(q)
    BY DEF Unanswered
  <1>2. ASSUME NEW q \in Procs, replies'[q] = replies[q]
        PROVE  OneAnswer(q)'
    BY <1>1, <1>2 DEF AnswersInv, OneAnswer
  <1>3. CASE UNCHANGED replies
    BY <1>2, <1>3 DEF AnswersInv
  <1>4. ASSUME NEW p \in Procs, NEW d \in 1..Len(replies[p]),
               replies' = [replies EXCEPT ![p] = RemoveAt(@, d)]
        PROVE  AnswersInv'
    <2>1. PICK s \in Seq(Item) : s = replies[p]
      BY DEF PeerInv, MessagesOK
    <2>2. PICK n \in Nat : n = Len(s) /\ DOMAIN s = 1..n
      BY <2>1
    <2>3. PICK t \in Seq(Item) :
            /\ t = RemoveAt(s, d) /\ Len(t) = n - 1
            /\ \A k \in 1..(n - 1) : t[k] = IF k < d THEN s[k] ELSE s[k + 1]
      BY <1>4, <2>1, <2>2, RemoveAtElements, SMTT(20)
    <2>4. replies'[p] = t /\ \A q \in Procs : q # p => replies'[q] = replies[q]
      BY <1>4, <2>1, <2>3 DEF PeerInv, MessagesOK
    <2>5. \A k \in DOMAIN t : \E j \in DOMAIN s : t[k] = s[j] /\ (j = n => k = n - 1)
      <3>1. ASSUME NEW k \in 1..(n - 1)
            PROVE  \E j \in 1..n : t[k] = s[j] /\ (j = n => k = n - 1)
        <4>1. CASE k < d
          BY <1>4, <2>1, <2>2, <2>3, <4>1
        <4>2. CASE ~(k < d)
          BY <2>2, <2>3, <4>2
        <4> QED BY <4>1, <4>2
      <3>2. DOMAIN t = 1..(n - 1) /\ DOMAIN s = 1..n
        BY <2>2, <2>3
      <3> HIDE DEF Item
      <3> QED BY <3>1, <3>2
    <2>6. Unanswered(p) = {} \/ pc[p] = "quit"
      <3>1. replies[p] # <<>>
        BY <1>4, <2>1
      <3> QED BY <3>1 DEF AnswersInv, OneAnswer
    <2>7. OneAnswer(p)
      BY DEF AnswersInv
    <2>8. \A k \in DOMAIN t : pc[p] \in Waiting /\ t[k].re = Asked[pc[p]]
      BY <2>1, <2>5, <2>7 DEF OneAnswer
    <2>9. pc[p] # "list" => Len(t) <= 1
      BY <2>1, <2>2, <2>3, <2>7 DEF OneAnswer
    <2>10. pc[p] = "list" => \A k \in DOMAIN t : t[k].datagram.type = "F" => k = Len(t)
      BY <2>1, <2>2, <2>3, <2>5, <2>7 DEF OneAnswer
    <2>11. \A m \in Unanswered(p)' : m.type = "B" /\ pc[p] = "quit"
      <3>1. pc[p] = "quit" => pc[p] \notin Waiting
        BY DEF Waiting
      <3> QED BY <1>1, <2>6, <2>7, <3>1 DEF OneAnswer
    <2>12. \A m, o \in Unanswered(p)' : m = o
      BY <1>1, <2>7 DEF OneAnswer
    <2>13. OneAnswer(p)'
      BY <2>4, <2>8, <2>9, <2>10, <2>11, <2>12 DEF OneAnswer
    <2> QED BY <1>2, <2>4, <2>13 DEF AnswersInv
  <1> QED BY <1>3, <1>4

LEMMA InitAnswers == PInit => AnswersInv
  <1> SUFFICES ASSUME PInit, NEW p \in Procs PROVE OneAnswer(p)
    BY DEF AnswersInv
  <1>1. Unanswered(p) = {} /\ replies[p] = <<>>
    BY DEF PInit, Unanswered
  <1>2. Len(<<>>) <= 1 /\ DOMAIN <<>> = {}
    BY SMT
  <1> QED BY <1>1, <1>2 DEF OneAnswer

LEMMA NextAnswersInv ==
    ASSUME PeerInv, AnswersInv, faults \subseteq {"lose", "restart"}, [PNext]_vars
    PROVE  AnswersInv'
  <1>1. ASSUME NEW p \in Procs, Answered(p) PROVE AnswersInv'
    <2>1. UNCHANGED <<requests, replies, pc>>
      BY <1>1 DEF Answered, HostAnswers, network, main
    <2> QED BY <2>1, LossAnswers
  <1>2. ASSUME NEW p \in Procs, Duplicate(p) PROVE FALSE
    BY <1>2 DEF Duplicate
  <1>3. CASE Lose
    <2>1. UNCHANGED pc /\ requests' \subseteq requests
      BY <1>3 DEF Lose, main
    <2>2. \/ UNCHANGED replies
          \/ \E p \in Procs : \E k \in 1..Len(replies[p]) :
               replies' = [replies EXCEPT ![p] = RemoveAt(@, k)]
      BY <1>3, Zenon DEF Lose
    <2> QED BY <2>1, <2>2, LossAnswers
  <1>4. CASE Restart
    <2>1. UNCHANGED <<pc, replies>> /\ requests' \subseteq requests
      BY <1>4 DEF Restart, main
    <2> QED BY <2>1, LossAnswers
  <1>5. CASE UNCHANGED vars
    <2>1. UNCHANGED <<requests, replies, pc>>
      BY <1>5 DEF vars, network, main
    <2> QED BY <2>1, LossAnswers
  <1>6. "reorder" \notin faults
    OBVIOUS
  <1> QED
    BY <1>1, <1>2, <1>3, <1>4, <1>5, <1>6, UserAnswers, ContinueAnswers, ServeAnswers
    DEF PNext

\* Whatever datagram a peer takes answers what it asked, for every number of
\* peers and commands, if the network may lose datagrams and the server may be
\* restarted, but nothing overtakes or is repeated: peer_node.c matches answers
\* to requests by their order alone.
THEOREM AnswersAlwaysMatch == PSpec => []AnswersMatch
  <1> DEFINE MatchKept == faults \subseteq {"lose", "restart"} => AnswersInv
  <1>1. PeerInv /\ MatchKept /\ [PNext]_vars => PeerInv' /\ MatchKept'
    BY NextPeers, NextAnswersInv, FaultsStay
  <1>2. MatchKept => AnswersMatch
    BY DEF AnswersInv, OneAnswer, AnswersMatch
  <1>3. PInit => MatchKept
    BY InitAnswers
  <1> HIDE DEF MatchKept
  <1> QED BY <1>1, <1>2, <1>3, InitPeers, PTL DEF PSpec
-----------------------------------------------------------------------------
(* What the peers believe and what the directory lists, on a network that at *)
(* most loses datagrams, with one peer on each host and a slot for each.     *)

OnePeerPerHost ==
    \A p, q \in Procs : p # q => Name[p] # Name[q] /\ Host[p] # Host[q]

RoomForAll == IsFiniteSet(Procs) /\ Cardinality(Procs) <= MaxPeers

\* The slot is p's.
Holds(i, p) == peers[i].in_use /\ peers[i].name = Name[p]

\* Every entry of the table is some peer's, with its address.
Known ==
    \A i \in Slots : peers[i].in_use =>
        \E p \in Procs : /\ peers[i].name = Name[p] /\ peers[i].ip = Host[p]
                         /\ peers[i].tcp_port = Port[p]

LEMMA Offers ==
    ASSUME NamesUnique, NEW p \in Procs, NEW i \in Slots, Holds(i, p)
    PROVE  OfferedBy(p) = ToSet(peers[i].contents)
  <1>1. find_peer_by_name(Name[p]) = {i}
    BY DEF find_peer_by_name, Holds, NamesUnique
  <1> QED BY <1>1 DEF OfferedBy

LEMMA OffersThen ==
    ASSUME NamesUnique', NEW p \in Procs, NEW i \in Slots, Holds(i, p)'
    PROVE  OfferedBy(p)' = ToSet(peers'[i].contents)
  <1>1. find_peer_by_name(Name[p])' = {i}
    BY DEF find_peer_by_name, Holds, NamesUnique
  <1> QED BY <1>1 DEF OfferedBy

LEMMA OffersNothing ==
    ASSUME NEW p \in Procs, \A i \in Slots : ~Holds(i, p)
    PROVE  OfferedBy(p) = {}
  <1>1. find_peer_by_name(Name[p]) = {}
    BY DEF find_peer_by_name, Holds
  <1> QED BY <1>1 DEF OfferedBy

LEMMA OffersNothingThen ==
    ASSUME NEW p \in Procs, \A i \in Slots : ~Holds(i, p)'
    PROVE  OfferedBy(p)' = {}
  <1>1. find_peer_by_name(Name[p])' = {}
    BY DEF find_peer_by_name, Holds
  <1> QED BY <1>1 DEF OfferedBy

\* An entry in the table lists something, in as many places as there are
\* contents.
LEMMA EntryOffers ==
    ASSUME TableInv, NEW p \in Procs, NEW i \in Slots, Holds(i, p)
    PROVE  /\ OfferedBy(p) # {}
           /\ Cardinality(OfferedBy(p)) = Len(peers[i].contents)
           /\ \A c : c \in OfferedBy(p) <=>
                \E k \in 1..Len(peers[i].contents) : peers[i].contents[k] = c
  <1>1. OfferedBy(p) = ToSet(peers[i].contents)
    BY Offers DEF TableInv
  <1>2. PICK s \in Seq(Contents) : s = peers[i].contents /\ IsInjective(s) /\ Len(s) >= 1
    <2>1. peers[i] \in Peer /\ EntryWhole(peers[i]) /\ peers[i].in_use
      BY DEF TableInv, TableTypeOK, EntriesWhole, Holds
    <2>2. /\ peers[i].contents \in Seq(Contents) /\ IsInjective(peers[i].contents)
          /\ Len(peers[i].contents) \in 1..MaxContent
      BY <2>1 DEF EntryWhole, Peer
    <2> QED BY <2>2
  <1>3. Cardinality(ToSet(s)) = Len(s) /\ \A c : c \in ToSet(s) <=> \E k \in 1..Len(s) : s[k] = c
    BY <1>2, InjectiveCount, ElementsAre
  <1>4. s[1] \in ToSet(s)
    <2>1. 1 \in 1..Len(s)
      BY <1>2
    <2> QED BY <1>3, <2>1
  <1> QED BY <1>1, <1>2, <1>3, <1>4

\* The table keeps what it lists for every peer.
OffersStay == Known' /\ \A q \in Procs : OfferedBy(q)' = OfferedBy(q)

LEMMA SameOffers ==
    ASSUME Known,
           \A i \in Slots : /\ peers'[i].in_use = peers[i].in_use
                            /\ peers'[i].name = peers[i].name /\ peers'[i].ip = peers[i].ip
                            /\ peers'[i].tcp_port = peers[i].tcp_port
                            /\ peers'[i].contents = peers[i].contents
    PROVE  OffersStay
  <1>1. Known'
    BY DEF Known
  <1>2. ASSUME NEW q \in Procs PROVE OfferedBy(q)' = OfferedBy(q)
    <2>1. find_peer_by_name(Name[q])' = find_peer_by_name(Name[q])
      BY DEF find_peer_by_name
    <2>2. \A i \in find_peer_by_name(Name[q]) : peers'[i].contents = peers[i].contents
      BY DEF find_peer_by_name
    <2> QED BY <2>1, <2>2 DEF OfferedBy
  <1> QED BY <1>1, <1>2 DEF OffersStay

\* After a step, S is what the table lists for p.
NowOffers(p, S) ==
    /\ Known' /\ OfferedBy(p)' = S
    /\ \A q \in Procs : q # p => OfferedBy(q)' = OfferedBy(q)

\* A step that changes p's slot only, or a free one.
LEMMA SlotOffers ==
    ASSUME TableInv, TableInv', Known, OnePeerPerHost, NEW p \in Procs, NEW i \in Slots,
           \A j \in Slots : j # i => peers'[j] = peers[j],
           \/ Holds(i, p)
           \/ ~peers[i].in_use /\ \A j \in Slots : ~Holds(j, p),
           \/ ~peers'[i].in_use
           \/ /\ peers'[i].in_use /\ peers'[i].name = Name[p] /\ peers'[i].ip = Host[p]
              /\ peers'[i].tcp_port = Port[p]
    PROVE  NowOffers(p, IF peers'[i].in_use THEN ToSet(peers'[i].contents) ELSE {})
  <1>1. Known'
    <2> SUFFICES ASSUME NEW j \in Slots, peers'[j].in_use
                 PROVE  \E q \in Procs : /\ peers'[j].name = Name[q] /\ peers'[j].ip = Host[q]
                                         /\ peers'[j].tcp_port = Port[q]
      BY DEF Known
    <2>1. CASE j = i
      BY <2>1
    <2>2. CASE j # i
      BY <2>2 DEF Known
    <2> QED BY <2>1, <2>2
  <1>2. ASSUME peers'[i].in_use PROVE OfferedBy(p)' = ToSet(peers'[i].contents)
    BY <1>2, OffersThen DEF Holds, TableInv
  <1>3. ASSUME ~peers'[i].in_use PROVE OfferedBy(p)' = {}
    <2>1. ASSUME NEW j \in Slots, Holds(j, p)' PROVE FALSE
      <3>1. j # i /\ Holds(j, p)
        BY <1>3, <2>1 DEF Holds
      <3> QED BY <3>1 DEF Holds, TableInv, NamesUnique
    <2> QED BY <2>1, OffersNothingThen
  <1>4. ASSUME NEW q \in Procs, q # p PROVE OfferedBy(q)' = OfferedBy(q)
    <2>1. Name[q] # Name[p]
      BY <1>4 DEF OnePeerPerHost
    <2>2. ~Holds(i, q) /\ ~Holds(i, q)'
      BY <2>1 DEF Holds
    <2>3. find_peer_by_name(Name[q])' = find_peer_by_name(Name[q])
      BY <2>2 DEF find_peer_by_name, Holds
    <2>4. \A j \in find_peer_by_name(Name[q]) : peers'[j].contents = peers[j].contents
      BY <2>2 DEF find_peer_by_name, Holds
    <2> QED BY <2>3, <2>4 DEF OfferedBy
  <1> QED BY <1>1, <1>2, <1>3, <1>4 DEF NowOffers

\* The slot that is p's has p's address.
LEMMA HoldsAddress ==
    ASSUME Known, OnePeerPerHost, NEW p \in Procs, NEW i \in Slots
    PROVE  Holds(i, p) <=> peers[i].in_use /\ peers[i].ip = Host[p]
  BY DEF Known, OnePeerPerHost, Holds

\* A peer without an entry finds a free slot: the used ones are other peers'.
LEMMA FreeSlot ==
    ASSUME TableInv, Known, OnePeerPerHost, RoomForAll, NEW p \in Procs,
           \A i \in Slots : ~Holds(i, p)
    PROVE  first_free_peer_slot # {}
  <1> SUFFICES ASSUME \A i \in Slots : peers[i].in_use PROVE FALSE
    BY DEF first_free_peer_slot
  <1> DEFINE Others == Procs \ {p}
             owner == [i \in Slots |-> CHOOSE q \in Procs : Holds(i, q)]
  <1>1. ASSUME NEW i \in Slots PROVE owner[i] \in Others /\ Holds(i, owner[i])
    <2>1. \E q \in Procs : Holds(i, q)
      BY DEF Known, Holds
    <2> QED BY <2>1
  <1>2. owner \in [Slots -> Others]
    BY <1>1
  <1>3. IsInjective(owner)
    <2>1. \A i, j \in Slots : owner[i] = owner[j] => i = j
      BY <1>1 DEF Holds, TableInv, NamesUnique
    <2>2. DOMAIN owner = Slots
      OBVIOUS
    <2> HIDE DEF owner
    <2> QED BY <2>1, <2>2 DEF IsInjective
  <1>4. owner \in Injection(Slots, Others)
    BY <1>2, <1>3 DEF Injection
  <1>5. IsFiniteSet(Others) /\ Cardinality(Others) = Cardinality(Procs) - 1
    BY FS_RemoveElement DEF RoomForAll
  <1>6. Cardinality(Slots) = MaxPeers
    <2>1. 1 \in Int /\ MaxPeers \in Int /\ ~(1 > MaxPeers)
      BY DirectoryAssumption
    <2>2. Cardinality(Slots) = MaxPeers - 1 + 1
      BY <2>1, FS_Interval DEF Slots
    <2> QED BY <2>1, <2>2
  <1>7. Cardinality(Slots) <= Cardinality(Others)
    <2> HIDE DEF owner, Others
    <2> QED BY <1>4, <1>5, FS_Injection
  <1>8. Cardinality(Procs) \in Nat /\ MaxPeers \in Nat
    BY FS_CardinalityType, DirectoryAssumption DEF RoomForAll
  <1> QED BY <1>5, <1>6, <1>7, <1>8 DEF RoomForAll
\* A registration adds the content and is acknowledged, or is refused: the
\* content is listed already, or the peer's array is full.
LEMMA RegisterEffect ==
    ASSUME TableInv, TableInv', Known, OnePeerPerHost, RoomForAll, NEW p \in Procs,
           NEW c \in Contents, Register(Host[p], Name[p], c, Port[p])
    PROVE  \/ /\ out' = <<ack>> /\ NowOffers(p, OfferedBy(p) \cup {c})
              /\ c \notin OfferedBy(p) /\ Cardinality(OfferedBy(p)) < MaxContent
           \/ /\ out' = <<err>> /\ OffersStay
              /\ c \in OfferedBy(p) \/ Cardinality(OfferedBy(p)) >= MaxContent
  <1>1. CASE RegisterMore(Host[p], Name[p], c, Port[p])
    <2>1. PICK i \in Slots :
            /\ First(i, find_peer_by_name(Name[p]))
            /\ peers[i].ip = Host[p]
            /\ Len(peers[i].contents) < MaxContent
            /\ find_content_index_in_peer(peers[i], c) = {}
            /\ peers' = [peers EXCEPT ![i].contents = Append(@, c),
                                      ![i].sent_count = Append(@, 0),
                                      ![i].tcp_port = Port[p]]
            /\ out' = <<ack>>
      BY <1>1 DEF RegisterMore
    <2>2. Holds(i, p) /\ peers[i] \in Peer
      BY <2>1 DEF First, find_peer_by_name, Holds, TableInv, TableTypeOK
    <2>3. /\ peers'[i].contents = Append(peers[i].contents, c)
          /\ peers'[i].in_use /\ peers'[i].name = Name[p] /\ peers'[i].ip = Host[p]
          /\ peers'[i].tcp_port = Port[p]
          /\ \A j \in Slots : j # i => peers'[j] = peers[j]
      BY <2>1, <2>2 DEF Holds, Peer, TableInv, TableTypeOK
    <2>4. OfferedBy(p) = ToSet(peers[i].contents)
      BY <2>2, Offers DEF TableInv
    <2>5. ToSet(peers'[i].contents) = OfferedBy(p) \cup {c}
      <3>1. PICK s \in Seq(Contents) : s = peers[i].contents
        BY <2>2 DEF Peer
      <3>2. ToSet(Append(s, c)) = ToSet(s) \cup {c}
        BY AppendElements
      <3> QED BY <2>3, <2>4, <3>1, <3>2
    <2>6. NowOffers(p, OfferedBy(p) \cup {c})
      BY <2>2, <2>3, <2>5, SlotOffers
    <2>7. c \notin OfferedBy(p)
      BY <2>1, <2>2, EntryOffers DEF find_content_index_in_peer
    <2>8. Cardinality(OfferedBy(p)) < MaxContent
      BY <2>1, <2>2, EntryOffers
    <2> QED BY <2>1, <2>6, <2>7, <2>8
  <1>2. CASE RegisterNew(Host[p], Name[p], c, Port[p])
    <2>1. PICK i \in Slots :
            /\ find_peer_by_name(Name[p]) = {}
            /\ First(i, first_free_peer_slot)
            /\ peers' = [peers EXCEPT ![i] =
                           [in_use |-> TRUE, name |-> Name[p], ip |-> Host[p],
                            tcp_port |-> Port[p], contents |-> <<c>>, sent_count |-> <<0>>]]
            /\ out' = <<ack>>
      BY <1>2 DEF RegisterNew
    <2>2. ~peers[i].in_use /\ \A j \in Slots : ~Holds(j, p)
      BY <2>1 DEF First, first_free_peer_slot, find_peer_by_name, Holds
    <2>3. /\ peers'[i].contents = <<c>>
          /\ peers'[i].in_use /\ peers'[i].name = Name[p] /\ peers'[i].ip = Host[p]
          /\ peers'[i].tcp_port = Port[p]
          /\ \A j \in Slots : j # i => peers'[j] = peers[j]
      BY <2>1 DEF TableInv, TableTypeOK
    <2>4. OfferedBy(p) = {} /\ Cardinality({}) = 0
      BY <2>2, OffersNothing, FS_EmptySet
    <2>5. ToSet(<<c>>) = {c}
      <3>1. <<c>> \in Seq(Contents) /\ Len(<<c>>) = 1 /\ <<c>>[1] = c
        OBVIOUS
      <3>2. \A x : x \in ToSet(<<c>>) <=> \E k \in 1..1 : <<c>>[k] = x
        BY <3>1, ElementsAre
      <3> QED BY <3>1, <3>2
    <2>6. NowOffers(p, {c})
      BY <2>2, <2>3, <2>5, SlotOffers
    <2>7. OfferedBy(p) \cup {c} = {c} /\ 0 < MaxContent
      BY <2>4, DirectoryAssumption
    <2> QED BY <2>1, <2>4, <2>6, <2>7
  <1>3. CASE RegisterRefused(Host[p], Name[p], c)
    <2>1. out' = <<err>> /\ UNCHANGED peers
      BY <1>3 DEF RegisterRefused
    <2>2. OffersStay
      BY <2>1, SameOffers
    <2>3. ASSUME NEW i \in Slots, First(i, find_peer_by_name(Name[p])),
                 \/ peers[i].ip # Host[p]
                 \/ Len(peers[i].contents) >= MaxContent
                 \/ find_content_index_in_peer(peers[i], c) # {}
          PROVE  c \in OfferedBy(p) \/ Cardinality(OfferedBy(p)) >= MaxContent
      <3>1. Holds(i, p) /\ peers[i].ip = Host[p]
        BY <2>3, HoldsAddress DEF First, find_peer_by_name, Holds
      <3>2. CASE Len(peers[i].contents) >= MaxContent
        BY <3>1, <3>2, EntryOffers
      <3>3. CASE find_content_index_in_peer(peers[i], c) # {}
        BY <3>1, <3>3, EntryOffers DEF find_content_index_in_peer
      <3> QED BY <2>3, <3>1, <3>2, <3>3
    <2>4. ASSUME find_peer_by_name(Name[p]) = {}, first_free_peer_slot = {}
          PROVE  FALSE
      BY <2>4, FreeSlot DEF find_peer_by_name, Holds
    <2> QED BY <1>3, <2>1, <2>2, <2>3, <2>4 DEF RegisterRefused
  <1> QED BY <1>1, <1>2, <1>3 DEF Register

\* A search changes one count, if anything.
LEMMA SearchEffect ==
    ASSUME TableInv, Known, NEW c, Search(c)
    PROVE  OffersStay
  <1>1. CASE SearchFound(c)
    <2>1. PICK i \in Slots, k \in 1..MaxContent :
            peers' = [peers EXCEPT ![i].sent_count[k] = @ + 1]
      BY <1>1 DEF SearchFound
    <2>2. \A j \in Slots : /\ peers'[j].in_use = peers[j].in_use
                           /\ peers'[j].name = peers[j].name /\ peers'[j].ip = peers[j].ip
                           /\ peers'[j].tcp_port = peers[j].tcp_port
                           /\ peers'[j].contents = peers[j].contents
      BY <2>1 DEF TableInv, TableTypeOK, Peer
    <2> QED BY <2>2, SameOffers
  <1>2. CASE SearchFails(c)
    BY <1>2, SameOffers DEF SearchFails
  <1> QED BY <1>1, <1>2 DEF Search

\* The sender's address finds the sender's slot: the content goes, unless it was
\* not there.
LEMMA DeregisterEffect ==
    ASSUME TableInv, TableInv', Known, OnePeerPerHost, NEW p \in Procs,
           NEW c \in Contents, Deregister(Host[p], c)
    PROVE  /\ NowOffers(p, OfferedBy(p) \ {c})
           /\ \/ out' = <<ack>>
              \/ out' = <<err>> /\ c \notin OfferedBy(p)
  <1>1. ASSUME NEW i \in Slots, First(i, find_peer_by_ip(Host[p]))
        PROVE  Holds(i, p) /\ peers[i] \in Peer /\ EntryWhole(peers[i])
    BY <1>1, HoldsAddress DEF First, find_peer_by_ip, TableInv, TableTypeOK, EntriesWhole
  <1>2. CASE DeregisterContent(Host[p], c)
    <2>1. PICK i \in Slots, k \in 1..MaxContent :
            /\ First(i, find_peer_by_ip(Host[p]))
            /\ First(k, find_content_index_in_peer(peers[i], c))
            /\ Len(peers[i].contents) > 1
            /\ peers' = [peers EXCEPT ![i] = Shift(@, k)]
            /\ out' = <<ack>>
      BY <1>2 DEF DeregisterContent
    <2>2. Holds(i, p) /\ peers[i] \in Peer /\ peers[i].ip = Host[p] /\ EntryWhole(peers[i])
      BY <1>1, <2>1, HoldsAddress
    <2>3. PICK s \in Seq(Contents) :
            s = peers[i].contents /\ IsInjective(s) /\ k \in 1..Len(s) /\ s[k] = c
      BY <2>1, <2>2 DEF Peer, EntryWhole, Holds, First, find_content_index_in_peer
    <2>4. peers[i].tcp_port = Port[p]
      BY <2>2 DEF Known, OnePeerPerHost, Holds
    <2>5. /\ peers'[i].contents = RemoveAt(s, k)
          /\ peers'[i].in_use /\ peers'[i].name = Name[p] /\ peers'[i].ip = Host[p]
          /\ peers'[i].tcp_port = Port[p]
          /\ \A j \in Slots : j # i => peers'[j] = peers[j]
      BY <2>1, <2>2, <2>3, <2>4 DEF Holds, Peer, Shift, TableInv, TableTypeOK
    <2>6. ToSet(peers'[i].contents) = OfferedBy(p) \ {c}
      BY <2>2, <2>3, <2>5, Offers, RemoveInjective DEF TableInv
    <2> QED BY <2>1, <2>2, <2>5, <2>6, SlotOffers
  <1>3. CASE DeregisterPeer(Host[p], c)
    <2>1. PICK i \in Slots :
            /\ First(i, find_peer_by_ip(Host[p]))
            /\ peers[i].contents = <<c>>
            /\ peers' = [peers EXCEPT ![i] = Cleared]
            /\ out' = <<ack>>
      BY <1>3 DEF DeregisterPeer
    <2>2. Holds(i, p) /\ ~peers'[i].in_use
          /\ \A j \in Slots : j # i => peers'[j] = peers[j]
      BY <1>1, <2>1, ClearedWhole DEF TableInv, TableTypeOK
    <2>3. NowOffers(p, {})
      BY <2>2, SlotOffers
    <2>4. \A d : d \in OfferedBy(p) <=> \E k \in 1..Len(<<c>>) : <<c>>[k] = d
      BY <2>1, <2>2, EntryOffers
    <2>5. OfferedBy(p) \ {c} = {}
      <3>1. Len(<<c>>) = 1 /\ <<c>>[1] = c
        OBVIOUS
      <3> QED BY <2>4, <3>1
    <2> QED BY <2>1, <2>3, <2>5
  <1>4. CASE DeregisterRefused(Host[p], c)
    <2>1. out' = <<err>> /\ UNCHANGED peers
      BY <1>4 DEF DeregisterRefused
    <2>2. OffersStay
      BY <2>1, SameOffers
    <2>3. c \notin OfferedBy(p)
      <3>1. CASE find_peer_by_ip(Host[p]) = {}
        <4>1. \A i \in Slots : ~Holds(i, p)
          BY <3>1, HoldsAddress DEF find_peer_by_ip
        <4> QED BY <4>1, OffersNothing
      <3>2. ASSUME NEW i \in Slots, First(i, find_peer_by_ip(Host[p])),
                   find_content_index_in_peer(peers[i], c) = {}
            PROVE  c \notin OfferedBy(p)
        BY <1>1, <3>2, EntryOffers DEF find_content_index_in_peer
      <3> QED BY <1>4, <3>1, <3>2 DEF DeregisterRefused
    <2>4. OfferedBy(p) \ {c} = OfferedBy(p)
      BY <2>3
    <2> QED BY <2>1, <2>2, <2>3, <2>4 DEF NowOffers, OffersStay
  <1> QED BY <1>2, <1>3, <1>4 DEF Deregister

\* The goodbye of a peer that lists nothing changes nothing.
LEMMA ByeEffect ==
    ASSUME TableInv, Known, NEW p \in Procs, OfferedBy(p) = {}, Bye(Name[p])
    PROVE  OffersStay
  <1>1. \A i \in Slots : ~Holds(i, p)
    BY EntryOffers
  <1>2. find_peer_by_name(Name[p]) = {}
    BY <1>1 DEF find_peer_by_name, Holds
  <1>3. UNCHANGED peers
    BY <1>2 DEF Bye, First
  <1> QED BY <1>3, SameOffers
-----------------------------------------------------------------------------
(* A peer's own list, and what is on its way between it and the directory.  *)

FirstOf(s, n) == {s[k] : k \in 1..n}

Refused(p) == \E k \in DOMAIN replies[p] : replies[p][k].datagram.type = "E"
Accepted(p) == \E k \in DOMAIN replies[p] : replies[p][k].datagram.type # "E"

\* The request under way is about the content of the command.
About(p) ==
    \A m \in Unanswered(p) :
        /\ pc[p] \in {"register", "register_copy", "deregister"} => m.content = arg[p]
        /\ pc[p] = "quitting" => m.content = contentList[p][togo[p]]

\* A registration under way will add its content, one that is acknowledged has
\* added it, one that is refused has changed nothing.
Registering(p) ==
    LET O == OfferedBy(p)
        L == ToSet(contentList[p])
    IN  /\ Unanswered(p) # {} => O = L /\ arg[p] \notin L
        /\ Refused(p) => O = L
        /\ Accepted(p) => /\ O = L \cup {arg[p]} /\ arg[p] \notin L
                          /\ Len(contentList[p]) < MaxContent

\* A copy is in the list before it is registered; with the list full, neither
\* the list nor the directory takes it.
Copying(p) ==
    LET O == OfferedBy(p)
        L == ToSet(contentList[p])
    IN  /\ Unanswered(p) # {} =>
             \/ arg[p] \in L /\ O \cup {arg[p]} = L
             \/ arg[p] \notin L /\ O = L /\ Len(contentList[p]) = MaxContent
        /\ Refused(p) \/ Accepted(p) => O = L

Deregistering(p) ==
    LET O == OfferedBy(p)
        L == ToSet(contentList[p])
    IN  /\ Unanswered(p) # {} => O = L
        /\ Refused(p) => O = L
        /\ Accepted(p) => O = L \ {arg[p]}

\* What is still to deregister is what the directory still lists.
Withdrawing(p) ==
    /\ Unanswered(p) # {} => OfferedBy(p) = FirstOf(contentList[p], togo[p])
    /\ Refused(p) \/ Accepted(p) => OfferedBy(p) = FirstOf(contentList[p], togo[p] - 1)

Settled == {"menu", "search", "fetch", "receive", "list"}

Agreed(p) ==
    /\ About(p)
    /\ IsInjective(contentList[p])
    /\ pc[p] \in Settled => OfferedBy(p) = ToSet(contentList[p])
    /\ pc[p] = "register" => Registering(p)
    /\ pc[p] = "register_copy" => Copying(p)
    /\ pc[p] = "deregister" => Deregistering(p)
    /\ pc[p] = "quitting" => Withdrawing(p)
    /\ pc[p] = "quit" => OfferedBy(p) = {}
    /\ OfferedBy(p) # {} =>
         \/ p \in hosting
         \/ /\ pc[p] \in {"register", "register_copy"}
            /\ Unanswered(p) = {} /\ ~Refused(p)

ListsInv == Known /\ \A p \in Procs : Agreed(p)

\* Nothing of q's is touched, its entry neither.
SameFor(q) ==
    /\ Untouched(q) /\ OfferedBy(q)' = OfferedBy(q)
    /\ arg'[q] = arg[q] /\ contentList'[q] = contentList[q] /\ togo'[q] = togo[q]
    /\ q \in hosting => q \in hosting'

LEMMA SameAgreed ==
    ASSUME NEW q \in Procs, Agreed(q), SameFor(q)
    PROVE  Agreed(q)'
  <1>1. /\ Unanswered(q)' = Unanswered(q) /\ replies'[q] = replies[q] /\ pc'[q] = pc[q]
        /\ OfferedBy(q)' = OfferedBy(q)
        /\ arg'[q] = arg[q] /\ contentList'[q] = contentList[q] /\ togo'[q] = togo[q]
        /\ q \in hosting => q \in hosting'
    BY DEF SameFor, Untouched
  <1>2. (Refused(q)' <=> Refused(q)) /\ (Accepted(q)' <=> Accepted(q))
    BY <1>1 DEF Refused, Accepted
  <1>3. About(q)'
    BY <1>1 DEF Agreed, About
  <1>4. pc[q] = "register" => Registering(q)'
    BY <1>1, <1>2 DEF Agreed, Registering
  <1>5. pc[q] = "register_copy" => Copying(q)'
    BY <1>1, <1>2 DEF Agreed, Copying
  <1>6. pc[q] = "deregister" => Deregistering(q)'
    BY <1>1, <1>2 DEF Agreed, Deregistering
  <1>7. pc[q] = "quitting" => Withdrawing(q)'
    BY <1>1, <1>2 DEF Agreed, Withdrawing
  <1> QED BY <1>1, <1>2, <1>3, <1>4, <1>5, <1>6, <1>7 DEF Agreed

\* A step of p that leaves the table alone, and the others.
LEMMA OthersAgree ==
    ASSUME ListsInv, UNCHANGED peers, NEW p \in Procs, Agreed(p)',
           \A q \in Procs : q # p =>
              /\ Untouched(q)
              /\ arg'[q] = arg[q] /\ contentList'[q] = contentList[q] /\ togo'[q] = togo[q]
              /\ q \in hosting => q \in hosting'
    PROVE  ListsInv'
  <1>1. OffersStay
    BY SameOffers DEF ListsInv
  <1>2. ASSUME NEW q \in Procs, q # p PROVE Agreed(q)'
    BY <1>1, <1>2, SameAgreed DEF SameFor, OffersStay, ListsInv
  <1> QED BY <1>1, <1>2 DEF ListsInv, OffersStay

\* p's command is over, or is one that registers nothing.
LEMMA SettledAgreed ==
    ASSUME NEW p \in Procs, pc'[p] \in Settled, IsInjective(contentList'[p]),
           OfferedBy(p)' = ToSet(contentList'[p]), OfferedBy(p)' # {} => p \in hosting'
    PROVE  Agreed(p)'
  <1>1. pc'[p] \notin {"register", "register_copy", "deregister", "quitting", "quit"}
    BY DEF Settled
  <1> QED BY <1>1 DEF Agreed, About

-----------------------------------------------------------------------------
(* The server's answer.                                                     *)

LEMMA ServedReplies ==
    ASSUME PeerInv, NEW p \in Procs, NEW m \in requests, m.from = p, Deliver(m),
           pc[p] \in Waiting, replies[p] = <<>>, NEW a, out' = <<a>>
    PROVE  DOMAIN replies'[p] = {1} /\ replies'[p][1].datagram = a
  <1>1. pc[p] \notin {"quit", "eof"}
    BY DEF Waiting
  <1> DEFINE new == [k \in 1..Len(out') |-> [re |-> m.type, datagram |-> out'[k]]]
  <1>2. replies' = [replies EXCEPT ![p] = @ \o new]
    BY <1>1 DEF Deliver
  <1>3. PICK b \in Seq(Answer) : b = out' /\ Len(b) = 1 /\ b[1] = a
    BY DeliverTypes DEF PeerInv
  <1>4. new \in Seq(Item) /\ Len(new) = 1 /\ new[1].datagram = a
    <2>1. m.type \in {"R", "S", "T", "O", "B"}
      BY DEF PeerInv, MessagesOK, Datagram
    <2>2. new = [k \in 1..1 |-> [re |-> m.type, datagram |-> b[k]]]
      BY <1>3
    <2>3. [k \in 1..1 |-> [re |-> m.type, datagram |-> b[k]]] \in Seq(Item)
      BY <1>3, <2>1 DEF Item
    <2> HIDE DEF new
    <2> QED BY <1>3, <2>2, <2>3
  <1> HIDE DEF new
  <1>5. replies'[p] = <<>> \o new
    BY <1>2 DEF PeerInv, MessagesOK
  <1>6. replies'[p] = new
    BY <1>4, <1>5
  <1> QED BY <1>4, <1>6

\* The table lists as much of p's as p will have in its list.
LEMMA ServeAgreed ==
    ASSUME PeerInv, AnswersInv, ListsInv, OnePeerPerHost, RoomForAll,
           NEW p \in Procs, Serve(p)
    PROVE  ListsInv'
  <1>1. PICK m \in requests : m.from = p /\ Deliver(m) /\ requests' = requests \ {m}
    BY DEF Serve
  <1>2. /\ m \in Unanswered(p) /\ OneAnswer(p) /\ Agreed(p) /\ Known /\ TableInv
        /\ m.type \in {"R", "S", "T"} => m.content \in Contents
    BY <1>1 DEF Unanswered, AnswersInv, ListsInv, PeerInv, MessagesOK
  <1>3. /\ UNCHANGED <<pc, arg, contentList, togo, hosting>>
        /\ Handle(m) /\ TableInv' /\ Unanswered(p)' = {}
    <2>1. Unanswered(p)' = {}
      BY <1>1, <1>2 DEF OneAnswer, Unanswered
    <2> QED BY <1>1, <2>1, DeliverTypes DEF Deliver, main, tcp, PeerInv
  <1>4. ASSUME NEW q \in Procs, q # p PROVE Untouched(q)
    <2>1. Unanswered(q)' = Unanswered(q)
      BY <1>1, <1>4 DEF Unanswered
    <2>2. replies'[q] = replies[q]
      BY <1>1, <1>4 DEF Deliver, PeerInv, MessagesOK
    <2> QED BY <1>3, <2>1, <2>2 DEF Untouched
  <1>5. ASSUME Agreed(p)', Known', \A q \in Procs : q # p => OfferedBy(q)' = OfferedBy(q)
        PROVE  ListsInv'
    <2>1. ASSUME NEW q \in Procs, q # p PROVE SameFor(q)
      BY <1>3, <1>4, <1>5, <2>1 DEF SameFor
    <2> QED BY <1>5, <2>1, SameAgreed DEF ListsInv
  <1>6. ASSUME Agreed(p)', OffersStay PROVE ListsInv'
    BY <1>5, <1>6 DEF OffersStay
  <1>7. ASSUME NEW S, Agreed(p)', NowOffers(p, S) PROVE ListsInv'
    BY <1>5, <1>7 DEF NowOffers
  <1>8. About(p)' /\ IsInjective(contentList'[p])
    BY <1>2, <1>3 DEF About, Agreed
  <1>9. CASE pc[p] = "quit"
    <2>1. m.type = "B"
      BY <1>2, <1>9 DEF OneAnswer, Waiting
    <2>2. Bye(Name[p])
      BY <1>1, <1>3, <2>1 DEF Handle
    <2>3. OffersStay
      BY <1>2, <1>9, <2>2, ByeEffect DEF Agreed
    <2>4. Agreed(p)'
      BY <1>2, <1>3, <1>8, <1>9, <2>3 DEF Agreed, OffersStay, Settled
    <2> QED BY <1>6, <2>3, <2>4
  <1>10. ASSUME pc[p] # "quit"
         PROVE  pc[p] \in Waiting /\ m.type = Asked[pc[p]] /\ replies[p] = <<>>
    BY <1>2, <1>10 DEF OneAnswer
  <1>11. OfferedBy(p) # {} => p \in hosting
    BY <1>2 DEF Agreed
  <1>12. ASSUME pc[p] \in Waiting, replies[p] = <<>>, out' = <<ack>>
         PROVE  Accepted(p)' /\ ~Refused(p)'
    <2>1. ack.type # "E"
      BY DEF ack
    <2>2. DOMAIN replies'[p] = {1} /\ replies'[p][1].datagram = ack
      BY <1>1, <1>12, ServedReplies
    <2> QED BY <2>1, <2>2 DEF Accepted, Refused
  <1>13. ASSUME pc[p] \in Waiting, replies[p] = <<>>, out' = <<err>>
         PROVE  Refused(p)' /\ ~Accepted(p)'
    <2>1. err.type = "E"
      BY DEF err, ack
    <2>2. DOMAIN replies'[p] = {1} /\ replies'[p][1].datagram = err
      BY <1>1, <1>13, ServedReplies
    <2> QED BY <2>1, <2>2 DEF Accepted, Refused
  <1>14. CASE pc[p] \in {"search", "list"}
    <2>1. m.type \in {"S", "O"} /\ pc[p] # "quit" /\ pc[p] \in Settled
      BY <1>10, <1>14 DEF Asked, Waiting, Settled
    <2>2. Search(m.content) \/ List
      BY <1>3, <2>1 DEF Handle
    <2>3. OffersStay
      BY <1>2, <2>2, SearchEffect, SameOffers DEF List
    <2>4. Agreed(p)'
      BY <1>2, <1>3, <1>14, <2>1, <2>3, SettledAgreed DEF Agreed, OffersStay
    <2> QED BY <1>6, <2>3, <2>4
  <1>15. ASSUME pc[p] \in {"register", "register_copy"}
         PROVE  /\ m.content = arg[p] /\ arg[p] \in Contents
                /\ Register(Host[p], Name[p], arg[p], Port[p])
                /\ replies[p] = <<>> /\ pc[p] \in Waiting
                /\ OfferedBy(p) # {} => p \in hosting
    <2>1. m.type = "R" /\ pc[p] \in Waiting /\ replies[p] = <<>>
      BY <1>10, <1>15 DEF Asked, Waiting
    <2>2. m.content = arg[p]
      BY <1>2, <1>15 DEF Agreed, About
    <2>3. OfferedBy(p) # {} => p \in hosting
      BY <1>11
    <2> QED BY <1>1, <1>2, <1>3, <2>1, <2>2, <2>3 DEF Handle
  <1>16. ASSUME pc[p] \in {"register", "register_copy"}
         PROVE  \/ /\ out' = <<ack>> /\ NowOffers(p, OfferedBy(p) \cup {arg[p]})
                   /\ arg[p] \notin OfferedBy(p) /\ Cardinality(OfferedBy(p)) < MaxContent
                \/ /\ out' = <<err>> /\ OffersStay
                   /\ arg[p] \in OfferedBy(p) \/ Cardinality(OfferedBy(p)) >= MaxContent
    <2>1. PICK c \in Contents : c = arg[p]
      BY <1>15, <1>16
    <2>2. Register(Host[p], Name[p], c, Port[p])
      BY <1>15, <1>16, <2>1
    <2> QED BY <1>2, <1>3, <2>1, <2>2, RegisterEffect
  <1>17. PICK s \in Seq(Contents) :
           /\ s = contentList[p] /\ Len(s) <= MaxContent
           /\ Cardinality(ToSet(s)) = Len(s) /\ IsFiniteSet(ToSet(s))
    <2>1. PICK s \in Seq(Contents) : s = contentList[p] /\ Len(s) <= MaxContent
      BY DEF PeerInv, HostInv, CommandsOK
    <2>2. IsInjective(s)
      BY <1>2, <2>1 DEF Agreed
    <2> QED BY <2>1, <2>2, InjectiveCount
  <1>18. CASE pc[p] = "register"
    <2>1. OfferedBy(p) = ToSet(s) /\ arg[p] \notin ToSet(s)
      BY <1>2, <1>17, <1>18 DEF Agreed, Registering
    <2>2. CASE /\ out' = <<ack>> /\ NowOffers(p, OfferedBy(p) \cup {arg[p]})
               /\ arg[p] \notin OfferedBy(p) /\ Cardinality(OfferedBy(p)) < MaxContent
      <3>1. OfferedBy(p)' = ToSet(s) \cup {arg[p]} /\ Len(s) < MaxContent
        BY <1>17, <2>1, <2>2 DEF NowOffers
      <3>2. Accepted(p)' /\ ~Refused(p)'
        BY <1>12, <1>15, <1>18, <2>2
      <3>3. Registering(p)'
        BY <1>3, <1>17, <2>1, <3>1, <3>2 DEF Registering
      <3>4. Agreed(p)'
        BY <1>3, <1>8, <1>18, <3>2, <3>3 DEF Agreed, Settled
      <3> QED BY <1>5, <2>2, <3>4 DEF NowOffers
    <2>3. CASE out' = <<err>> /\ OffersStay
      <3>1. ~Accepted(p)' /\ OfferedBy(p)' = OfferedBy(p)
        BY <1>13, <1>15, <1>18, <2>3 DEF OffersStay
      <3>2. Registering(p)'
        BY <1>3, <1>17, <2>1, <3>1 DEF Registering
      <3>3. Agreed(p)'
        BY <1>3, <1>8, <1>15, <1>18, <3>1, <3>2 DEF Agreed, Settled
      <3> QED BY <1>6, <2>3, <3>3
    <2> QED BY <1>16, <1>18, <2>2, <2>3
  <1>19. CASE pc[p] = "register_copy"
    <2>1. \/ arg[p] \in ToSet(s) /\ OfferedBy(p) \cup {arg[p]} = ToSet(s)
          \/ arg[p] \notin ToSet(s) /\ OfferedBy(p) = ToSet(s) /\ Len(s) = MaxContent
      BY <1>2, <1>17, <1>19 DEF Agreed, Copying
    <2>2. CASE /\ out' = <<ack>> /\ NowOffers(p, OfferedBy(p) \cup {arg[p]})
               /\ arg[p] \notin OfferedBy(p) /\ Cardinality(OfferedBy(p)) < MaxContent
      <3>1. OfferedBy(p)' = ToSet(s)
        <4>1. ~(OfferedBy(p) = ToSet(s) /\ Len(s) = MaxContent)
          BY <1>17, <2>2, DirectoryAssumption
        <4> QED BY <2>1, <2>2, <4>1 DEF NowOffers
      <3>2. ~Refused(p)' /\ Copying(p)'
        BY <1>3, <1>12, <1>15, <1>17, <1>19, <2>2, <3>1 DEF Copying
      <3>3. Agreed(p)'
        BY <1>3, <1>8, <1>19, <3>2 DEF Agreed, Settled
      <3> QED BY <1>5, <2>2, <3>3 DEF NowOffers
    <2>3. CASE /\ out' = <<err>> /\ OffersStay
               /\ arg[p] \in OfferedBy(p) \/ Cardinality(OfferedBy(p)) >= MaxContent
      <3>1. OfferedBy(p) = ToSet(s)
        <4>1. CASE arg[p] \in OfferedBy(p)
          BY <2>1, <4>1
        <4>2. CASE /\ arg[p] \notin OfferedBy(p) /\ arg[p] \in ToSet(s)
                   /\ OfferedBy(p) \cup {arg[p]} = ToSet(s)
                   /\ Cardinality(OfferedBy(p)) >= MaxContent
          <5>1. PICK O : O = OfferedBy(p)
            OBVIOUS
          <5>2. PICK c : c = arg[p]
            OBVIOUS
          <5>3. IsFiniteSet(O) /\ c \notin O /\ O \cup {c} = ToSet(s)
            <6>1. O \in SUBSET ToSet(s)
              BY <4>2, <5>1
            <6> QED BY <1>17, <4>2, <5>1, <5>2, <6>1, FS_Subset
          <5>4. Cardinality(ToSet(s)) = Cardinality(O) + 1 /\ Cardinality(O) \in Nat
            BY <5>3, FS_AddElement, FS_CardinalityType
          <5>5. Cardinality(O) >= MaxContent
            BY <4>2, <5>1
          <5> QED BY <1>17, <5>4, <5>5, DirectoryAssumption
        <4> QED BY <2>1, <2>3, <4>1, <4>2
      <3>2. OfferedBy(p)' = ToSet(s) /\ ~Accepted(p)'
        BY <1>13, <1>15, <1>19, <2>3, <3>1 DEF OffersStay
      <3>3. Copying(p)'
        BY <1>3, <1>17, <3>2 DEF Copying
      <3>4. Agreed(p)'
        BY <1>3, <1>8, <1>15, <1>19, <3>1, <3>2, <3>3 DEF Agreed, Settled
      <3> QED BY <1>6, <2>3, <3>4
    <2> QED BY <1>16, <1>19, <2>2, <2>3
  <1>20. ASSUME pc[p] \in {"deregister", "quitting"}
         PROVE  /\ NowOffers(p, OfferedBy(p) \ {m.content})
                /\ \/ ~Refused(p)' /\ Accepted(p)'
                   \/ ~Accepted(p)' /\ m.content \notin OfferedBy(p)
                /\ OfferedBy(p) # {} => p \in hosting
    <2>1. m.type = "T" /\ pc[p] \in Waiting /\ replies[p] = <<>>
      BY <1>10, <1>20 DEF Asked, Waiting
    <2>2. PICK c \in Contents : c = m.content /\ Deregister(Host[p], c)
      BY <1>1, <1>2, <1>3, <2>1 DEF Handle
    <2>3. /\ NowOffers(p, OfferedBy(p) \ {c})
          /\ \/ out' = <<ack>>
             \/ out' = <<err>> /\ c \notin OfferedBy(p)
      BY <1>2, <1>3, <2>2, DeregisterEffect
    <2>4. OfferedBy(p) # {} => p \in hosting
      BY <1>2, <1>20 DEF Agreed
    <2> QED BY <1>12, <1>13, <2>1, <2>2, <2>3, <2>4
  <1>21. CASE pc[p] = "deregister"
    <2>1. OfferedBy(p) = ToSet(s) /\ m.content = arg[p]
      BY <1>2, <1>17, <1>21 DEF Agreed, Deregistering, About
    <2>2. OfferedBy(p)' = ToSet(s) \ {arg[p]}
      BY <1>20, <1>21, <2>1 DEF NowOffers
    <2>3. Refused(p)' => OfferedBy(p)' = ToSet(s)
      BY <1>20, <1>21, <2>1, <2>2
    <2>4. Deregistering(p)'
      BY <1>3, <1>17, <2>2, <2>3 DEF Deregistering
    <2>5. Agreed(p)'
      BY <1>3, <1>8, <1>20, <1>21, <2>1, <2>2, <2>4 DEF Agreed, Settled
    <2> QED BY <1>5, <1>20, <1>21, <2>5 DEF NowOffers
  <1>22. CASE pc[p] = "quitting"
    <2>1. PICK n \in 1..Len(s) : n = togo[p]
      BY <1>17, <1>22 DEF PeerInv, CommandsOK
    <2>2. OfferedBy(p) = FirstOf(s, n) /\ m.content = s[n]
      BY <1>2, <1>17, <1>22, <2>1 DEF Agreed, Withdrawing, About
    <2>3. FirstOf(s, n) \ {s[n]} = FirstOf(s, n - 1)
      <3>1. \A j, k \in 1..Len(s) : s[j] = s[k] => j = k
        BY <1>2, <1>17 DEF Agreed, IsInjective
      <3>2. \A k \in 1..n : k \in 1..Len(s) /\ (k # n => k \in 1..(n - 1))
        OBVIOUS
      <3>3. \A k \in 1..(n - 1) : k \in 1..n /\ k # n
        OBVIOUS
      <3> QED BY <3>1, <3>2, <3>3 DEF FirstOf
    <2>4. OfferedBy(p)' = FirstOf(s, n - 1)
      BY <1>20, <1>22, <2>2, <2>3 DEF NowOffers
    <2>5. Withdrawing(p)'
      BY <1>3, <1>17, <2>1, <2>4 DEF Withdrawing
    <2>6. OfferedBy(p)' # {} => p \in hosting'
      BY <1>3, <1>20, <1>22 DEF NowOffers
    <2>7. Agreed(p)'
      BY <1>3, <1>8, <1>22, <2>5, <2>6 DEF Agreed, Settled
    <2> QED BY <1>5, <1>20, <1>22, <2>7 DEF NowOffers
  <1> QED BY <1>9, <1>10, <1>14, <1>18, <1>19, <1>21, <1>22 DEF Waiting
-----------------------------------------------------------------------------
(* The peers' own steps.                                                    *)

LEMMA OffersUnchanged ==
    ASSUME UNCHANGED peers
    PROVE  \A q \in Procs : OfferedBy(q)' = OfferedBy(q)
  BY DEF OfferedBy, find_peer_by_name

\* One more deregistration, or B when the directory lists nothing any more.
LEMMA LeavingAgreed ==
    ASSUME PeerInv, NEW p \in Procs, NEW n \in 0..Len(contentList[p]), Leaving(p, n),
           IsInjective(contentList[p]), Unanswered(p) = {}, replies'[p] = <<>>,
           OfferedBy(p) = FirstOf(contentList[p], n), OfferedBy(p) # {} => p \in hosting
    PROVE  /\ Agreed(p)'
           /\ \A q \in Procs : q # p =>
                /\ Unanswered(q)' = Unanswered(q) /\ pc'[q] = pc[q] /\ arg'[q] = arg[q]
                /\ contentList'[q] = contentList[q] /\ togo'[q] = togo[q]
                /\ q \in hosting => q \in hosting'
  <1>1. /\ togo'[p] = n /\ UNCHANGED <<peers, arg>>
        /\ \A q \in Procs : q # p => togo'[q] = togo[q]
    BY DEF Leaving, Quiet, PeerInv, CommandsOK
  <1>2. OfferedBy(p)' = OfferedBy(p) /\ ~Refused(p)' /\ ~Accepted(p)'
    <2>1. DOMAIN replies'[p] = {}
      BY SMT
    <2> QED BY <1>1, <2>1, OffersUnchanged DEF Refused, Accepted
  <1>3. CASE /\ Send(p, "T", contentList[p][n])
             /\ pc' = [pc EXCEPT ![p] = "quitting"]
             /\ UNCHANGED <<contentList, tcp>>
    <2>1. PICK c : c = contentList[p][n]
      OBVIOUS
    <2>2. Send(p, "T", c)
      BY <1>3, <2>1 DEF Send
    <2>3. /\ pc'[p] = "quitting" /\ UNCHANGED <<contentList, hosting>>
          /\ \A q \in Procs : q # p => pc'[q] = pc[q]
      BY <1>3 DEF tcp, PeerInv, HostInv
    <2>4. /\ Unanswered(p)' = {[type |-> "T", from |-> p, content |-> c]}
          /\ \A q \in Procs : q # p => Unanswered(q)' = Unanswered(q)
      BY <2>2, SendOne
    <2>5. About(p)'
      BY <1>1, <2>1, <2>3, <2>4 DEF About
    <2>6. Withdrawing(p)'
      BY <1>1, <1>2, <2>3 DEF Withdrawing
    <2>7. Agreed(p)'
      BY <1>2, <2>3, <2>5, <2>6 DEF Agreed, Settled
    <2> QED BY <1>1, <2>3, <2>4, <2>7
  <1>4. CASE /\ n = 0 /\ Send(p, "B", "none")
             /\ pc' = [pc EXCEPT ![p] = "quit"]
             /\ contentList' = [contentList EXCEPT ![p] = <<>>]
             /\ hosting' = hosting \ {p}
    <2>1. /\ pc'[p] = "quit" /\ contentList'[p] = <<>>
          /\ \A q \in Procs : q # p => pc'[q] = pc[q] /\ contentList'[q] = contentList[q]
      BY <1>4 DEF PeerInv, HostInv
    <2>2. \A q \in Procs : q # p => Unanswered(q)' = Unanswered(q)
      BY <1>4, SendOne
    <2>3. OfferedBy(p)' = {}
      BY <1>2, <1>4 DEF FirstOf
    <2>4. IsInjective(<<>>)
      BY DEF IsInjective
    <2>5. Agreed(p)'
      BY <2>1, <2>3, <2>4 DEF Agreed, About, Settled
    <2> QED BY <1>1, <1>4, <2>1, <2>2, <2>5
  <1> QED BY <1>3, <1>4, Zenon DEF Leaving

LEMMA UserAgreed ==
    ASSUME PeerInv, AnswersInv, ListsInv, NEW p \in Procs, User(p)
    PROVE  ListsInv'
  <1>1. UNCHANGED peers /\ \A q \in Procs : OfferedBy(q)' = OfferedBy(q)
    <2>1. UNCHANGED peers
      BY PeersAreQuiet DEF Quiet
    <2> QED BY <2>1, OffersUnchanged
  <1>2. Agreed(p)
    BY DEF ListsInv
  <1>3. ASSUME pc[p] = "menu"
        PROVE  /\ Unanswered(p) = {} /\ replies[p] = <<>>
               /\ OfferedBy(p) = ToSet(contentList[p]) /\ IsInjective(contentList[p])
               /\ OfferedBy(p) # {} => p \in hosting
    BY <1>2, <1>3, NothingUnderWay DEF Waiting, AnswersInv, Agreed, Settled
  <1>4. ASSUME Agreed(p)', UNCHANGED replies,
               \A q \in Procs : q # p =>
                 /\ Unanswered(q)' = Unanswered(q) /\ pc'[q] = pc[q] /\ arg'[q] = arg[q]
                 /\ contentList'[q] = contentList[q] /\ togo'[q] = togo[q]
                 /\ q \in hosting => q \in hosting'
        PROVE  ListsInv'
    BY <1>1, <1>4, OthersAgree DEF Untouched
  <1>5. ASSUME NEW type, NEW c, NEW to, Ask(p, type, c, to), UNCHANGED hosting
        PROVE  /\ pc[p] = "menu" /\ pc'[p] = to /\ arg'[p] = c /\ replies'[p] = <<>>
               /\ ~Refused(p)' /\ ~Accepted(p)'
               /\ Unanswered(p)' = {[type |-> type, from |-> p, content |-> c]}
               /\ UNCHANGED <<replies, contentList, togo, hosting>>
               /\ Agreed(p)' => ListsInv'
    <2>1. /\ pc[p] = "menu" /\ Send(p, type, c)
          /\ UNCHANGED <<replies, contentList, togo, hosting>>
      BY <1>5 DEF Ask
    <2>2. /\ pc'[p] = to /\ arg'[p] = c
          /\ \A q \in Procs : q # p => pc'[q] = pc[q] /\ arg'[q] = arg[q]
      BY <1>5 DEF Ask, PeerInv, HostInv
    <2>3. /\ Unanswered(p)' = {[type |-> type, from |-> p, content |-> c]}
          /\ \A q \in Procs : q # p => Unanswered(q)' = Unanswered(q)
      BY <1>3, <2>1, SendOne
    <2>4. replies'[p] = <<>> /\ DOMAIN replies'[p] = {}
      <3>1. DOMAIN <<>> = {}
        BY SMT
      <3> QED BY <1>3, <2>1, <3>1
    <2> QED BY <1>4, <2>1, <2>2, <2>3, <2>4 DEF Refused, Accepted
  <1>6. ASSUME NEW c \in Contents, UserRegister(p, c) PROVE ListsInv'
    <2>1. Ask(p, "R", c, "register") /\ c \notin ToSet(contentList[p]) /\ UNCHANGED hosting
      BY <1>6 DEF UserRegister
    <2>2. /\ pc[p] = "menu" /\ pc'[p] = "register" /\ arg'[p] = c
          /\ ~Refused(p)' /\ ~Accepted(p)' /\ UNCHANGED <<contentList, hosting>>
          /\ Unanswered(p)' = {[type |-> "R", from |-> p, content |-> c]}
          /\ Agreed(p)' => ListsInv'
      BY <1>5, <2>1
    <2>3. About(p)' /\ Registering(p)'
      BY <1>1, <1>3, <2>1, <2>2 DEF About, Registering
    <2> QED BY <1>1, <1>3, <2>2, <2>3 DEF Agreed, Settled
  <1>7. ASSUME NEW c \in Contents, UserDeregister(p, c) PROVE ListsInv'
    <2>1. Ask(p, "T", c, "deregister") /\ UNCHANGED hosting
      BY <1>7 DEF UserDeregister, tcp
    <2>2. /\ pc[p] = "menu" /\ pc'[p] = "deregister" /\ arg'[p] = c
          /\ ~Refused(p)' /\ ~Accepted(p)' /\ UNCHANGED <<contentList, hosting>>
          /\ Unanswered(p)' = {[type |-> "T", from |-> p, content |-> c]}
          /\ Agreed(p)' => ListsInv'
      BY <1>5, <2>1
    <2>3. About(p)' /\ Deregistering(p)'
      BY <1>1, <1>3, <2>2 DEF About, Deregistering
    <2> QED BY <1>1, <1>3, <2>2, <2>3 DEF Agreed, Settled
  <1>8. ASSUME NEW c, UserDownload(p, c) \/ UserList(p) PROVE ListsInv'
    <2>1. /\ Ask(p, "S", c, "search") \/ Ask(p, "O", "none", "list")
          /\ UNCHANGED hosting
      BY <1>8 DEF UserDownload, UserList, tcp
    <2>2. /\ pc[p] = "menu" /\ pc'[p] \in {"search", "list"}
          /\ UNCHANGED <<contentList, hosting>>
          /\ Agreed(p)' => ListsInv'
      BY <1>5, <2>1
    <2>3. pc'[p] \in Settled
      BY <2>2 DEF Settled
    <2> QED BY <1>1, <1>3, <2>2, <2>3, SettledAgreed
  <1>9. CASE UserQuit(p)
    <2>1. pc[p] = "menu" /\ Leaving(p, Len(contentList[p])) /\ UNCHANGED replies
      BY <1>9 DEF UserQuit
    <2>2. PICK s \in Seq(Contents) : s = contentList[p]
      BY DEF PeerInv, HostInv
    <2>3. PICK n \in 0..Len(contentList[p]) : n = Len(contentList[p])
      BY <2>2
    <2>4. OfferedBy(p) = FirstOf(contentList[p], n)
      <3>1. \A x : x \in ToSet(s) <=> \E k \in 1..n : s[k] = x
        BY <2>2, <2>3, ElementsAre
      <3> QED BY <1>3, <2>1, <2>2, <3>1 DEF FirstOf
    <2>5. Leaving(p, n)
      BY <2>1, <2>3
    <2>6. replies'[p] = <<>>
      BY <1>3, <2>1
    <2> QED BY <1>3, <1>4, <2>1, <2>4, <2>5, <2>6, LeavingAgreed
  <1>10. CASE EndOfInput(p)
    <2>1. /\ pc[p] = "menu" /\ Goto(p, "eof") /\ UNCHANGED <<requests, replies, togo, hosting>>
          /\ contentList' = [contentList EXCEPT ![p] = <<>>]
      BY <1>10 DEF EndOfInput, network
    <2>2. /\ pc'[p] = "eof" /\ contentList'[p] = <<>>
          /\ \A q \in Procs : q # p => /\ pc'[q] = pc[q] /\ arg'[q] = arg[q]
                                       /\ contentList'[q] = contentList[q]
      BY <2>1 DEF Goto, PeerInv, HostInv
    <2>3. \A q \in Procs : Unanswered(q)' = Unanswered(q)
      BY <2>1, SendNone
    <2>4. IsInjective(<<>>)
      BY DEF IsInjective
    <2>5. Agreed(p)'
      BY <1>1, <1>3, <2>1, <2>2, <2>3, <2>4 DEF Agreed, About, Settled
    <2> QED BY <1>4, <2>1, <2>2, <2>3, <2>5
  <1> QED BY <1>6, <1>7, <1>8, <1>9, <1>10, Zenon DEF User

\* p takes its answer: what it does next depends on the answer's type alone.
LEMMA TakenAgreed ==
    ASSUME PeerInv, AnswersInv, ListsInv, "reorder" \notin faults, NEW p \in Procs,
           NEW state, NEW r, Take(p, state, r), UNCHANGED <<peers, requests, togo>>,
           \/ Menu(p) \/ Goto(p, "fetch")
           \/ UNCHANGED <<pc, arg>> /\ state = "list",
           hosting \subseteq hosting',
           \A q \in Procs : q # p => contentList'[q] = contentList[q],
           IsInjective(contentList'[p]), OfferedBy(p) = ToSet(contentList'[p]),
           OfferedBy(p) # {} => p \in hosting'
    PROVE  ListsInv'
  <1>1. /\ pc[p] = state /\ \A q \in Procs : q # p => replies'[q] = replies[q]
    BY TakeOne DEF AnswersInv
  <1>2. /\ pc'[p] \in Settled
        /\ \A q \in Procs : q # p => pc'[q] = pc[q] /\ arg'[q] = arg[q]
    BY <1>1 DEF Menu, Goto, PeerInv, HostInv, Settled
  <1>3. Agreed(p)'
    BY <1>2, OffersUnchanged, SettledAgreed
  <1> QED BY <1>1, <1>2, <1>3, SendNone, OthersAgree DEF Untouched
\* The only answer there is, or a part of a listing.
LEMMA TakenType ==
    ASSUME PeerInv, AnswersInv, "reorder" \notin faults, NEW p \in Procs,
           NEW state, NEW r, Take(p, state, r), state # "list"
    PROVE  /\ Refused(p) <=> r.type = "E"
           /\ Accepted(p) <=> r.type # "E"
  <1>1. PICK s \in Seq(Item) : s = replies[p]
    BY DEF PeerInv, MessagesOK
  <1>2. 1 \in DOMAIN s /\ r = s[1].datagram /\ Len(s) <= 1
    BY <1>1, TakeOne DEF AnswersInv, OneAnswer
  <1>3. DOMAIN s = {1}
    <2>1. DOMAIN s = 1..Len(s) /\ Len(s) \in Nat
      OBVIOUS
    <2> QED BY <1>2, <2>1
  <1> QED BY <1>1, <1>2, <1>3 DEF Refused, Accepted

\* The file goes into the list, if it has room, and is registered.
LEMMA DownloadedAgreed ==
    ASSUME PeerInv, AnswersInv, ListsInv, NEW p \in Procs, DownloadEnds(p)
    PROVE  ListsInv'
  <1>1. /\ pc[p] = "receive" /\ Send(p, "R", arg[p]) /\ Goto(p, "register_copy")
        /\ contentList' = [contentList EXCEPT ![p] =
                             IF arg[p] \in ToSet(@) \/ Len(@) >= MaxContent THEN @
                             ELSE Append(@, arg[p])]
        /\ UNCHANGED <<replies, togo, hosting, peers>>
    BY DEF DownloadEnds, Quiet
  <1>2. PICK s \in Seq(Contents) : s = contentList[p] /\ Len(s) <= MaxContent
    BY DEF PeerInv, HostInv, CommandsOK
  <1>3. PICK c \in Contents : c = arg[p]
    BY <1>1 DEF PeerInv, HostInv
  <1>4. /\ pc'[p] = "register_copy" /\ arg'[p] = c
        /\ contentList'[p] = IF c \in ToSet(s) \/ Len(s) >= MaxContent THEN s ELSE Append(s, c)
        /\ \A q \in Procs : q # p => /\ pc'[q] = pc[q] /\ arg'[q] = arg[q]
                                     /\ contentList'[q] = contentList[q]
    BY <1>1, <1>2, <1>3 DEF Goto, PeerInv, HostInv
  <1>5. Unanswered(p) = {} /\ replies[p] = <<>>
    BY <1>1, NothingUnderWay DEF AnswersInv, Waiting
  <1>6. Send(p, "R", c)
    BY <1>1, <1>3 DEF Send
  <1>7. /\ Unanswered(p)' = {[type |-> "R", from |-> p, content |-> c]}
        /\ \A q \in Procs : q # p => Unanswered(q)' = Unanswered(q)
    BY <1>5, <1>6, SendOne
  <1>8. OfferedBy(p)' = ToSet(s) /\ IsInjective(s) /\ (OfferedBy(p)' # {} => p \in hosting')
    BY <1>1, <1>2, OffersUnchanged DEF ListsInv, Agreed, Settled
  <1>9. ~Refused(p)' /\ ~Accepted(p)'
    <2>1. DOMAIN replies'[p] = {}
      BY <1>1, <1>5, SMT
    <2> QED BY <2>1 DEF Refused, Accepted
  <1>10. About(p)'
    BY <1>4, <1>7 DEF About
  <1>11. ToSet(Append(s, c)) = ToSet(s) \cup {c}
         /\ (c \notin ToSet(s) => IsInjective(Append(s, c)))
    <2>1. ToSet(Append(s, c)) = ToSet(s) \cup {c}
      BY AppendElements
    <2>2. ASSUME c \notin ToSet(s) PROVE IsInjective(Append(s, c))
      <3>1. c \in Contents \ ToSet(s)
        BY <2>2
      <3> QED BY <1>8, <3>1, InjectiveQueue
    <2> QED BY <2>1, <2>2
  <1>12. IsInjective(contentList'[p]) /\ Copying(p)'
    <2>1. CASE c \in ToSet(s)
      BY <1>4, <1>8, <1>9, <2>1 DEF Copying
    <2>2. CASE c \notin ToSet(s) /\ Len(s) >= MaxContent
      <3>1. Len(s) = MaxContent /\ contentList'[p] = s
        BY <1>2, <1>4, <2>2, DirectoryAssumption
      <3> QED BY <1>4, <1>8, <1>9, <2>2, <3>1 DEF Copying
    <2>3. CASE c \notin ToSet(s) /\ ~(Len(s) >= MaxContent)
      <3>1. contentList'[p] = Append(s, c)
        BY <1>4, <2>3
      <3>2. c \in ToSet(contentList'[p]) /\ OfferedBy(p)' \cup {c} = ToSet(contentList'[p])
        BY <1>8, <1>11, <3>1
      <3>3. IsInjective(contentList'[p])
        BY <1>11, <2>3, <3>1
      <3> QED BY <1>4, <1>9, <3>2, <3>3 DEF Copying
    <2> QED BY <2>1, <2>2, <2>3
  <1>13. Agreed(p)'
    BY <1>4, <1>8, <1>10, <1>12 DEF Agreed, Settled
  <1> QED BY <1>1, <1>4, <1>7, <1>13, OthersAgree DEF Untouched

LEMMA ContinueAgreed ==
    ASSUME PeerInv, AnswersInv, ListsInv, "reorder" \notin faults, NEW p \in Procs, Continue(p)
    PROVE  ListsInv'
  <1>1. UNCHANGED peers /\ Agreed(p) /\ OfferedBy(p)' = OfferedBy(p)
    <2>1. UNCHANGED peers
      BY PeersAreQuiet DEF Quiet
    <2> QED BY <2>1, OffersUnchanged DEF ListsInv
  <1>2. PICK s \in Seq(Contents) : s = contentList[p] /\ IsInjective(s)
    BY <1>1 DEF PeerInv, HostInv, Agreed
  <1>3. CASE Registered(p)
    <2>1. PICK r :
            /\ Take(p, "register", r) /\ Menu(p) /\ UNCHANGED <<requests, togo>>
            /\ \/ r.type = "E" /\ UNCHANGED <<contentList, hosting>>
               \/ /\ r.type # "E" /\ hosting' = hosting \cup {p}
                  /\ contentList' = [contentList EXCEPT ![p] =
                                       IF Len(@) < MaxContent THEN Append(@, arg[p]) ELSE @]
      BY <1>3 DEF Registered, Fork
    <2>2. pc[p] = "register" /\ Registering(p)
      BY <1>1, <2>1 DEF Take, Agreed
    <2>3. PICK c \in Contents : c = arg[p]
      BY <2>2 DEF PeerInv, HostInv
    <2>4. CASE r.type = "E" /\ UNCHANGED <<contentList, hosting>>
      <3>1. Refused(p) /\ ~Accepted(p)
        BY <2>1, <2>4, TakenType
      <3>2. OfferedBy(p) = ToSet(contentList'[p]) /\ (OfferedBy(p) # {} => p \in hosting')
        BY <1>1, <2>2, <2>4, <3>1 DEF Agreed, Registering
      <3> QED BY <1>1, <1>2, <2>1, <2>4, <3>2, TakenAgreed
    <2>5. CASE /\ r.type # "E" /\ hosting' = hosting \cup {p}
               /\ contentList' = [contentList EXCEPT ![p] =
                                    IF Len(@) < MaxContent THEN Append(@, arg[p]) ELSE @]
      <3>1. Accepted(p)
        BY <2>1, <2>5, TakenType
      <3>2. OfferedBy(p) = ToSet(s) \cup {c} /\ c \notin ToSet(s) /\ Len(s) < MaxContent
        BY <1>2, <2>2, <2>3, <3>1 DEF Registering
      <3>3. /\ contentList'[p] = Append(s, c)
            /\ \A q \in Procs : q # p => contentList'[q] = contentList[q]
        BY <1>2, <2>3, <2>5, <3>2 DEF PeerInv, HostInv
      <3>4. IsInjective(contentList'[p]) /\ OfferedBy(p) = ToSet(contentList'[p])
        <4>1. c \in Contents \ ToSet(s)
          BY <3>2
        <4>2. IsInjective(Append(s, c))
          BY <1>2, <4>1, InjectiveQueue
        <4>3. ToSet(Append(s, c)) = ToSet(s) \cup {c}
          BY AppendElements
        <4> QED BY <3>2, <3>3, <4>2, <4>3
      <3> QED BY <1>1, <2>1, <2>5, <3>3, <3>4, TakenAgreed
    <2> QED BY <2>1, <2>4, <2>5
  <1>4. CASE Searched(p)
    <2>1. PICK r : /\ Take(p, "search", r)
                   /\ Menu(p) \/ Goto(p, "fetch")
                   /\ UNCHANGED <<requests, togo, contentList, hosting>>
      BY <1>4 DEF Searched
    <2>2. pc[p] = "search" /\ pc[p] \in Settled
      BY <2>1 DEF Take, Settled
    <2>3. OfferedBy(p) = ToSet(contentList'[p]) /\ (OfferedBy(p) # {} => p \in hosting')
      BY <1>1, <2>1, <2>2 DEF Agreed
    <2> QED BY <1>1, <1>2, <2>1, <2>3, TakenAgreed
  <1>5. CASE CopyRegistered(p)
    <2>1. PICK r :
            /\ Take(p, "register_copy", r) /\ Menu(p)
            /\ UNCHANGED <<requests, togo, contentList>>
            /\ IF r.type = "E" THEN UNCHANGED hosting ELSE hosting' = hosting \cup {p}
      BY <1>5 DEF CopyRegistered, Fork
    <2>2. pc[p] = "register_copy" /\ Copying(p)
      BY <1>1, <2>1 DEF Take, Agreed
    <2>3. (Refused(p) <=> r.type = "E") /\ (Accepted(p) <=> r.type # "E")
      BY <2>1, TakenType
    <2>4. OfferedBy(p) = ToSet(contentList'[p])
      BY <2>1, <2>2, <2>3 DEF Copying
    <2>5. OfferedBy(p) # {} => p \in hosting'
      BY <1>1, <2>1, <2>3 DEF Agreed
    <2>6. hosting \subseteq hosting'
      BY <2>1
    <2> QED BY <1>1, <1>2, <2>1, <2>4, <2>5, <2>6, TakenAgreed
  <1>6. CASE Listed(p)
    <2>1. PICK r : /\ Take(p, "list", r)
                   /\ Menu(p) \/ UNCHANGED <<pc, arg>>
                   /\ UNCHANGED <<requests, togo, contentList, hosting>>
      BY <1>6 DEF Listed, tcp
    <2>2. pc[p] = "list" /\ pc[p] \in Settled
      BY <2>1 DEF Take, Settled
    <2>3. OfferedBy(p) = ToSet(contentList'[p]) /\ (OfferedBy(p) # {} => p \in hosting')
      BY <1>1, <2>1, <2>2 DEF Agreed
    <2> QED BY <1>1, <1>2, <2>1, <2>3, TakenAgreed
  <1>7. CASE Deregistered(p)
    <2>1. PICK r :
            /\ Take(p, "deregister", r) /\ Menu(p) /\ UNCHANGED <<requests, togo, hosting>>
            /\ \/ (r.type = "E" \/ Places(p, arg[p]) = {}) /\ UNCHANGED contentList
               \/ \E k \in Places(p, arg[p]) :
                    /\ r.type # "E"
                    /\ contentList' = [contentList EXCEPT ![p] = RemoveAt(@, k)]
      BY <1>7 DEF Deregistered, tcp
    <2>2. /\ pc[p] = "deregister" /\ Deregistering(p)
          /\ OfferedBy(p) # {} => p \in hosting'
      BY <1>1, <2>1 DEF Take, Agreed
    <2>3. (Refused(p) <=> r.type = "E") /\ (Accepted(p) <=> r.type # "E")
      BY <2>1, TakenType
    <2>4. \A c : c \in ToSet(s) <=> \E k \in DOMAIN s : s[k] = c
      BY ElementsAre
    <2>5. CASE (r.type = "E" \/ Places(p, arg[p]) = {}) /\ UNCHANGED contentList
      <3>1. Places(p, arg[p]) = {} => ToSet(s) \ {arg[p]} = ToSet(s)
        BY <1>2, <2>4 DEF Places
      <3>2. OfferedBy(p) = ToSet(contentList'[p])
        BY <1>2, <2>2, <2>3, <2>5, <3>1 DEF Deregistering
      <3> QED BY <1>1, <1>2, <2>1, <2>2, <2>5, <3>2, TakenAgreed
    <2>6. ASSUME NEW k \in Places(p, arg[p]), r.type # "E",
                 contentList' = [contentList EXCEPT ![p] = RemoveAt(@, k)]
          PROVE  ListsInv'
      <3>1. k \in 1..Len(s) /\ s[k] = arg[p]
        BY <1>2, <2>6 DEF Places
      <3>2. IsInjective(RemoveAt(s, k)) /\ ToSet(RemoveAt(s, k)) = ToSet(s) \ {s[k]}
        BY <1>2, <3>1, RemoveInjective
      <3>3. /\ contentList'[p] = RemoveAt(s, k)
            /\ \A q \in Procs : q # p => contentList'[q] = contentList[q]
        BY <1>2, <2>6 DEF PeerInv, HostInv
      <3>4. IsInjective(contentList'[p]) /\ OfferedBy(p) = ToSet(contentList'[p])
        BY <1>2, <2>2, <2>3, <2>6, <3>1, <3>2, <3>3 DEF Deregistering
      <3>5. hosting \subseteq hosting'
        BY <2>1
      <3> QED BY <1>1, <2>1, <2>2, <3>3, <3>4, <3>5, TakenAgreed
    <2> QED BY <2>1, <2>5, <2>6
  <1>8. CASE Quitting(p)
    <2>1. PICK r : Take(p, "quitting", r) /\ Leaving(p, togo[p] - 1)
      BY <1>8 DEF Quitting
    <2>2. /\ pc[p] = "quitting" /\ Unanswered(p) = {} /\ replies'[p] = <<>>
          /\ \A q \in Procs : q # p => replies'[q] = replies[q]
      BY <2>1, TakeOne DEF AnswersInv
    <2>3. PICK n \in 0..Len(contentList[p]) : n = togo[p] - 1
      <3>1. togo[p] \in 1..Len(s)
        BY <1>2, <2>2 DEF PeerInv, CommandsOK
      <3>2. togo[p] - 1 \in 0..Len(s)
        BY <3>1
      <3> QED BY <1>2, <3>2
    <2>4. Refused(p) \/ Accepted(p)
      BY <2>1, TakenType
    <2>5. OfferedBy(p) = FirstOf(contentList[p], n)
      BY <1>1, <2>2, <2>3, <2>4 DEF Agreed, Withdrawing
    <2>6. OfferedBy(p) # {} => p \in hosting
      BY <1>1, <2>2 DEF Agreed
    <2>7. Leaving(p, n)
      BY <2>1, <2>3
    <2>8. /\ Agreed(p)'
          /\ \A q \in Procs : q # p =>
               /\ Unanswered(q)' = Unanswered(q) /\ pc'[q] = pc[q] /\ arg'[q] = arg[q]
               /\ contentList'[q] = contentList[q] /\ togo'[q] = togo[q]
               /\ q \in hosting => q \in hosting'
      BY <1>2, <2>2, <2>5, <2>6, <2>7, LeavingAgreed
    <2> QED BY <1>1, <2>2, <2>8, OthersAgree DEF Untouched
  <1>9. CASE OpenCopy(p) \/ DownloadFails(p)
    <2>1. /\ pc[p] \in {"fetch", "receive"}
          /\ UNCHANGED <<requests, replies, contentList, togo, hosting>>
          /\ Menu(p) \/ Goto(p, "receive")
      BY <1>9 DEF OpenCopy, DownloadFails, network, tcp
    <2>2. /\ pc'[p] \in Settled /\ pc[p] \in Settled
          /\ \A q \in Procs : q # p => pc'[q] = pc[q] /\ arg'[q] = arg[q]
      BY <2>1 DEF Menu, Goto, PeerInv, HostInv, Settled
    <2>3. Agreed(p)'
      BY <1>1, <1>2, <2>1, <2>2, SettledAgreed DEF Agreed, Settled
    <2> QED BY <1>1, <2>1, <2>2, <2>3, SendNone, OthersAgree DEF Untouched
  <1> QED BY <1>3, <1>4, <1>5, <1>6, <1>7, <1>8, <1>9, DownloadedAgreed DEF Continue

\* A request or an answer that is lost leaves its sender waiting for good.
LEMMA LossAgreed ==
    ASSUME PeerInv, ListsInv, Lose
    PROVE  ListsInv'
  <1>1. /\ UNCHANGED <<peers, pc, arg, contentList, togo, hosting>>
        /\ requests' \subseteq requests
    BY DEF Lose, Quiet, main, tcp
  <1>2. OffersStay
    BY <1>1, SameOffers DEF ListsInv
  <1>3. ASSUME NEW q \in Procs
        PROVE  \A k \in DOMAIN replies'[q] :
                 \E j \in DOMAIN replies[q] : replies'[q][k] = replies[q][j]
    <2>1. CASE UNCHANGED replies
      BY <2>1
    <2>2. ASSUME NEW p \in Procs, NEW d \in 1..Len(replies[p]),
                 replies' = [replies EXCEPT ![p] = RemoveAt(@, d)]
          PROVE  \A k \in DOMAIN replies'[q] :
                   \E j \in DOMAIN replies[q] : replies'[q][k] = replies[q][j]
      <3>1. CASE q # p
        BY <2>2, <3>1 DEF PeerInv, MessagesOK
      <3>2. CASE q = p
        <4>1. PICK s \in Seq(Item) : s = replies[p]
          BY DEF PeerInv, MessagesOK
        <4>2. PICK n \in Nat : n = Len(s) /\ d \in 1..n
          BY <2>2, <4>1
        <4>3. PICK t \in Seq(Item) :
                /\ t = RemoveAt(s, d) /\ Len(t) = n - 1
                /\ \A k \in 1..(n - 1) : t[k] = IF k < d THEN s[k] ELSE s[k + 1]
          <5> HIDE DEF Item
          <5> QED BY <4>2, RemoveAtElements
        <4>4. replies'[q] = t
          BY <2>2, <3>2, <4>1, <4>3 DEF PeerInv, MessagesOK
        <4>5. \A k \in 1..(n - 1) : k \in 1..n /\ k + 1 \in 1..n
          BY <4>2
        <4>6. DOMAIN t = 1..(n - 1) /\ DOMAIN s = 1..n
          BY <4>2, <4>3
        <4> HIDE DEF Item
        <4> QED BY <3>2, <4>1, <4>3, <4>4, <4>5, <4>6
      <3> QED BY <3>1, <3>2
    <2> QED BY <2>1, <2>2, Zenon DEF Lose
  <1>4. ASSUME NEW q \in Procs PROVE Agreed(q)'
    <2>1. Unanswered(q)' \subseteq Unanswered(q)
      BY <1>1 DEF Unanswered
    <2>2. (Refused(q)' => Refused(q)) /\ (Accepted(q)' => Accepted(q))
      BY <1>3 DEF Refused, Accepted
    <2>3. Agreed(q) /\ OfferedBy(q)' = OfferedBy(q)
      BY <1>2 DEF OffersStay, ListsInv
    <2>4. About(q)'
      BY <1>1, <2>1, <2>3 DEF Agreed, About
    <2>5. pc[q] = "register" => Registering(q)'
      BY <1>1, <2>1, <2>2, <2>3 DEF Agreed, Registering
    <2>6. pc[q] = "register_copy" => Copying(q)'
      BY <1>1, <2>1, <2>2, <2>3 DEF Agreed, Copying
    <2>7. pc[q] = "deregister" => Deregistering(q)'
      BY <1>1, <2>1, <2>2, <2>3 DEF Agreed, Deregistering
    <2>8. pc[q] = "quitting" => Withdrawing(q)'
      BY <1>1, <2>1, <2>2, <2>3 DEF Agreed, Withdrawing
    <2>9. Unanswered(q) = {} => Unanswered(q)' = {}
      BY <2>1
    <2> QED BY <1>1, <2>2, <2>3, <2>4, <2>5, <2>6, <2>7, <2>8, <2>9 DEF Agreed
  <1> QED BY <1>2, <1>4 DEF OffersStay, ListsInv

LEMMA NextLists ==
    ASSUME PeerInv, AnswersInv, ListsInv, faults \subseteq {"lose"}, OnePeerPerHost, RoomForAll, [PNext]_vars
    PROVE  ListsInv'
  <1>1. ASSUME UNCHANGED <<peers, requests, replies, pc, arg, contentList, togo, hosting>>
        PROVE  ListsInv'
    <2>1. OffersStay
      BY <1>1, SameOffers DEF ListsInv
    <2>2. \A q \in Procs : SameFor(q)
      BY <1>1, <2>1, SendNone DEF SameFor, Untouched, OffersStay
    <2> QED BY <2>1, <2>2, SameAgreed DEF ListsInv, OffersStay
  <1>2. ASSUME NEW p \in Procs, Answered(p) PROVE ListsInv'
    <2>1. UNCHANGED <<peers, requests, replies, pc, arg, contentList, togo, hosting>>
      BY <1>2 DEF Answered, HostAnswers, Quiet, network, main
    <2> QED BY <1>1, <2>1
  <1>3. CASE UNCHANGED vars
    BY <1>1, <1>3 DEF vars, server, network, main, tcp
  <1>4. ASSUME NEW p \in Procs, Duplicate(p) PROVE FALSE
    BY <1>4 DEF Duplicate
  <1>5. ~Restart /\ "reorder" \notin faults
    BY DEF Restart
  <1> QED
    BY <1>2, <1>3, <1>4, <1>5, UserAgreed, ContinueAgreed, ServeAgreed, LossAgreed DEF PNext

LossyInv == faults \subseteq {"lose"} => AnswersInv /\ ListsInv

LEMMA ListsAlways ==
    ASSUME OnePeerPerHost, RoomForAll
    PROVE  PSpec => [](PeerInv /\ LossyInv)
  <1>1. PInit => ListsInv
    <2> SUFFICES ASSUME PInit PROVE ListsInv
      OBVIOUS
    <2>1. \A i \in Slots : ~peers[i].in_use
      BY ClearedWhole DEF PInit, Init
    <2>2. \A p \in Procs : OfferedBy(p) = {}
      BY <2>1, OffersNothing DEF Holds
    <2>3. ASSUME NEW p \in Procs PROVE Agreed(p)
      <3>1. pc[p] = "menu" /\ contentList[p] = <<>>
        BY DEF PInit
      <3>2. ToSet(<<>>) = {}
        <4>1. <<>> \in Seq(Contents) /\ Len(<<>>) = 0
          OBVIOUS
        <4>2. \A x : x \in ToSet(<<>>) <=> \E k \in 1..0 : <<>>[k] = x
          BY <4>1, ElementsAre
        <4> QED BY <4>2
      <3>3. IsInjective(<<>>)
        BY DEF IsInjective
      <3> QED BY <2>2, <3>1, <3>2, <3>3 DEF Agreed, About, Settled
    <2> QED BY <2>1, <2>3 DEF ListsInv, Known
  <1>2. PInit => AnswersInv
    BY InitAnswers
  <1>3. PInit => LossyInv
    BY <1>1, <1>2 DEF LossyInv
  <1>4. PeerInv /\ LossyInv /\ [PNext]_vars => PeerInv' /\ LossyInv'
    <2> SUFFICES ASSUME PeerInv, LossyInv, [PNext]_vars, faults \subseteq {"lose"}
                 PROVE  AnswersInv' /\ ListsInv'
      BY NextPeers, FaultsStay DEF LossyInv
    <2> QED BY NextAnswersInv, NextLists DEF LossyInv
  <1> QED BY <1>3, <1>4, InitPeers, PTL DEF PSpec

\* Between two commands every peer's own list is what the directory lists for
\* it, through any interleaving of registrations, downloads, withdrawals and
\* departures: with one peer on a host (the server finds the sender of T by its
\* address), a slot for every peer, and a network that may lose datagrams but
\* does not repeat or reorder them.
THEOREM ListsAlwaysAgree ==
    ASSUME OnePeerPerHost, RoomForAll
    PROVE  PSpec => []ListsAgree
  <1>1. LossyInv => ListsAgree
    BY DEF LossyInv, ListsInv, Agreed, ListsAgree, Settled
  <1> QED BY <1>1, ListsAlways, PTL

\* Under the same conditions an address that a search returns is one where a
\* peer listens, at any moment.
THEOREM AddressesAlwaysListen ==
    ASSUME OnePeerPerHost, RoomForAll
    PROVE  PSpec => []AddressesListen
  <1>1. PeerInv /\ LossyInv => AddressesListen
    <2> SUFFICES ASSUME PeerInv, ListsInv, NEW i \in Slots, peers[i].in_use
                 PROVE  \E p \in listening : /\ Host[p] = peers[i].ip
                                             /\ Port[p] = peers[i].tcp_port
      BY DEF AddressesListen, LossyInv
    <2>1. PICK p \in Procs : /\ peers[i].name = Name[p] /\ peers[i].ip = Host[p]
                             /\ peers[i].tcp_port = Port[p]
      BY DEF ListsInv, Known
    <2>2. OfferedBy(p) # {}
      BY <2>1, EntryOffers DEF PeerInv, Holds
    <2>3. p \in hosting \/ pc[p] \in {"register", "register_copy"}
      BY <2>2 DEF ListsInv, Agreed
    <2>4. p \in listening
      BY <2>3 DEF PeerInv, CommandsOK
    <2> QED BY <2>1, <2>4
  <1> QED BY <1>1, ListsAlways, PTL
=============================================================================
