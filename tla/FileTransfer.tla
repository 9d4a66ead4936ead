---------------------------- MODULE FileTransfer ----------------------------
(***************************************************************************)
(* The UDP file transfer of 768/COE768-Computer-Networks-Lab-4.sh: a       *)
(* server (udp_server.c) that answers one request at a time with the       *)
(* blocks of a file, and clients (udp_client.c) whose users download files *)
(* one after the other.  PDUs carry a type and data, no number, and nobody *)
(* has a timeout: C asks, D is a full block, F the last one, E an error.   *)
(*                                                                         *)
(* A block is the name of its file and its place in it.  Faults counts     *)
(* what the network, a disk or an operator does to the programs.           *)
(***************************************************************************)
EXTENDS Integers, Sequences, SequencesExt

CONSTANTS
    Clients,     \* runs of udp_client
    Names,       \* the file names that users type
    Size,        \* for each name that the server can open: its full blocks
    Unreadable,  \* those that fread fails on after their full blocks
    MaxCommands, \* bound of the model: downloads that the users start in all
    MaxFaults    \* bound of the model

FaultKinds == {"lose", "duplicate", "reorder", "write", "close", "kill"}

ASSUME TransferAssumption ==
    /\ "none" \notin Names /\ "none" \notin Clients
    /\ DOMAIN Size \subseteq Names /\ Size \in [DOMAIN Size -> Nat]
    /\ Unreadable \subseteq DOMAIN Size
    /\ MaxCommands \in Nat /\ MaxFaults \in Nat

VARIABLES
    up,        \* the server runs
    job,       \* the file it sends: to whom, and its next block
    requests,  \* the C PDUs of each client that the server has not taken
    pdus,      \* the PDUs on their way to each client
    refused,   \* clients whose request came to a closed port (ECONNREFUSED)
    pc,        \* "menu", "waiting" in recv, "ended"
    remote,    \* the name each client has asked for
    created,   \* created: it has opened its output file
    saved,     \* saved[c][n]: the blocks in the client's file n, <<>> if none
    given,     \* how many downloads were started
    faults,    \* how many faults there were
    happened   \* and of which kinds

channel == <<requests, pdus, refused>>
client == <<pc, remote, created, saved, given>>
trouble == <<faults, happened>>
vars == <<up, job, channel, client, trouble>>

Block == Names \X Nat
Error == [type |-> "E", block |-> <<>>]
PDU == [type : {"D", "F"}, block : Block] \cup {Error}
Idle == [to |-> "none", name |-> "none", next |-> 0]

\* The file as the client should have it: full blocks and the last one.
Content(n) == [k \in 1..(Size[n] + 1) |-> <<n, k>>]

Init ==
    /\ up = FALSE /\ job = Idle
    /\ requests = [c \in Clients |-> <<>>]
    /\ pdus = [c \in Clients |-> <<>>]
    /\ refused = {}
    /\ pc = [c \in Clients |-> "menu"]
    /\ remote = [c \in Clients |-> "none"]
    /\ created = [c \in Clients |-> FALSE]
    /\ saved = [c \in Clients |-> [n \in Names |-> <<>>]]
    /\ given = 0 /\ faults = 0 /\ happened = {}

-----------------------------------------------------------------------------
(* The server.                                                              *)

StartServer ==
    /\ ~up /\ up' = TRUE
    /\ UNCHANGED <<job, channel, client, trouble>>

\* sendto: what comes for a client that has ended is dropped.
SendTo(c, p) == pdus' = IF pc[c] = "ended" THEN pdus
                        ELSE [pdus EXCEPT ![c] = Append(@, p)]

\* stat or fopen fails.
RefuseRequest(c) ==
    /\ up /\ job = Idle
    /\ requests[c] # <<>> /\ Head(requests[c]) \notin DOMAIN Size
    /\ requests' = [requests EXCEPT ![c] = Tail(@)]
    /\ SendTo(c, Error)
    /\ UNCHANGED <<up, job, refused, client, trouble>>

AcceptRequest(c) ==
    /\ up /\ job = Idle
    /\ requests[c] # <<>> /\ Head(requests[c]) \in DOMAIN Size
    /\ requests' = [requests EXCEPT ![c] = Tail(@)]
    /\ job' = [to |-> c, name |-> Head(requests[c]), next |-> 1]
    /\ UNCHANGED <<up, pdus, refused, client, trouble>>

\* A plausible bug: a file that ends with a full block ends with that D.
SendBlockLast ==
    /\ up /\ job # Idle /\ job.next <= Size[job.name]
    /\ SendTo(job.to, [type |-> "D", block |-> <<job.name, job.next>>])
    /\ job' = IF job.next = Size[job.name] THEN Idle ELSE [job EXCEPT !.next = @ + 1]
    /\ UNCHANGED <<up, requests, refused, client, trouble>>

SendBlock ==
    /\ up /\ job # Idle /\ job.next <= Size[job.name]
    /\ SendTo(job.to, [type |-> "D", block |-> <<job.name, job.next>>])
    /\ job' = [job EXCEPT !.next = @ + 1]
    /\ UNCHANGED <<up, requests, refused, client, trouble>>

\* A plausible bug: the loop goes on after a read error.
SendLastAfterError ==
    /\ up /\ job # Idle /\ job.next > Size[job.name]
    /\ SendTo(job.to, IF job.name \in Unreadable THEN Error
                      ELSE [type |-> "F", block |-> <<job.name, job.next>>])
    /\ job' = IF job.name \in Unreadable THEN job ELSE Idle
    /\ UNCHANGED <<up, requests, refused, client, trouble>>

\* A plausible bug: the loop goes on after the last block.
SendLastAgain ==
    /\ up /\ job # Idle /\ job.next > Size[job.name]
    /\ SendTo(job.to, IF job.name \in Unreadable THEN Error
                      ELSE [type |-> "F", block |-> <<job.name, job.next>>])
    /\ job' = [job EXCEPT !.next = @ + 1]
    /\ UNCHANGED <<up, requests, refused, client, trouble>>

\* fread returns less than a block: the file is over or cannot be read.
SendLast ==
    /\ up /\ job # Idle /\ job.next > Size[job.name]
    /\ SendTo(job.to, IF job.name \in Unreadable THEN Error
                      ELSE [type |-> "F", block |-> <<job.name, job.next>>])
    /\ job' = Idle
    /\ UNCHANGED <<up, requests, refused, client, trouble>>

\* A request finds no server: the port unreachable comes back.
Bounce(c) ==
    /\ ~up /\ requests[c] # <<>>
    /\ requests' = [requests EXCEPT ![c] = Tail(@)]
    /\ refused' = IF pc[c] = "ended" THEN refused ELSE refused \cup {c}
    /\ UNCHANGED <<up, job, pdus, client, trouble>>

-----------------------------------------------------------------------------
(* A client.                                                                *)

\* download_one up to its first recv.  An error that waits in the socket is
\* what write returns, and then nothing is sent.
Ask(c, n) ==
    /\ pc[c] = "menu" /\ given < MaxCommands
    /\ given' = given + 1
    /\ IF c \in refused
       THEN /\ refused' = refused \ {c}
            /\ UNCHANGED <<requests, pc, remote>>
       ELSE /\ requests' = [requests EXCEPT ![c] = Append(@, n)]
            /\ pc' = [pc EXCEPT ![c] = "waiting"]
            /\ remote' = [remote EXCEPT ![c] = n]
            /\ UNCHANGED refused
    /\ UNCHANGED <<up, job, pdus, created, saved, trouble>>

\* download_one returns.
Return(c) ==
    /\ pc' = [pc EXCEPT ![c] = "menu"]
    /\ remote' = [remote EXCEPT ![c] = "none"]
    /\ created' = [created EXCEPT ![c] = FALSE]
    /\ UNCHANGED given

\* A plausible bug: the output file is closed and not removed.
FailKeeps(c) == Return(c) /\ UNCHANGED saved

\* The label fail: what was written is removed.
Fail(c) ==
    /\ Return(c)
    /\ saved' = IF created[c] THEN [saved EXCEPT ![c][remote[c]] = <<>>] ELSE saved

\* A plausible bug: fopen "ab".
WrittenBehind(c, block) ==
    saved' = [saved EXCEPT ![c][remote[c]] = Append(@, block)]

\* The output file after one more block: fopen "wb" at the first one.
Output(c, block) ==
    IF created[c] THEN Append(saved[c][remote[c]], block) ELSE <<block>>

\* fwrite, as it will be on the disk when no later step fails.
Written(c, block) == saved' = [saved EXCEPT ![c][remote[c]] = Output(c, block)]

\* recv: a PDU of one of the types is taken from the socket.
Take(c, types) ==
    /\ pc[c] = "waiting"
    /\ pdus[c] # <<>> /\ Head(pdus[c]).type \in types
    /\ pdus' = [pdus EXCEPT ![c] = Tail(@)]
    /\ UNCHANGED <<up, job, requests, refused>>

ReceiveBlock(c) ==
    /\ Take(c, {"D"})
    /\ Written(c, Head(pdus[c]).block)
    /\ created' = [created EXCEPT ![c] = TRUE]
    /\ UNCHANGED <<pc, remote, given, trouble>>

\* A plausible bug: the data of an F are not written.
ReceiveLastUnwritten(c) ==
    /\ Take(c, {"F"})
    /\ Return(c)
    /\ UNCHANGED <<saved, trouble>>

ReceiveLast(c) ==
    /\ Take(c, {"F"})
    /\ Written(c, Head(pdus[c]).block)
    /\ Return(c)
    /\ UNCHANGED trouble

ReceiveError(c) == Take(c, {"E"}) /\ Fail(c) /\ UNCHANGED trouble

\* recv returns the error that waits in the socket.
ReceiveRefused(c) ==
    /\ pc[c] = "waiting" /\ c \in refused
    /\ refused' = refused \ {c}
    /\ Fail(c)
    /\ UNCHANGED <<up, job, requests, pdus, trouble>>

\* QUIT, or the end of the one-shot form.
Quit(c) ==
    /\ pc[c] = "menu"
    /\ pc' = [pc EXCEPT ![c] = "ended"]
    /\ pdus' = [pdus EXCEPT ![c] = <<>>]
    /\ refused' = refused \ {c}
    /\ UNCHANGED <<up, job, requests, remote, created, saved, given, trouble>>

-----------------------------------------------------------------------------
(* Faults.                                                                  *)

Fault(kind) ==
    /\ faults < MaxFaults
    /\ faults' = faults + 1
    /\ happened' = happened \cup {kind}

Lose(c) ==
    /\ Fault("lose")
    /\ \/ \E k \in DOMAIN pdus[c] :
            pdus' = [pdus EXCEPT ![c] = RemoveAt(@, k)] /\ UNCHANGED requests
       \/ \E k \in DOMAIN requests[c] :
            requests' = [requests EXCEPT ![c] = RemoveAt(@, k)] /\ UNCHANGED pdus
    /\ UNCHANGED <<up, job, refused, client>>

Duplicate(c) ==
    /\ Fault("duplicate")
    /\ \/ \E k \in DOMAIN pdus[c] :
            pdus' = [pdus EXCEPT ![c] = Append(@, pdus[c][k])] /\ UNCHANGED requests
       \/ \E k \in DOMAIN requests[c] :
            requests' = [requests EXCEPT ![c] = Append(@, requests[c][k])] /\ UNCHANGED pdus
    /\ UNCHANGED <<up, job, refused, client>>

Reorder(c) ==
    /\ Fault("reorder")
    /\ \E k \in 2..Len(pdus[c]) :
         pdus' = [pdus EXCEPT ![c] = <<pdus[c][k]>> \o RemoveAt(@, k)]
    /\ UNCHANGED <<up, job, requests, refused, client>>

\* fopen or fwrite fails: the PDU is taken and the rest stays on its way.
WriteFails(c) ==
    /\ Fault("write")
    /\ Take(c, {"D", "F"})
    /\ Return(c)
    /\ \/ ~created[c] /\ UNCHANGED saved
       \/ saved' = [saved EXCEPT ![c][remote[c]] = <<>>]

\* fwrite only fills a buffer: what the disk cannot take is found out by the
\* fclose behind an F, whose result nobody reads.  The last blocks are not on
\* the disk, and the download is reported all the same.
CloseFails(c) ==
    LET whole == Output(c, Head(pdus[c]).block) IN
    /\ Fault("close")
    /\ Take(c, {"F"})
    /\ \E k \in 0..(Len(whole) - 1) :
         saved' = [saved EXCEPT ![c][remote[c]] = SubSeq(whole, 1, k)]
    /\ Return(c)

\* The server is killed; the requests that were in its socket go with it, those
\* of the other clients are still on their way.
KillServer ==
    /\ Fault("kill")
    /\ up /\ up' = FALSE /\ job' = Idle
    /\ \E late \in SUBSET Clients :
         requests' = [c \in Clients |-> IF c \in late THEN requests[c] ELSE <<>>]
    /\ UNCHANGED <<pdus, refused, client>>

-----------------------------------------------------------------------------
Serve ==
    \/ SendBlock \/ SendLast
    \/ \E c \in Clients : RefuseRequest(c) \/ AcceptRequest(c) \/ Bounce(c)

Receive(c) ==
    ReceiveBlock(c) \/ ReceiveLast(c) \/ ReceiveError(c) \/ ReceiveRefused(c)

Next ==
    \/ StartServer \/ Serve \/ KillServer
    \/ \E c \in Clients :
         \/ Receive(c) \/ Quit(c)
         \/ \E n \in Names : Ask(c, n)
         \/ Lose(c) \/ Duplicate(c) \/ Reorder(c) \/ WriteFails(c) \/ CloseFails(c)

Spec == Init /\ [][Next]_vars

\* The programs that run are scheduled and datagrams arrive; nobody is bound
\* to start the server or a download.
FairSpec == Spec /\ WF_vars(Serve) /\ \A c \in Clients : WF_vars(Receive(c))

-----------------------------------------------------------------------------
(* Properties.                                                              *)

Job == [to : Clients \cup {"none"}, name : Names \cup {"none"}, next : Nat]

\* Every variable has its type; the server sends no block past the last one,
\* and a client has an output file open only while it waits for the rest.
TypeOK ==
    /\ up \in BOOLEAN
    /\ job \in Job
    /\ job # Idle => /\ up /\ job.to \in Clients /\ job.name \in DOMAIN Size
                     /\ job.next \in 1..(Size[job.name] + 1)
    /\ requests \in [Clients -> Seq(Names)]
    /\ pdus \in [Clients -> Seq(PDU)]
    /\ refused \subseteq Clients
    /\ pc \in [Clients -> {"menu", "waiting", "ended"}]
    /\ remote \in [Clients -> Names \cup {"none"}]
    /\ \A c \in Clients : pc[c] = "waiting" <=> remote[c] \in Names
    /\ created \in [Clients -> BOOLEAN]
    /\ \A c \in Clients : created[c] => pc[c] = "waiting"
    /\ saved \in [Clients -> [Names -> Seq(Block)]]
    /\ given \in 0..MaxCommands /\ faults \in 0..MaxFaults
    /\ happened \subseteq FaultKinds

\* The client is not writing this file.
Closed(c, n) == ~(created[c] /\ remote[c] = n)

\* Each closed file is the server's file block by block, or there is none.
WholeOrNone ==
    \A c \in Clients : \A n \in Names : Closed(c, n) =>
        saved[c][n] = <<>> \/ (n \in DOMAIN Size /\ saved[c][n] = Content(n))

\* As long as nothing goes wrong on the way, each download that was reported
\* ("Downloaded to") is the whole file in order, and each that failed has left
\* nothing: the script's own test (cmp) may rely on it.  A server killed and
\* started again changes nothing of this.  (A write that fails does: the next
\* download saves what is left in the socket; and so does an fclose that fails,
\* of which nobody hears.)
WholeFiles == happened \subseteq {"kill"} => WholeOrNone

\* s has blocks of file n only, in the file's order.
InOrder(s, n) ==
    \A i \in DOMAIN s :
        s[i][1] = n /\ \A j \in 1..(i - 1) : s[j][2] < s[i][2]

\* Losses alone make gaps and nothing worse: no block of another file, none
\* out of order, none twice, and a reported download ends with the last block.
NothingButGaps ==
    happened \subseteq {"lose", "kill"} =>
        \A c \in Clients : \A n \in Names :
            /\ InOrder(saved[c][n], n)
            /\ Closed(c, n) /\ saved[c][n] # <<>> =>
                 n \in DOMAIN Size /\ saved[c][n][Len(saved[c][n])] = <<n, Size[n] + 1>>

\* Whatever is lost, repeated, reordered or killed, and whichever fopen or
\* fwrite fails: a file that is not being written ends with the last block of
\* some file, no failed download leaves a part behind.  Only an fclose that
\* fails makes an exception: it cuts a download that was reported.
NoRemnants ==
    "close" \notin happened =>
    \A c \in Clients : \A n \in Names : Closed(c, n) /\ saved[c][n] # <<>> =>
        \E m \in DOMAIN Size : saved[c][n][Len(saved[c][n])] = <<m, Size[m] + 1>>

\* As long as at most PDUs are lost and servers killed, a client that is back at
\* its menu has nothing left on its way that the next download would take for
\* its own.  A write that fails does leave the rest of the file there, and so may
\* a PDU that is repeated or overtaken.
NothingLeftOver ==
    happened \subseteq {"lose", "kill"} =>
        \A c \in Clients : pc[c] = "menu" =>
            requests[c] = <<>> /\ pdus[c] = <<>> /\ job.to # c

\* Without a fault every download ends, the server running or not.
DownloadsEnd ==
    [](happened = {}) => \A c \in Clients : pc[c] = "waiting" ~> pc[c] = "menu"
=============================================================================
