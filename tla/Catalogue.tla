----------------------------- MODULE Catalogue -----------------------------
(***************************************************************************)
(* What the directory of 768/Standalone promises, without its tables: for  *)
(* every registered peer its address and, for each content it offers, how  *)
(* often a search was answered with it.  A search is answered with one of  *)
(* the peers that were answered least.                                     *)
(***************************************************************************)
EXTENDS Integers

CONSTANTS
    Names,      \* peer names
    Ips,        \* addresses of hosts
    Ports,      \* TCP ports
    Contents,   \* content names
    SentLimit   \* an offer answered so often is not answered again

VARIABLES
    hosts,      \* registered name -> [ip, tcp_port, sent]
    answer      \* the address the last step answered, or NoAnswer

vars == <<hosts, answer>>

NoAnswer == <<>>

Init == hosts = [n \in {} |-> {}] /\ answer = NoAnswer

Put(f, k, v) == [i \in DOMAIN f \cup {k} |-> IF i = k THEN v ELSE f[i]]

Without(f, k) == [i \in DOMAIN f \ {k} |-> f[i]]

\* A name belongs to the host that registered it, which may offer more under
\* it; the port of the last registration counts for all it offers.
Publish(n, ip, port, c) ==
    /\ \/ /\ n \notin DOMAIN hosts
          /\ hosts' = Put(hosts, n, [ip |-> ip, tcp_port |-> port,
                                     sent |-> [i \in {c} |-> 0]])
       \/ /\ n \in DOMAIN hosts
          /\ hosts[n].ip = ip /\ c \notin DOMAIN hosts[n].sent
          /\ hosts' = Put(hosts, n, [ip |-> ip, tcp_port |-> port,
                                     sent |-> Put(hosts[n].sent, c, 0)])
    /\ answer' = NoAnswer

Offering(c) ==
    {n \in DOMAIN hosts : c \in DOMAIN hosts[n].sent /\ hosts[n].sent[c] < SentLimit}

Find(c) ==
    \E n \in Offering(c) :
      /\ \A m \in Offering(c) : hosts[n].sent[c] <= hosts[m].sent[c]
      /\ hosts' = Put(hosts, n, [hosts[n] EXCEPT
                                   !.sent = Put(hosts[n].sent, c, hosts[n].sent[c] + 1)])
      /\ answer' = <<hosts[n].ip, hosts[n].tcp_port>>

\* A host withdraws a content; a peer that offers nothing is forgotten.
Withdraw(ip, c) ==
    /\ \E n \in DOMAIN hosts :
         /\ hosts[n].ip = ip /\ c \in DOMAIN hosts[n].sent
         /\ \/ /\ DOMAIN hosts[n].sent = {c}
               /\ hosts' = Without(hosts, n)
            \/ /\ DOMAIN hosts[n].sent # {c}
               /\ hosts' = Put(hosts, n, [hosts[n] EXCEPT !.sent = Without(@, c)])
    /\ answer' = NoAnswer

Leave(n) ==
    /\ n \in DOMAIN hosts
    /\ hosts' = Without(hosts, n)
    /\ answer' = NoAnswer

\* Whatever is refused or only read leaves the catalogue alone.
Refuse == answer' = NoAnswer /\ UNCHANGED hosts

Next ==
    \/ \E n \in Names, ip \in Ips, port \in Ports, c \in Contents : Publish(n, ip, port, c)
    \/ \E c \in Contents : Find(c)
    \/ \E ip \in Ips, c \in Contents : Withdraw(ip, c)
    \/ \E n \in Names : Leave(n)
    \/ Refuse

Spec == Init /\ [][Next]_vars
=============================================================================
