-------------------------------- MODULE Net --------------------------------
(***************************************************************************)
(* The Etherbone network stack (lib/ipv4.c, bootp.c, arp.c, icmp.c): the   *)
(* node's own address, obtained by BOOTP or set by the user, the requests  *)
(* repeated until it is, and the answers to ARP and ICMP requests.  The    *)
(* main loop polls the stack while the link is up and drops the address    *)
(* when it comes up again.  The network loses, delays and repeats frames.  *)
(***************************************************************************)
EXTENDS Integers, Sequences

CONSTANTS
  Addr,    (* IPv4 addresses                                                *)
  Zero,    (* 0.0.0.0                                                       *)
  Period,  (* polls between two requests: 100000                            *)
  QMax     (* bound: frames that wait in a socket                           *)

ASSUME NetAssumption ==
  /\ Zero \notin Addr /\ Addr \cap {"none", "request"} = {} /\ Zero \notin {"none", "request"}
  /\ Period \in Nat \ {0, 1} /\ QMax \in Nat \ {0}

VARIABLES
  pc,           (* where the main loop is                                   *)
  link,         (* the link, as the endpoint shows it                       *)
  prev,         (* prev_link_state                                          *)
  needIP, myIP, bootp_timer,
  eb_ip,        (* the Etherbone core's own copy of the address             *)
  ipv4_socket, arp_socket,  (* what waits in the sockets                    *)
  asked,        (* a request is on its way or at the server                 *)
  offered,      (* history: what the server offered to this node            *)
  chosen,       (* history: what the user set                               *)
  fresh,        (* history: an address was set since the link was last seen *)
                (* coming up                                                *)
  since,        (* history: polls since the last request, that one included;*)
                (* Period if there was none since an address was held       *)
  sent          (* what the last step of the node sent                      *)

addrVars == << needIP, myIP, eb_ip, bootp_timer, chosen, fresh, since >>
netVars  == << ipv4_socket, arp_socket, asked, offered >>
vars == << pc, link, prev, addrVars, netVars, sent >>

(* What the IPv4 socket tells apart: a BOOTP reply to this node, one that  *)
(* fails a check of process_bootp, an ICMP echo request to an address.     *)
Frame == [kind : {"reply", "foreign", "echo"}, addr : Addr \cup {Zero}]

NoFrame == [kind |-> "foreign", addr |-> Zero]

Init ==
  /\ pc = "script" /\ link \in BOOLEAN /\ prev = -1
  /\ needIP = TRUE /\ myIP = Zero /\ bootp_timer = 0
  /\ eb_ip \in Addr \cup {Zero}
  /\ ipv4_socket = << >> /\ arp_socket = << >>
  /\ asked = FALSE /\ offered = {} /\ chosen = {}
  /\ fresh = FALSE /\ since = Period /\ sent = "none"

-----------------------------------------------------------------------------
(* The network (external).  A reply, once sent, may arrive any number of   *)
(* times, at any time, or never.                                           *)

LinkChanges ==
  /\ link' = ~link
  /\ UNCHANGED << pc, prev, addrVars, netVars, sent >>

RequestLost ==
  /\ asked /\ asked' = FALSE
  /\ UNCHANGED << pc, link, prev, addrVars, ipv4_socket, arp_socket, offered, sent >>

Serve(a) ==
  /\ asked /\ asked' = FALSE
  /\ offered' = offered \cup {a}
  /\ UNCHANGED << pc, link, prev, addrVars, ipv4_socket, arp_socket, sent >>

Arrive(kind, a) ==
  /\ link /\ Len(ipv4_socket) < QMax
  /\ kind = "reply" => a \in offered
  /\ ipv4_socket' = Append(ipv4_socket, [kind |-> kind, addr |-> a])
  /\ UNCHANGED << pc, link, prev, addrVars, arp_socket, asked, offered, sent >>

ArriveArp(a) ==
  /\ link /\ Len(arp_socket) < QMax
  /\ arp_socket' = Append(arp_socket, a)
  /\ UNCHANGED << pc, link, prev, addrVars, ipv4_socket, asked, offered, sent >>

Network ==
  \/ LinkChanges \/ RequestLost
  \/ \E a \in Addr \cup {Zero} : Serve(a) \/ Arrive("reply", a)
  \/ \E a \in Addr : Arrive("foreign", a) \/ Arrive("echo", a) \/ ArriveArp(a)

-----------------------------------------------------------------------------
(* The node.  As in module Minic, <Operator>_<Fault> is a seeded fault.    *)

Accepted_AnyNode(f) == f.kind \in {"reply", "foreign"}

(* process_bootp's checks.                                                 *)
Accepted(f) == f.kind = "reply"

(* process_icmp's.                                                         *)
Echo(f) == f.kind = "echo" /\ f.addr = myIP

Advance == IF bootp_timer + 1 = Period THEN 0 ELSE bootp_timer + 1

TimerSet_Kept(a) == bootp_timer

(* The timer after setIP(a).                                               *)
TimerSet(a) == IF a = Zero THEN bootp_timer ELSE 0

(* setIP, called by a command.                                             *)
SetIP(a) ==
  /\ myIP' = a /\ eb_ip' = a
  /\ needIP' = (a = Zero)
  /\ bootp_timer' = TimerSet(a)
  /\ fresh' = (fresh \/ a # Zero)
  /\ since' = IF a = Zero THEN since ELSE Period

SendBootp == sent' = "request" /\ asked' = (asked \/ link) /\ since' = 1

(* A frame was accepted that holds no address, or none was: the training   *)
(* goes on, with a request when it is due.                                 *)
Train(f) ==
  /\ needIP /\ ~(Accepted(f) /\ f.addr # Zero)
  /\ IF Accepted(f)
       THEN myIP' = Zero /\ eb_ip' = Zero
       ELSE UNCHANGED << myIP, eb_ip >>
  /\ bootp_timer' = Advance
  /\ IF bootp_timer = 0
       THEN SendBootp
       ELSE sent' = "none" /\ asked' = asked /\ since' = since + 1
  /\ UNCHANGED << needIP, fresh >>

Found(f) ==
  /\ needIP /\ Accepted(f) /\ f.addr # Zero
  /\ SetIP(f.addr)
  /\ sent' = "none" /\ asked' = asked

AnswerEcho(f) ==
  /\ ~needIP
  /\ sent' = IF Echo(f) THEN myIP ELSE "none"
  /\ UNCHANGED << needIP, myIP, eb_ip, bootp_timer, fresh, since, asked >>

Ipv4Poll ==
  /\ pc = "ipv4" /\ pc' = "arp"
  /\ ipv4_socket' = IF ipv4_socket = << >> THEN << >> ELSE Tail(ipv4_socket)
  /\ LET f == IF ipv4_socket = << >> THEN NoFrame ELSE Head(ipv4_socket)
     IN Train(f) \/ Found(f) \/ AnswerEcho(f)
  /\ UNCHANGED << link, prev, chosen, arp_socket, offered >>

ArpPoll_InTraining ==
  /\ pc = "arp" /\ pc' = "ui"
  /\ IF arp_socket = << >>
       THEN sent' = "none" /\ arp_socket' = arp_socket
       ELSE /\ sent' = IF Head(arp_socket) = myIP THEN myIP ELSE "none"
            /\ arp_socket' = Tail(arp_socket)
  /\ UNCHANGED << link, prev, addrVars, ipv4_socket, asked, offered >>

(* What arrives without an address stays in the socket.                    *)
ArpPoll ==
  /\ pc = "arp" /\ pc' = "ui"
  /\ IF needIP \/ arp_socket = << >>
       THEN sent' = "none" /\ arp_socket' = arp_socket
       ELSE /\ sent' = IF Head(arp_socket) = myIP THEN myIP ELSE "none"
            /\ arp_socket' = Tail(arp_socket)
  /\ UNCHANGED << link, prev, addrVars, ipv4_socket, asked, offered >>

WentUp == prev = 0 /\ link

CheckLink_PollsOnce ==
  /\ pc = "link"
  /\ pc' = IF WentUp THEN "ipv4" ELSE "ui"
  /\ prev' = IF link THEN 1 ELSE 0
  /\ needIP' = (needIP \/ WentUp)
  /\ fresh' = (fresh /\ ~WentUp)
  /\ sent' = "none"
  /\ UNCHANGED << link, myIP, eb_ip, bootp_timer, chosen, since, netVars >>

(* wrc_check_link and the switch of main: LINK_WENT_UP only drops the      *)
(* address, LINK_UP polls.                                                 *)
CheckLink ==
  /\ pc = "link"
  /\ pc' = IF link /\ ~WentUp THEN "ipv4" ELSE "ui"
  /\ prev' = IF link THEN 1 ELSE 0
  /\ needIP' = (needIP \/ WentUp)
  /\ fresh' = (fresh /\ ~WentUp)
  /\ sent' = "none"
  /\ UNCHANGED << link, myIP, eb_ip, bootp_timer, chosen, since, netVars >>

(* "ip set", in the boot script or typed, or any other command.            *)
Command(from) ==
  /\ pc = from /\ pc' = "link"
  /\ sent' = "none"
  /\ \/ \E a \in Addr \cup {Zero} : SetIP(a) /\ chosen' = chosen \cup {a}
     \/ UNCHANGED addrVars
  /\ UNCHANGED << link, prev, netVars >>

Node == CheckLink \/ Ipv4Poll \/ ArpPoll \/ Command("script") \/ Command("ui")

Next == Network \/ Node

Spec == Init /\ [][Next]_vars

(* The main loop runs.  Of requests without end one is served with an      *)
(* address, and of replies without end one arrives.                        *)
FairSpec ==
  /\ Spec
  /\ WF_vars(Node)
  /\ SF_vars(\E a \in Addr : Serve(a)) /\ SF_vars(\E a \in Addr : Arrive("reply", a))

-----------------------------------------------------------------------------
(* Every variable has its type.                                            *)
TypeOK ==
  /\ pc \in {"script", "link", "ipv4", "arp", "ui"} /\ link \in BOOLEAN /\ prev \in {-1, 0, 1}
  /\ needIP \in BOOLEAN /\ myIP \in Addr \cup {Zero} /\ eb_ip \in Addr \cup {Zero}
  /\ bootp_timer \in 0 .. Period - 1
  /\ ipv4_socket \in Seq(Frame) /\ arp_socket \in Seq(Addr)
  /\ asked \in BOOLEAN /\ offered \subseteq Addr \cup {Zero} /\ chosen \subseteq Addr \cup {Zero}
  /\ fresh \in BOOLEAN /\ since \in 1 .. Period
  /\ sent \in {"none", "request"} \cup Addr \cup {Zero}

(* What waits in the IPv4 socket as a reply was offered.                   *)
RepliesOffered ==
  \A i \in DOMAIN ipv4_socket :
    ipv4_socket[i].kind = "reply" => ipv4_socket[i].addr \in offered

(* An address counts as held only if the server offered it to this very    *)
(* node or the user set it, the Etherbone core has the same one, and it    *)
(* was set since the main loop last saw the link come up.                  *)
AddressOurs ==
  ~needIP => /\ myIP = eb_ip /\ myIP # Zero
             /\ myIP \in offered \cup chosen
             /\ fresh

(* An ARP or ICMP answer names the address held, and is given only while   *)
(* one is: never for the address of before the link went down, though      *)
(* myIP still has it and the frame was waiting in the socket.              *)
AnswersOurs == sent \in Addr \cup {Zero} => ~needIP /\ sent = myIP

(* Requests are Period polls apart, no sooner and no later, over all link  *)
(* failures and replies without an address; and the first one after an     *)
(* address was held is sent at once.                                       *)
Paced == [][pc = "ipv4" /\ pc' = "arp" /\ needIP' => (sent' = "request" <=> since = Period)]_vars

(* Once the link stays up the node gets an address, though each request    *)
(* and each reply may be lost.                                             *)
Trained == <>[]link => []<>(~needIP)

(* The inductive invariant: the timer and the number of polls agree, and   *)
(* the timer of a node with an address is at rest.                         *)
IInv ==
  /\ TypeOK /\ RepliesOffered /\ AddressOurs /\ AnswersOurs
  /\ bootp_timer = IF since = Period THEN 0 ELSE since
  /\ ~needIP => since = Period
=============================================================================
