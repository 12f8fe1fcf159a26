----------------------------- MODULE NetProofs -----------------------------
(***************************************************************************)
(* Proofs about the network stack of module Net, for every set of          *)
(* addresses, every period and every length of the sockets.                *)
(***************************************************************************)
EXTENDS Net, SequenceTheorems, TLAPS

USE NetAssumption DEF NetAssumption

-----------------------------------------------------------------------------
(* Sequences.                                                              *)

(* What is taken from a socket leaves only frames that were in it.         *)
LEMMA TakeKeeps ==
  ASSUME NEW S, NEW q \in Seq(S), q # << >>
  PROVE  /\ Head(q) \in S /\ Tail(q) \in Seq(S)
         /\ 1 \in DOMAIN q /\ Head(q) = q[1]
         /\ \A i \in DOMAIN Tail(q) : i + 1 \in DOMAIN q /\ Tail(q)[i] = q[i + 1]
  OBVIOUS

(* What arrives in a socket joins the frames that were in it.              *)
LEMMA AppendKeeps ==
  ASSUME NEW S, NEW q \in Seq(S), NEW f \in S
  PROVE  /\ Append(q, f) \in Seq(S)
         /\ \A i \in DOMAIN Append(q, f) :
              \/ i \in DOMAIN q /\ Append(q, f)[i] = q[i]
              \/ Append(q, f)[i] = f
  OBVIOUS

-----------------------------------------------------------------------------
(* The initial states satisfy the invariant.                               *)
LEMMA InitInvariant == Init => IInv
<1> SUFFICES ASSUME Init PROVE IInv
  OBVIOUS
<1>0. Period \in Nat /\ Period > 1
  OBVIOUS
<1>1. bootp_timer \in 0 .. Period - 1 /\ since \in 1 .. Period
  BY <1>0 DEF Init
<1>2. ipv4_socket \in Seq(Frame) /\ arp_socket \in Seq(Addr)
  BY DEF Init
<1>3. TypeOK
  BY <1>1, <1>2 DEF Init, TypeOK
<1>4. RepliesOffered /\ AddressOurs /\ AnswersOurs
  BY DEF Init, RepliesOffered, AddressOurs, AnswersOurs
<1> QED
  BY <1>3, <1>4 DEF Init, IInv

(* A step of the network touches neither the address nor the timer, and    *)
(* brings only replies that were offered.                                  *)
LEMMA NetworkStep == IInv /\ Network => IInv'
<1> SUFFICES ASSUME IInv, Network PROVE IInv'
  OBVIOUS
<1> USE DEF IInv, TypeOK, RepliesOffered, AddressOurs, AnswersOurs
<1>1. CASE LinkChanges
  BY <1>1 DEF LinkChanges, addrVars, netVars
<1>2. CASE RequestLost
  BY <1>2 DEF RequestLost, addrVars
<1>3. ASSUME NEW a \in Addr \cup {Zero}, Serve(a) PROVE IInv'
  BY <1>3 DEF Serve, addrVars
<1>4. ASSUME NEW k \in {"reply", "foreign", "echo"}, NEW a \in Addr \cup {Zero}, Arrive(k, a)
      PROVE  IInv'
  <2> DEFINE f == [kind |-> k, addr |-> a]
  <2>1. f \in Frame
    BY DEF Frame
  <2>2. RepliesOffered'
    BY <1>4, <2>1, AppendKeeps DEF Arrive
  <2>3. ipv4_socket' \in Seq(Frame)
    BY <1>4, <2>1, AppendKeeps DEF Arrive
  <2> QED
    BY <1>4, <2>2, <2>3 DEF Arrive, addrVars
<1>5. ASSUME NEW a \in Addr, ArriveArp(a) PROVE IInv'
  <2>1. arp_socket' \in Seq(Addr)
    BY <1>5, AppendKeeps DEF ArriveArp
  <2> QED
    BY <1>5, <2>1 DEF ArriveArp, addrVars
<1> QED
  BY <1>1, <1>2, <1>3, <1>4, <1>5 DEF Network

-----------------------------------------------------------------------------
(* The polls.                                                              *)

(* While the node is in training it answers nothing and its timer runs     *)
(* with the polls.                                                         *)
LEMMA TrainStep ==
  ASSUME IInv, NEW f \in Frame, Train(f)
  PROVE  /\ bootp_timer' \in 0 .. Period - 1 /\ since' \in 1 .. Period
         /\ bootp_timer' = IF since' = Period THEN 0 ELSE since'
         /\ needIP' /\ sent' \in {"none", "request"}
         /\ sent' = "request" <=> since = Period
         /\ myIP' \in Addr \cup {Zero} /\ eb_ip' \in Addr \cup {Zero}
         /\ asked' \in BOOLEAN /\ fresh' = fresh
<1>1. /\ bootp_timer' = Advance
      /\ bootp_timer = 0 => sent' = "request" /\ since' = 1
      /\ bootp_timer # 0 => sent' = "none" /\ since' = since + 1
  BY DEF Train, SendBootp
<1>2. /\ bootp_timer \in 0 .. Period - 1 /\ since \in 1 .. Period
      /\ bootp_timer = IF since = Period THEN 0 ELSE since
  BY DEF IInv, TypeOK
<1>3. bootp_timer = 0 <=> since = Period
  BY <1>2
<1>4. /\ bootp_timer' \in 0 .. Period - 1 /\ since' \in 1 .. Period
      /\ bootp_timer' = IF since' = Period THEN 0 ELSE since'
  <2>1. Period \in Nat /\ Period > 1
    OBVIOUS
  <2>2. CASE bootp_timer = 0
    <3>1. bootp_timer' = IF 1 = Period THEN 0 ELSE 1
      BY <1>1, <2>2 DEF Advance
    <3>2. since' = 1
      BY <1>1, <2>2
    <3> QED
      BY <2>1, <3>1, <3>2
  <2>3. CASE bootp_timer # 0
    <3>1. bootp_timer = since /\ since \in 1 .. Period - 1
      BY <1>2, <2>1, <2>3
    <3>2. bootp_timer' = IF since + 1 = Period THEN 0 ELSE since + 1
      BY <1>1, <3>1 DEF Advance
    <3>3. since' = since + 1
      BY <1>1, <2>3
    <3> QED
      BY <2>1, <3>1, <3>2, <3>3
  <2> QED
    BY <2>2, <2>3
<1>5. /\ needIP' /\ fresh' = fresh /\ asked' \in BOOLEAN
      /\ myIP' \in Addr \cup {Zero} /\ eb_ip' \in Addr \cup {Zero}
  BY DEF Train, SendBootp, IInv, TypeOK
<1> QED
  BY <1>1, <1>3, <1>4, <1>5

(* setIP leaves the timer at rest when it sets an address, and running as  *)
(* before when it does not.                                                *)
LEMMA SetIPStep ==
  ASSUME IInv, NEW a \in Addr \cup {Zero}, SetIP(a)
  PROVE  /\ bootp_timer' \in 0 .. Period - 1 /\ since' \in 1 .. Period
         /\ bootp_timer' = IF since' = Period THEN 0 ELSE since'
         /\ needIP' = (a = Zero) /\ (~needIP' => since' = Period /\ fresh')
         /\ myIP' = a /\ eb_ip' = a /\ fresh' \in BOOLEAN
<1>1. /\ bootp_timer' = TimerSet(a) /\ since' = IF a = Zero THEN since ELSE Period
      /\ needIP' = (a = Zero) /\ myIP' = a /\ eb_ip' = a /\ fresh' = (fresh \/ a # Zero)
  BY DEF SetIP
<1>2. /\ bootp_timer' \in 0 .. Period - 1 /\ since' \in 1 .. Period
      /\ bootp_timer' = IF since' = Period THEN 0 ELSE since'
  <2>1. /\ bootp_timer \in 0 .. Period - 1 /\ since \in 1 .. Period
        /\ bootp_timer = IF since = Period THEN 0 ELSE since
        /\ bootp_timer' = TimerSet(a) /\ since' = IF a = Zero THEN since ELSE Period
    BY <1>1 DEF IInv, TypeOK
  <2> QED
    BY <2>1 DEF TimerSet
<1>3. fresh' \in BOOLEAN /\ (~needIP' => since' = Period /\ fresh')
  BY <1>1
<1> QED
  BY <1>1, <1>2, <1>3

(* A poll of the IPv4 socket preserves the invariant.                      *)
LEMMA Ipv4Step == IInv /\ Ipv4Poll => IInv'
<1> SUFFICES ASSUME IInv, Ipv4Poll PROVE IInv'
  OBVIOUS
<1> DEFINE f == IF ipv4_socket = << >> THEN NoFrame ELSE Head(ipv4_socket)
<1>1. ipv4_socket \in Seq(Frame) /\ RepliesOffered
  BY DEF IInv, TypeOK
<1>2. f \in Frame /\ (Accepted(f) => f.addr \in offered)
  <2>1. NoFrame \in Frame /\ ~Accepted(NoFrame)
    BY DEF NoFrame, Frame, Accepted
  <2>2. CASE ipv4_socket = << >>
    BY <2>1, <2>2
  <2>3. CASE ipv4_socket # << >>
    BY <1>1, <2>3, TakeKeeps DEF RepliesOffered, Accepted
  <2> QED
    BY <2>2, <2>3
<1>3. ipv4_socket' \in Seq(Frame) /\ RepliesOffered'
  <2>1. offered' = offered
    BY DEF Ipv4Poll
  <2>2. CASE ipv4_socket = << >>
    BY <1>1, <2>1, <2>2 DEF Ipv4Poll, RepliesOffered
  <2>3. CASE ipv4_socket # << >>
    <3>1. ipv4_socket' = Tail(ipv4_socket)
      BY <2>3 DEF Ipv4Poll
    <3>2. \A i \in DOMAIN Tail(ipv4_socket) :
            i + 1 \in DOMAIN ipv4_socket /\ Tail(ipv4_socket)[i] = ipv4_socket[i + 1]
      BY <1>1, <2>3, TakeKeeps
    <3> QED
      BY <1>1, <2>1, <2>3, <3>1, <3>2, TakeKeeps DEF RepliesOffered
  <2> QED
    BY <2>2, <2>3
<1>4. pc' = "arp" /\ UNCHANGED << link, prev, chosen, arp_socket, offered >>
  BY DEF Ipv4Poll
<1>5. CASE Train(f)
  <2>1. /\ bootp_timer' \in 0 .. Period - 1 /\ since' \in 1 .. Period
        /\ bootp_timer' = IF since' = Period THEN 0 ELSE since'
        /\ needIP' /\ sent' \in {"none", "request"}
        /\ myIP' \in Addr \cup {Zero} /\ eb_ip' \in Addr \cup {Zero}
        /\ asked' \in BOOLEAN /\ fresh' = fresh
    BY <1>2, <1>5, TrainStep
  <2>2. needIP' \in BOOLEAN
    BY <1>5 DEF Train, IInv, TypeOK
  <2>3. TypeOK'
    BY <1>3, <1>4, <2>1, <2>2 DEF IInv, TypeOK
  <2>4. AddressOurs' /\ AnswersOurs'
    BY <2>1 DEF AddressOurs, AnswersOurs
  <2> QED
    BY <1>3, <2>1, <2>3, <2>4 DEF IInv
<1>6. CASE Found(f)
  <2>1. f.addr \in Addr /\ f.addr \in offered
    BY <1>2, <1>6 DEF Found, Frame
  <2>2. /\ bootp_timer' \in 0 .. Period - 1 /\ since' \in 1 .. Period
        /\ bootp_timer' = IF since' = Period THEN 0 ELSE since'
        /\ since' = Period /\ needIP' = FALSE /\ fresh' /\ fresh' \in BOOLEAN
        /\ myIP' = f.addr /\ eb_ip' = f.addr
        /\ sent' = "none" /\ asked' = asked
    <3>1. SetIP(f.addr) /\ sent' = "none" /\ asked' = asked /\ f.addr # Zero
      BY <1>6 DEF Found
    <3>2. /\ bootp_timer' \in 0 .. Period - 1 /\ since' \in 1 .. Period
          /\ bootp_timer' = IF since' = Period THEN 0 ELSE since'
          /\ needIP' = (f.addr = Zero) /\ (~needIP' => since' = Period /\ fresh')
          /\ myIP' = f.addr /\ eb_ip' = f.addr /\ fresh' \in BOOLEAN
      BY <2>1, <3>1, SetIPStep
    <3>3. needIP' = FALSE
      BY <3>1, <3>2
    <3> QED
      BY <3>1, <3>2, <3>3
  <2>3. TypeOK'
    BY <1>3, <1>4, <2>1, <2>2 DEF IInv, TypeOK
  <2>4. AddressOurs' /\ AnswersOurs'
    BY <1>4, <2>1, <2>2 DEF AddressOurs, AnswersOurs
  <2> QED
    BY <1>3, <2>2, <2>3, <2>4 DEF IInv
<1>7. CASE AnswerEcho(f)
  <2>1. /\ ~needIP /\ sent' \in {myIP, "none"}
        /\ UNCHANGED << needIP, myIP, eb_ip, bootp_timer, fresh, since, asked >>
    BY <1>7 DEF AnswerEcho
  <2>2. TypeOK'
    BY <1>3, <1>4, <2>1 DEF IInv, TypeOK
  <2>3. AddressOurs' /\ AnswersOurs'
    BY <1>4, <2>1 DEF IInv, AddressOurs, AnswersOurs
  <2> QED
    BY <1>3, <2>1, <2>2, <2>3 DEF IInv
<1> QED
  BY <1>5, <1>6, <1>7 DEF Ipv4Poll

(* A poll of the ARP socket preserves the invariant.                       *)
LEMMA ArpStep == IInv /\ ArpPoll => IInv'
<1> SUFFICES ASSUME IInv, ArpPoll PROVE IInv'
  OBVIOUS
<1>1. /\ sent' = "none" \/ (sent' = myIP /\ ~needIP)
      /\ pc' = "ui" /\ UNCHANGED << link, prev, addrVars, ipv4_socket, asked, offered >>
  BY DEF ArpPoll
<1>2. arp_socket' \in Seq(Addr)
  BY TakeKeeps DEF ArpPoll, IInv, TypeOK
<1> QED
  BY <1>1, <1>2 DEF IInv, TypeOK, RepliesOffered, AddressOurs, AnswersOurs, addrVars

-----------------------------------------------------------------------------
(* Every step preserves the invariant.                                     *)
LEMMA NextInvariant == IInv /\ [Next]_vars => IInv'
<1> SUFFICES ASSUME IInv, [Next]_vars PROVE IInv'
  OBVIOUS
<1>1. CASE Network
  BY <1>1, NetworkStep
<1>2. CASE CheckLink
  BY <1>2 DEF CheckLink, WentUp, netVars, IInv, TypeOK, RepliesOffered, AddressOurs, AnswersOurs
<1>3. CASE Ipv4Poll
  BY <1>3, Ipv4Step
<1>4. CASE ArpPoll
  BY <1>4, ArpStep
<1>5. ASSUME NEW from \in {"script", "ui"}, Command(from) PROVE IInv'
  <2>1. pc' = "link" /\ sent' = "none" /\ UNCHANGED << link, prev, netVars >>
    BY <1>5 DEF Command
  <2>2. CASE UNCHANGED addrVars
    BY <2>1, <2>2 DEF addrVars, netVars, IInv, TypeOK, RepliesOffered, AddressOurs, AnswersOurs
  <2>3. ASSUME NEW a \in Addr \cup {Zero}, SetIP(a), chosen' = chosen \cup {a} PROVE IInv'
    <3>1. /\ bootp_timer' \in 0 .. Period - 1 /\ since' \in 1 .. Period
          /\ bootp_timer' = IF since' = Period THEN 0 ELSE since'
          /\ needIP' = (a = Zero) /\ (~needIP' => since' = Period /\ fresh')
          /\ myIP' = a /\ eb_ip' = a /\ fresh' \in BOOLEAN
      BY <2>3, SetIPStep
    <3>2. TypeOK' /\ RepliesOffered'
      BY <2>1, <2>3, <3>1 DEF netVars, IInv, TypeOK, RepliesOffered
    <3>3. AddressOurs' /\ AnswersOurs'
      BY <2>1, <2>3, <3>1 DEF AddressOurs, AnswersOurs
    <3> QED
      BY <3>1, <3>2, <3>3 DEF IInv
  <2> QED
    BY <1>5, <2>2, <2>3 DEF Command
<1>6. CASE UNCHANGED vars
  BY <1>6 DEF vars, addrVars, netVars, IInv, TypeOK, RepliesOffered, AddressOurs, AnswersOurs
<1> QED
  BY <1>1, <1>2, <1>3, <1>4, <1>5, <1>6 DEF Next, Node

(* The inductive invariant holds for every set of addresses and period.    *)
THEOREM NetInvariant == Spec => []IInv
  BY InitInvariant, NextInvariant, PTL DEF Spec

(* The address held was offered to this node or set by the user since the  *)
(* link came up, and the Etherbone core has the same.                      *)
THEOREM AddressHeld == Spec => []AddressOurs
<1>1. IInv => AddressOurs
  BY DEF IInv
<1> QED
  BY <1>1, NetInvariant, PTL

(* No ARP or ICMP answer names another address than the one held, or is    *)
(* sent by a node in training.                                             *)
THEOREM AnswersHeld == Spec => []AnswersOurs
<1>1. IInv => AnswersOurs
  BY DEF IInv
<1> QED
  BY <1>1, NetInvariant, PTL

(* Requests go out exactly Period polls apart.                             *)
THEOREM RequestsPaced == Spec => Paced
<1> DEFINE P == pc = "ipv4" /\ pc' = "arp" /\ needIP' => (sent' = "request" <=> since = Period)
<1>1. IInv /\ [Next]_vars => [P]_vars
  <2> SUFFICES ASSUME IInv, Next, pc = "ipv4", pc' = "arp", needIP'
               PROVE  sent' = "request" <=> since = Period
    OBVIOUS
  <2>1. Ipv4Poll
    BY DEF Next, Network, Node, LinkChanges, RequestLost, Serve, Arrive, ArriveArp,
           CheckLink, ArpPoll, Command
  <2> DEFINE f == IF ipv4_socket = << >> THEN NoFrame ELSE Head(ipv4_socket)
  <2>2. f \in Frame
    BY TakeKeeps DEF NoFrame, Frame, IInv, TypeOK
  <2>3. ~Found(f)
    BY DEF Found, SetIP
  <2>4. ~AnswerEcho(f)
    BY DEF AnswerEcho
  <2>5. Train(f)
    BY <2>1, <2>3, <2>4 DEF Ipv4Poll
  <2> QED
    BY <2>2, <2>5, TrainStep
<1> QED
  BY <1>1, NetInvariant, PTL DEF Spec, Paced
=============================================================================
