------------------------------ MODULE Pfilter ------------------------------
(***************************************************************************)
(* The packet filter of the endpoint (ep_pfilter.c): the program that      *)
(* pfilter_init_default assembles, and the processor it runs on, as the    *)
(* head of the file describes it.  A register is a Boolean, a frame a      *)
(* function from the offset of a 16-bit word to its value.                 *)
(***************************************************************************)
EXTENDS Integers, Sequences

PFILTER_MAX_CODE_SIZE == 32

R_DROP == 23
R_CLASS(x) == 24 + x

ETH_IPV4 == 2048       (* 0x0800                                            *)
ETH_PTP  == 35063      (* 0x88f7                                            *)
ETH_ARP  == 2054       (* 0x0806                                            *)
ICMP     == 1
UDP      == 17
BOOTPC   == 68

(* The masks in use keep a whole word or its low byte.                     *)
WORD == 65536
BYTE == 256

(* An address as three words.                                              *)
BROADCAST == << 65535, 65535, 65535 >>
PTP_MULTI == << 283, 6400, 0 >>            (* 01:1b:19:00:00:00             *)

pfilter_cmp(offset, value, mask, op, rd) ==
  [ins |-> "cmp", offset |-> offset, value |-> value, mask |-> mask, op |-> op, rd |-> rd]

pfilter_logic3(rd, ra, op, rb, op2, rc) ==
  [ins |-> "logic", rd |-> rd, ra |-> ra, op |-> op, rb |-> rb, op2 |-> op2, rc |-> rc]

(* A two-argument operation has MOV in place of the second one.            *)
pfilter_logic2(rd, ra, op, rb) == pfilter_logic3(rd, ra, op, rb, "MOV", 0)

(* LOGIC2 0, 0, AND, 0                                                     *)
pfilter_nop == pfilter_logic2(0, 0, "AND", 0)

(* The program, for the address the endpoint holds when it is assembled.   *)
Program(own) ==
  << pfilter_nop,
     pfilter_cmp(0, BROADCAST[1], WORD, "MOV", 1),
     pfilter_cmp(1, BROADCAST[2], WORD, "AND", 1),
     pfilter_cmp(2, BROADCAST[3], WORD, "AND", 1),
     pfilter_cmp(0, PTP_MULTI[1], WORD, "MOV", 2),
     pfilter_cmp(1, PTP_MULTI[2], WORD, "AND", 2),
     pfilter_cmp(2, PTP_MULTI[3], WORD, "AND", 2),
     pfilter_cmp(0, own[1], WORD, "MOV", 3),
     pfilter_cmp(1, own[2], WORD, "AND", 3),
     pfilter_cmp(2, own[3], WORD, "AND", 3),
     pfilter_cmp(6, ETH_IPV4, WORD, "MOV", 4),
     pfilter_cmp(6, ETH_PTP, WORD, "MOV", 5),
     pfilter_cmp(6, ETH_ARP, WORD, "MOV", 6),
     pfilter_cmp(11, ICMP, BYTE, "MOV", 7),
     pfilter_cmp(11, UDP, BYTE, "MOV", 8),
     pfilter_logic3(10, 3, "OR", 0, "AND", 4),
     pfilter_logic3(11, 1, "OR", 3, "AND", 4),
     pfilter_logic3(14, 1, "AND", 6, "OR", 5),
     pfilter_logic3(15, 10, "AND", 7, "OR", 14),
     pfilter_cmp(18, BOOTPC, WORD, "MOV", 14),
     pfilter_logic3(14, 14, "AND", 8, "AND", 11),
     pfilter_logic2(15, 14, "OR", 15),
     pfilter_logic3(20, 11, "AND", 8, "OR", 15),
     pfilter_logic2(R_DROP, 20, "NOT", 0),
     pfilter_logic2(R_CLASS(7), 11, "AND", 8),
     pfilter_logic2(R_CLASS(0), 15, "MOV", 0) >>

(* The comparisons look at words that have arrived, and the code with its  *)
(* FIN fits.                                                               *)
Loadable(code) ==
  /\ Len(code) < PFILTER_MAX_CODE_SIZE
  /\ \A i \in DOMAIN code : code[i].ins = "cmp" => code[i].offset <= i - 1 /\ code[i].rd \in 1 .. 15

(***************************************************************************)
(* The processor, and what it looks at of a frame.                         *)
(***************************************************************************)
Looked == {0, 1, 2, 6, 11, 18}

Frame == [Looked -> 0 .. WORD - 1]

Apply(op, a, b) ==
  CASE op = "AND" -> a /\ b
    [] op = "OR"  -> a \/ b
    [] op = "MOV" -> a
    [] op = "NOT" -> ~a

(* One instruction: the value it leaves in its register.                   *)
Result(i, reg, frame) ==
  IF i.ins = "cmp"
    THEN LET equal == frame[i.offset] % i.mask = i.value
         IN  IF i.op = "MOV" THEN equal ELSE Apply(i.op, reg[i.rd], equal)
    ELSE LET first == Apply(i.op, reg[i.ra], reg[i.rb])
         IN  IF i.op2 = "MOV" THEN first ELSE Apply(i.op2, first, reg[i.rc])

(* The registers after the program has run over a frame.                   *)
Registers(code, frame) ==
  LET after[n \in 0 .. Len(code)] ==
        IF n = 0 THEN [r \in 0 .. 31 |-> FALSE]
        ELSE LET reg == after[n - 1]
             IN  [reg EXCEPT ![code[n].rd] = Result(code[n], reg, frame)]
  IN  after[Len(code)]

(* What becomes of a frame: dropped, or taken by the classes 0 (the CPU)   *)
(* and 7 (the external fabric).                                            *)
Classify(code, frame) ==
  LET reg == Registers(code, frame) IN
  IF reg[R_DROP] THEN {} ELSE { x \in {0, 7} : reg[R_CLASS(x)] }

(***************************************************************************)
(* What the comments promise: "class 7: UDP/IP(unicast|broadcast)", "class *)
(* 0: ICMP/IP(unicast) or ARP(broadcast) or PTPv2", with BOOTP among it,   *)
(* and "None match? drop".                                                 *)
(***************************************************************************)
Wanted(own, frame) ==
  LET dst       == << frame[0], frame[1], frame[2] >>
      ipv4      == frame[6] = ETH_IPV4
      protocol  == frame[11] % 256
      addressed == ipv4 /\ dst \in {own, BROADCAST}
      forCpu == \/ frame[6] = ETH_PTP
                \/ frame[6] = ETH_ARP /\ dst = BROADCAST
                \/ ipv4 /\ dst = own /\ protocol = ICMP
                \/ addressed /\ protocol = UDP /\ frame[18] = BOOTPC
  IN  (IF forCpu THEN {0} ELSE {}) \cup (IF addressed /\ protocol = UDP THEN {7} ELSE {})
=============================================================================
