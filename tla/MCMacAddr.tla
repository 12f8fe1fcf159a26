----------------------------- MODULE MCMacAddr -----------------------------
(***************************************************************************)
(* Boards with up to three of six devices (two thermometers of one kind   *)
(* and one of the other, two EEPROMs, and one that answers to the family   *)
(* of a thermometer without being one) and places for eight.  The numbers  *)
(* behind the family codes have two bits, and a last one for the check     *)
(* byte.                                                                   *)
(***************************************************************************)
EXTENDS MacAddr, TLC

Id(code, a, b) == code \o << a, b, (a + b) % 2 >>

MCPool == { Id(TEMP28, 0, 0), Id(TEMP28, 1, 1), Id(TEMP42, 1, 0), Id(EEPROM43, 0, 1), Id(EEPROM43, 1, 1),
            Id(Code(168), 1, 0) }

MCBoards ==
  LET t(a) == Id(TEMP28, a, a)   e(a) == Id(EEPROM43, a, 1)   u == Id(TEMP42, 1, 0)   w == Id(Code(168), 1, 0)
  IN  { {w, e(1)}, {}, {t(1), e(1)}, {t(0), t(1)}, {t(0), e(0), e(1)}, {t(1), u, e(0)}, {t(0), t(1), u} }

MCRomBits == FamilyBits + 3

MCLowBytes == [d \in MCPool |-> << d[1] * 2 + d[2], d[8 + 1], d[8 + 2] >>]

MCProgrammed == { << 8, 0, 48, 1, 2, 3 >> }
MCEntered    == { << 2, 0, 48, 222, 4, 66 >> }

(* Each word of an address is wrong on its own; the bytes a filter looks   *)
(* at behind the type are those of other protocols, too.                   *)
MCFrames ==
  LET own   == << 512, 12510, 1090 >>
      near  == { << 512, 12510, 1091 >>, << 512, 12511, 1090 >>, << 2048, 12510, 1090 >>, PTP_MULTI }
      frame(d, type, protocol, port) ==
        (0 :> d[1]) @@ (1 :> d[2]) @@ (2 :> d[3]) @@ (6 :> type) @@ (11 :> protocol) @@ (18 :> port)
  IN  { frame(d, ETH_IPV4, rest[1], rest[2]) :
          d \in {own, BROADCAST}, rest \in { << ICMP, 68 >>, << UDP, BOOTPC >>, << 256 + UDP, 67 >>, << 6, 68 >> } }
      \cup { frame(d, ETH_IPV4, protocol, BOOTPC) : d \in near, protocol \in {ICMP, UDP} }
      \cup { frame(d, type, UDP, BOOTPC) : d \in {own, BROADCAST, PTP_MULTI}, type \in {ETH_PTP, ETH_ARP, 41120} }
=============================================================================
