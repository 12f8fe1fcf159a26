-------------------------------- MODULE Sdb --------------------------------
(***************************************************************************)
(* The devices on the internal bus (dev/sdb.c) are described by tables in  *)
(* hardware: the first record of a table tells how many there are, others  *)
(* name a device or lead to the table of the bus behind a bridge.          *)
(***************************************************************************)
EXTENDS Integers, Sequences, FiniteSetsExt, SequencesExt

CONSTANTS
  AddrSpace,   (* addresses are counted modulo this: 2^32                   *)
  Maps,        (* the tables there may be                                   *)
  Ids,         (* kinds of devices                                          *)
  NotYet

VARIABLES
  map,     (* the records of each table but the first, by its address       *)
  bases    (* BASE_MINIC, BASE_EP and so on                                 *)

busVars == << map, bases >>

DeviceAt(id, first) == [type |-> "device", id |-> id, first |-> first, child |-> 0]
BridgeTo(first, child) == [type |-> "bridge", id |-> 0, first |-> first, child |-> child]
EmptyRecord == [type |-> "empty", id |-> 0, first |-> 0, child |-> 0]

Plus(base, record) == (base + record.first) % AddrSpace

(* As in module Minic, <Operator>_<Fault> names a seeded fault.            *)
find_device_deep_BridgeBase(devid) ==
  LET find[base \in 0 .. AddrSpace - 1, sdb \in DOMAIN map] ==
        LET Behind(i) == find[base, map[sdb][i].child]
            hits == { i \in DOMAIN map[sdb] :
                        \/ map[sdb][i].type = "bridge" /\ Behind(i) # 0
                        \/ map[sdb][i].type = "device" /\ map[sdb][i].id = devid }
        IN  IF hits = {} THEN 0
            ELSE IF map[sdb][Min(hits)].type = "bridge" THEN Behind(Min(hits))
            ELSE Plus(base, map[sdb][Min(hits)])
  IN  find

(* The address of the first record that hits, 0 if none does: a bridge     *)
(* hits if what is found behind it is not 0.                               *)
find_device_deep(devid) ==
  LET find[base \in 0 .. AddrSpace - 1, sdb \in DOMAIN map] ==
        LET Behind(i) == find[Plus(base, map[sdb][i]), map[sdb][i].child]
            hits == { i \in DOMAIN map[sdb] :
                        \/ map[sdb][i].type = "bridge" /\ Behind(i) # 0
                        \/ map[sdb][i].type = "device" /\ map[sdb][i].id = devid }
        IN  IF hits = {} THEN 0
            ELSE IF map[sdb][Min(hits)].type = "bridge" THEN Behind(Min(hits))
            ELSE Plus(base, map[sdb][Min(hits)])
  IN  find

(* What "sdb" lists, in its order.                                         *)
print_devices_deep ==
  LET list[base \in 0 .. AddrSpace - 1, sdb \in DOMAIN map] ==
        FlattenSeq([i \in DOMAIN map[sdb] |->
          LET record == map[sdb][i] IN
          CASE record.type = "bridge" -> list[Plus(base, record), record.child]
            [] record.type = "device" -> << [id |-> record.id, addr |-> Plus(base, record)] >>
            [] OTHER                  -> << >>])
  IN  list

(* find_device has no return statement; the build leaves the result of the *)
(* call in it where the caller takes it from.                              *)
sdb_find_devices ==
  /\ bases = NotYet
  /\ bases' = [id \in Ids |-> find_device_deep(id)[0, 0]]
  /\ UNCHANGED map

BusInit == map \in Maps /\ bases = NotYet

-----------------------------------------------------------------------------
(* Start-up finds of each kind the device that "sdb" lists first, and none *)
(* that it does not list; but 0 stands for none.                           *)
DevicesFound ==
  bases # NotYet =>
    \A id \in Ids :
      LET listed == SelectSeq(print_devices_deep[0, 0], LAMBDA d : d.id = id) IN
      IF listed = << >> THEN bases[id] = 0
      ELSE (\A k \in DOMAIN listed : listed[k].addr # 0) => bases[id] = listed[1].addr
=============================================================================
