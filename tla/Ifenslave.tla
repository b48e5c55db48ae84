------------------------------ MODULE Ifenslave -----------------------------
(***************************************************************************)
(* package/network/ifenslave/ifenslave.c: interfaces are made slaves of a  *)
(* bond, released from it, or one of them is made the active one.  Each    *)
(* step is an ioctl(), which may fail; what a successful one does in the   *)
(* kernel is external.  A bonding driver of ABI 0 leaves more to the       *)
(* program than later ones.                                                *)
(***************************************************************************)
EXTENDS Integers, Sequences

CONSTANTS Slave,       \* the interfaces named, in the order of the arguments
          NoMac,       \* the hardware address of a bond that has none
          MaxFail      \* bound: calls of ioctl() that fail

\* No interface is named twice: one whose first attempt has failed may be left
\* without an address, and a second attempt would give the bond that.
ASSUME IfenslaveAssumption ==
  /\ Slave \in Seq(STRING) /\ Slave # <<>> /\ NoMac \notin {Slave[i] : i \in DOMAIN Slave}
  /\ \A i, j \in DOMAIN Slave : Slave[i] = Slave[j] => i = j

VARIABLES
  opt,           \* "enslave", "detach", "change"
  abi_ver,       \* 0, 1 or 2
  bond,          \* the master: [ismaster, up, ether, mac, active]
  iface,         \* each interface: [up, mac, mtu, addr, slave]
  hwaddr_set, master_hwaddr,
  slaves,        \* the arguments to come
  slave,         \* the settings of the present one, as read
  epc,           \* the next call
  failure, res,  \* of the present interface; to be returned
  failures,
  undone         \* history: the bond's address was taken back when that mattered

bond_vars == <<opt, abi_ver, bond, iface, hwaddr_set, master_hwaddr, slaves, slave, epc, failure, res, failures, undone>>

Iface == {Slave[i] : i \in DOMAIN Slave}
DefaultMtu == 1500
BondMtu == 9000
Own(s) == [up |-> TRUE, mac |-> s, mtu |-> DefaultMtu, addr |-> "own", slave |-> FALSE]
Enslaved(mac) == [up |-> TRUE, mac |-> mac, mtu |-> BondMtu, addr |-> "master", slave |-> TRUE]

\* A bond without slaves, and with an address or not; or with all of them.
BondInit ==
  /\ opt \in {"enslave", "detach", "change"} /\ abi_ver = 0 /\ hwaddr_set = FALSE
  /\ \E mac \in {NoMac, Slave[1]}, m, u, e \in BOOLEAN :
       bond = [ismaster |-> m, up |-> u, ether |-> e, mac |-> mac, active |-> NoMac]
  /\ \/ iface = [s \in Iface |-> Own(s)]
     \/ bond.mac # NoMac /\ iface = [s \in Iface |-> Enslaved(bond.mac)]
  /\ master_hwaddr = NoMac /\ slaves = Slave /\ slave = Own(Slave[1])
  /\ epc = "handshake" /\ failure = FALSE /\ res = 0 /\ failures = 0 /\ undone = FALSE

now == Head(slaves)
options == <<opt, abi_ver>>
addresses == <<hwaddr_set, master_hwaddr>>
progress == <<slaves, slave, failure, res>>

Fail == failures < MaxFail /\ failures' = failures + 1
Good == UNCHANGED failures

\* The interface is done with; the error is remembered and the next one comes.
Next1(bad) == /\ res' = (IF bad THEN 1 ELSE res) /\ slaves' = Tail(slaves)
              /\ epc' = IF Len(slaves) = 1 \/ opt = "change" THEN "out" ELSE "settings"
              /\ failure' = FALSE /\ UNCHANGED slave
GoTo(step) == epc' = step /\ UNCHANGED progress
Undo(step) == epc' = step /\ failure' = TRUE /\ UNCHANGED <<slaves, slave, res>>

-----------------------------------------------------------------------------
(* What the calls tell, and how they change an interface.                  *)

\* A driver that does not answer has ABI 0.
get_drv_info == abi_ver' \in 0 .. 2
get_if_settings(s) == iface[s]
get_slave_flags(s) == [slave EXCEPT !.slave = iface[s].slave]
set_if_flags(s, on) == [iface[s] EXCEPT !.up = on]
clear_if_addr(s) == [iface[s] EXCEPT !.addr = "none"]
MasterAddr(s) == [iface[s] EXCEPT !.addr = "master"]

-----------------------------------------------------------------------------
(* main(), up to the loop.                                                 *)

Out(code) == epc' = "out" /\ res' = code /\ UNCHANGED <<slaves, slave, failure>>

Handshake ==
  /\ epc = "handshake"
  /\ \/ Good /\ GoTo("master") /\ get_drv_info
     \/ Fail /\ Out(1) /\ UNCHANGED abi_ver
  /\ UNCHANGED <<opt, bond, iface, addresses, undone>>

\* get_if_settings() of the master, and the checks; force is -f.
CheckMaster(force) ==
  /\ epc = "master"
  /\ LET legal == bond.ismaster /\ bond.up /\ (opt # "enslave" \/ bond.ether \/ force)
     IN \/ Fail /\ Out(1) /\ UNCHANGED addresses
        \/ Good /\ ~legal /\ Out(1) /\ UNCHANGED addresses
        \/ /\ Good /\ legal /\ GoTo("settings")
           /\ master_hwaddr' = bond.mac /\ hwaddr_set' = (opt = "enslave" /\ bond.mac # NoMac)
  /\ UNCHANGED <<options, bond, iface, undone>>

\* get_if_settings() or get_slave_flags(); one that cannot be read is skipped.
SlaveSettings ==
  /\ epc = "settings"
  /\ \/ Fail /\ Next1(TRUE)
     \/ Good /\ UNCHANGED <<slaves, failure, res>>
        /\ slave' = (IF opt = "enslave" THEN get_if_settings(now) ELSE get_slave_flags(now))
        /\ epc' = CASE opt = "enslave" -> "check" [] opt = "detach" -> "release" [] OTHER -> "active"
  /\ UNCHANGED <<options, bond, iface, addresses, undone>>

-----------------------------------------------------------------------------
(* enslave().                                                              *)

IsSlave == /\ epc = "check" /\ slave.slave /\ Next1(TRUE)
           /\ Good /\ UNCHANGED <<options, bond, iface, addresses, undone>>

\* An ioctl() that changes the interface; one that fails ends in step, or in the
\* next interface.
Change(step, next, change, undo) ==
  /\ epc = step /\ UNCHANGED <<options, bond, addresses, undone>>
  /\ \/ Good /\ iface' = [iface EXCEPT ![now] = change] /\ GoTo(next)
     \/ Fail /\ UNCHANGED iface /\ (IF undo = "none" THEN Next1(TRUE) ELSE Undo(undo))
ChangeBond(step, next, change, undo) ==
  /\ epc = step /\ UNCHANGED <<options, iface, addresses, undone>>
  /\ \/ Good /\ bond' = change /\ GoTo(next)
     \/ Fail /\ UNCHANGED bond /\ Undo(undo)

set_if_down == ~slave.slave /\ Change("check", "addr", set_if_flags(now, FALSE), "none")

\* set_if_addr() of an ABI below 2, clear_if_addr() of the others.
set_if_addr == Change("addr", IF slave.mtu # BondMtu THEN "mtu" ELSE "mac",
                      IF abi_ver < 2 THEN MasterAddr(now) ELSE clear_if_addr(now), "none")
set_slave_mtu == Change("mtu", "mac", [iface[now] EXCEPT !.mtu = BondMtu], "none")

\* Who gets whose address.
Mac == /\ epc = "mac" /\ Good /\ UNCHANGED <<options, bond, iface, addresses, undone>>
       /\ GoTo(IF hwaddr_set THEN IF abi_ver < 1 THEN "slavemac" ELSE "bond"
               ELSE IF abi_ver < 1 THEN "masterdown" ELSE "mastermac")

set_slave_hwaddr == Change("slavemac", "slaveup", [iface[now] EXCEPT !.mac = master_hwaddr], "undo_mtu")
set_if_up == Change("slaveup", "bond", set_if_flags(now, TRUE), "undo_slave_mac")

MasterDown == ChangeBond("masterdown", "mastermac", [bond EXCEPT !.up = FALSE], "undo_mtu")
set_master_hwaddr == ChangeBond("mastermac", IF abi_ver < 1 THEN "masterup" ELSE "set", [bond EXCEPT !.mac = slave.mac], "undo_mtu")
MasterUp == ChangeBond("masterup", "set", [bond EXCEPT !.up = TRUE], "undo_master_mac")
HwaddrSet == /\ epc = "set" /\ Good /\ GoTo("bond") /\ hwaddr_set' = TRUE
             /\ UNCHANGED <<options, bond, iface, master_hwaddr, undone>>

\* The real thing; from ABI 1 on the driver sets the address and brings it up.
BondEnslave ==
  /\ epc = "bond" /\ UNCHANGED <<options, bond, addresses, undone>>
  /\ \/ /\ Good /\ Next1(FALSE)
        /\ iface' = [iface EXCEPT ![now] = IF abi_ver < 1 THEN [@ EXCEPT !.slave = TRUE]
                                           ELSE [@ EXCEPT !.slave = TRUE, !.mac = bond.mac, !.up = TRUE]]
     \/ Fail /\ UNCHANGED iface /\ Undo("undo_master_mac")

\* The rollback; whether its calls fail is not looked at.
UndoMasterMac ==
  /\ epc = "undo_master_mac" /\ hwaddr_set' = FALSE /\ GoTo("undo_mtu")
  /\ \/ Good /\ bond' = [bond EXCEPT !.mac = master_hwaddr]
     \/ Fail /\ UNCHANGED bond
  /\ undone' = (undone \/ abi_ver = 0 \/ \E s \in Iface : iface[s].slave)
  /\ UNCHANGED <<options, iface, master_hwaddr>>
UndoSlave(step, change) ==
  /\ epc = step /\ UNCHANGED <<options, bond, addresses, undone>>
  /\ \/ Good /\ iface' = [iface EXCEPT ![now] = change]
     \/ Fail /\ UNCHANGED iface
UndoSlaveMac == UndoSlave("undo_slave_mac", [iface[now] EXCEPT !.mac = slave.mac]) /\ GoTo("undo_mtu")
UndoMtu == UndoSlave("undo_mtu", [iface[now] EXCEPT !.mtu = slave.mtu]) /\ Next1(TRUE)

enslave == \/ IsSlave \/ set_if_down \/ set_if_addr \/ set_slave_mtu \/ Mac \/ set_slave_hwaddr \/ set_if_up
           \/ MasterDown \/ set_master_hwaddr \/ MasterUp \/ HwaddrSet \/ BondEnslave
           \/ UndoMasterMac \/ UndoSlaveMac \/ UndoMtu

-----------------------------------------------------------------------------
(* release() and change_active().                                          *)

NotSlave == /\ epc \in {"release", "active"} /\ ~slave.slave /\ Next1(TRUE)
            /\ Good /\ UNCHANGED <<options, bond, iface, addresses, undone>>

\* The driver gives the interface its own address back.
BondRelease ==
  /\ epc = "release" /\ slave.slave /\ UNCHANGED <<options, bond, addresses, undone>>
  /\ \/ /\ Good /\ iface' = [iface EXCEPT ![now].slave = FALSE, ![now].mac = now]
        /\ GoTo(IF abi_ver < 1 THEN "reldown" ELSE "relmtu")
     \/ Fail /\ UNCHANGED iface /\ Next1(TRUE)
ReleaseDown ==
  /\ epc = "reldown" /\ UNCHANGED <<options, bond, addresses, undone>>
  /\ \/ Good /\ iface' = [iface EXCEPT ![now] = set_if_flags(now, FALSE)] /\ GoTo("relmtu")
     \/ Fail /\ UNCHANGED iface /\ Undo("relmtu")
ReleaseMtu == UndoSlave("relmtu", [iface[now] EXCEPT !.mtu = DefaultMtu]) /\ Next1(failure)

change_active ==
  /\ epc = "active" /\ slave.slave /\ UNCHANGED <<options, iface, addresses, undone>>
  /\ \/ Good /\ bond' = [bond EXCEPT !.active = now] /\ Next1(FALSE)
     \/ Fail /\ UNCHANGED bond /\ Next1(TRUE)

BondNext == \/ Handshake \/ (\E force \in BOOLEAN : CheckMaster(force)) \/ SlaveSettings
            \/ enslave \/ NotSlave \/ BondRelease \/ ReleaseDown \/ ReleaseMtu \/ change_active

BondSpec == BondInit /\ [][BondNext]_bond_vars
-----------------------------------------------------------------------------
\* "If bond0 didn't have a MAC address, it will take eth0's.  Then, all
\* interfaces attached AFTER this assignment will get the same MAC addr."
OneAddress == \A s \in Iface : iface[s].slave => iface[s].mac = bond.mac
\* It holds unless a rollback takes the address back from a bond that has
\* slaves (an interface after the first could not be enslaved), or the driver
\* leaves the addresses to the program and the bond had none or was given back
\* an old one: later slaves then get the address read from the bond at first.
Refreshed == abi_ver > 0 \/ (master_hwaddr # NoMac /\ ~undone)
OneAddressUnlessUndone == ~undone /\ Refreshed => OneAddress

\* What the program believes of the bond is so: it has an address.
HwaddrSetIsSo == hwaddr_set => bond.mac # NoMac

\* Success means that all of them are what was asked for (and up, but for the
\* first slave of a bond that had no address, with such a driver).
SuccessMeansDone ==
  epc = "out" /\ res = 0 =>
    CASE opt = "enslave" -> \A s \in Iface : iface[s].slave /\ iface[s].mtu = BondMtu /\ (Refreshed => iface[s].up)
      [] opt = "detach" -> \A s \in Iface : ~iface[s].slave
      [] OTHER -> bond.active = Slave[1] /\ iface[Slave[1]].slave

\* One that could not be enslaved has its MTU again, and its address if the
\* driver is one that sets it (with ABI 0 it keeps the address of the bond),
\* unless another call failed.
RolledBack ==
  epc = "out" /\ opt = "enslave" /\ failures <= 1 =>
    \A s \in Iface : ~iface[s].slave => iface[s].mtu = DefaultMtu /\ (abi_ver > 0 => iface[s].mac = s)
BondRight == OneAddressUnlessUndone /\ HwaddrSetIsSo /\ SuccessMeansDone /\ RolledBack
=============================================================================
