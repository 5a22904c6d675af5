----------------------------- MODULE RelayAccess -----------------------------
(***************************************************************************)
(* Who may use the relay: the status of each client id in the allowlist    *)
(* and its row in the device table, without the enrollment protocol that   *)
(* leads to them.  RelayService runs the message queue on top of it.       *)
(*                                                                         *)
(* The administrator's commands run in a process of their own              *)
(* (relay/src/main.rs) and every statement commits by itself, so revoking  *)
(* a client is two steps with anything in between, or a crash.             *)
(***************************************************************************)
EXTENDS RelayClients

CONSTANTS
  Address,    \* the addresses clients register under, client ids perhaps
  NoDevice    \* the client has no row in `devices`

ASSUME NoDeviceAssumption == NoDevice \notin Address

VARIABLES
  access,     \* allowlist row: "none"; "approved": active and not enrolled;
              \* "used": active and enrolled; "revoked"
  device,     \* device_address of the client's row in `devices`
  dropping    \* clients whose device row a revocation has yet to delete

accessVars == <<access, device, dropping>>

Access == {"none", "approved", "used", "revoked"}

AccessTypeOK == /\ access \in [Client -> Access]
                /\ device \in [Client -> Address \cup {NoDevice}]
                /\ dropping \in SUBSET Client

AccessInit == /\ access = [c \in Client |-> "none"]
              /\ device = [c \in Client |-> NoDevice]
              /\ dropping = {}

(* The statement of authenticate_request: a device row and an active       *)
(* allowlist row.                                                          *)
HasDevice(c) == device[c] # NoDevice
Authorised(c) == HasDevice(c) /\ access[c] \in {"approved", "used"}

(* A recipient is named by client id or address; the devices it stands for.*)
Name == Client \cup Address
Resolve(n) == {c \in Client : HasDevice(c) /\ (c = n \/ device[c] = n)}

(* approve_enrollment and add_allowlist: a new allowlist row, or a row     *)
(* replaced.  The device row, if any, stays.                               *)
Approve(c) ==
  /\ access' = [access EXCEPT ![c] = "approved"]
  /\ UNCHANGED <<device, dropping>>

(* register: the enrollment is used up and the device row written. *)
Register(c, x) ==
  /\ access[c] = "approved"
  /\ access' = [access EXCEPT ![c] = "used"]
  /\ device' = [device EXCEPT ![c] = x]
  /\ UNCHANGED dropping

(* allowlist-revoke: the status first ...                                  *)
Revoke(c) ==
  /\ access[c] # "none"
  /\ access' = [access EXCEPT ![c] = "revoked"]
  /\ dropping' = dropping \cup {c}
  /\ UNCHANGED device

(* ... then the device row. *)
DropDevice(c) ==
  /\ c \in dropping
  /\ device' = [device EXCEPT ![c] = NoDevice]
  /\ dropping' = dropping \ {c}
  /\ UNCHANGED access

AccessNext == \E c \in Client : \/ Approve(c) \/ Revoke(c) \/ DropDevice(c)
                                \/ \E x \in Address : Register(c, x)

AccessSpec == AccessInit /\ [][AccessNext]_accessVars
=============================================================================
