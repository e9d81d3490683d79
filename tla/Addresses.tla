----------------------------- MODULE Addresses -----------------------------
(***************************************************************************)
(* Which of a peer's addresses a transport dials, and on which of ours it  *)
(* listens (src/transport.js).  An address is the sequence of the parts of *)
(* its text, cut fine enough that one address is the beginning of another  *)
(* exactly when its text is: the port 4001 is two parts next to port 40.   *)
(***************************************************************************)
EXTENDS Arrays, SequencesExt

CONSTANTS
  OurId,    \* the part /ipfs/<our id>
  PeerIds,  \* every part /ipfs/<id>
  Relays,   \* the parts that name a relay protocol
  Ours      \* switch._peerInfo.multiaddrs, a sequence of addresses

ASSUME AddressAssumption ==
  /\ OurId \in PeerIds
  /\ PeerIds \cap Relays = {}
  /\ Ours \in Seq(ToSet(Ours))
  /\ \A o \in ToSet(Ours) : o # <<>> /\ o \in Seq(ToSet(o))

Places(addr, parts) == {i \in DOMAIN addr : addr[i] \in parts}

(* Mutant: an address through a relay is judged by the relay in front. *)
DestinationOrRelay(addr) == addr

(* What is behind the last relay of an address, or all of it. *)
Destination(addr) ==
  LET relays == Places(addr, Relays)
  IN IF relays = {} THEN addr ELSE SubSeq(addr, Max(relays) + 1, Len(addr))

(* The same address without the peer id it ends in, or with ours. *)
OtherForm(addr) ==
  LET ids == Places(addr, PeerIds)
  IN IF ids = {} THEN Append(addr, OurId) ELSE SubSeq(addr, 1, Max(ids) - 1)

OurAddresses ==
  ({Ours[i] : i \in DOMAIN Ours} \cup {OtherForm(Ours[i]) : i \in DOMAIN Ours}
     \cup {<<OurId>>}) \ {<<>>}

(* The addresses the transport handles and that do not begin like ours. *)
Dialables(handled, addrs) ==
  Filter(addrs, {a \in handled : \A o \in OurAddresses : ~IsPrefix(o, Destination(a))})
=============================================================================
