------------------------------ MODULE Networks -------------------------------
(***************************************************************************)
(* The networks that are never checked: how the configuration's entries    *)
(* become prefixes (config.ParseLocalNetworks) and when an address is in   *)
(* one (Handler.IsLocalIP).  An address is a family and a number, of few   *)
(* bits here; an IPv4 address has a second spelling in IPv6, and an IPv6   *)
(* address may carry a zone (fe80::1%eth0).                                *)
(***************************************************************************)
EXTENDS Integers, Sequences, SequencesExt

CONSTANTS
  Width4,  \* bits of an IPv4 address
  Width6   \* bits of an IPv6 address

ASSUME NetworksAssumption == Width4 \in Nat \ {0} /\ Width6 \in Nat /\ Width6 > Width4

(* A fact of arithmetic that the provers do not know.                      *)
ASSUME PowersArePositive == \A n \in 0..Width6 : 2^n > 0

Width(family) == IF family = 4 THEN Width4 ELSE Width6
Address(family, value) == [family |-> family, value |-> value, zone |-> FALSE]
Zoned(value) == [Address(6, value) EXCEPT !.zone = TRUE]

(* The block ::ffff:0:0/96 of IPv6 spells IPv4 addresses; here it is the   *)
(* last one of its size.                                                   *)
Mapped == 2^Width6 - 2^Width4
InMapped(addr) == addr.family = 6 /\ addr.value >= Mapped

(* Addr.Unmap: the IPv4 address that is meant, without its zone.           *)
Unmap(addr) == IF InMapped(addr) THEN Address(4, addr.value - Mapped) ELSE addr

(* The spellings of an address, whatever its zone.                         *)
Spellings(addr) ==
  {Address(addr.family, addr.value)} \cup
    (IF addr.family = 4 THEN {Address(6, Mapped + addr.value)}
     ELSE IF InMapped(addr) THEN {Unmap(addr)} ELSE {})

(* An entry is blank, malformed, one address (bits -1), whose zone         *)
(* PrefixFrom drops, or a CIDR prefix, which cannot have one.              *)
Entry(family, value, bits) ==
  [text |-> "network", family |-> family, value |-> value, bits |-> bits]
Blank == [text |-> "blank"]
Malformed == [text |-> "malformed"]

Block(prefix) == 2^(Width(prefix.family) - prefix.bits)

Masked(entry) ==
  LET bits == IF entry.bits < 0 THEN Width(entry.family) ELSE entry.bits
      whole == [family |-> entry.family, value |-> entry.value, bits |-> bits]
  IN  [whole EXCEPT !.value = @ - (@ % Block(whole))]

ParseLocalNetworks(entries) ==
  IF Malformed \in ToSet(entries) THEN [ok |-> FALSE, prefixes |-> {}]
  ELSE [ok |-> TRUE, prefixes |-> {Masked(e) : e \in ToSet(entries) \ {Blank}}]

(* Prefix.Contains: no prefix contains an address with a zone, and none of *)
(* IPv6 an IPv4 address.                                                   *)
PrefixContains(prefix, addr) ==
  /\ ~addr.zone /\ prefix.family = addr.family
  /\ addr.value \div Block(prefix) = prefix.value \div Block(prefix)

(* Mutant of IsLocalIP: the address is taken as it is spelt.               *)
IsLocalAsSpelt(prefixes, addr) == \E p \in prefixes : PrefixContains(p, addr)

IsLocalIP(prefixes, addr) == \E p \in prefixes : PrefixContains(p, Unmap(addr))

(* What the administrator means: the addresses from the first of the       *)
(* entry's block to the last, in whatever spelling and zone a client has.  *)
Lists(entry, addr) ==
  /\ entry \notin {Blank, Malformed}
  /\ \E s \in Spellings(addr) :
       /\ s.family = entry.family
       /\ LET p == Masked(entry) IN s.value \in p.value..(p.value + Block(p) - 1)

(* The two ways in which an entry misses an address that it lists: the     *)
(* address has a zone, or it is of IPv4 and the entry of IPv6 (addresses   *)
(* are unmapped, entries are not).                                         *)
Misses(entry, addr) ==
  LET a == Unmap(addr) IN a.zone \/ (entry.family = 6 /\ a.family = 4)
=============================================================================
