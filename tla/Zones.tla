-------------------------------- MODULE Zones --------------------------------
(***************************************************************************)
(* DNS zones and records (src/backend/samadcon/ad/dns.py, dnsrecords.py).  *)
(*                                                                         *)
(* The records of a name are one attribute of the name's node and are      *)
(* read, changed and written back as a whole; the zone's serial is in the  *)
(* SOA record of the node "@", and every change advances it first.  Each   *)
(* request is a step, and other sessions' requests arrive in between.      *)
(***************************************************************************)
EXTENDS FiniteSets, Sequences, SequencesExt, Naturals, Collections

CONSTANTS
  ZAdmin,      \* sessions
  Zone,        \* zone objects
  SystemZone,  \* zones Samba maintains itself
  Node,        \* names in a zone other than "@"
  Datum,       \* what a record can say, in its normal form
  Spelling,    \* how a request can say it, each with its normal form
  Zoned,       \* zones at the start: zone -> node -> records
  ZAsked,      \* requests
  ZFailing,    \* {"call"} if a request to the DC may fail, else {}
  MaxSerial,   \* the largest serial: 2^32 - 1 in the code
  MaxZoneOps   \* bound: operations begun

Apex == "@"
Nodes == Node \cup {Apex}
(* One value of dnsRecord: an SOA, a record of an editable type (A stands   *)
(* for them), or one that cannot be decoded.                               *)
Record ==
  [type : {"SOA"}, data : {"soa"}, serial : 0..MaxSerial]
    \cup [type : {"A", "NS"}, data : Datum, serial : 0..MaxSerial]
    \cup [type : {"unreadable"}, data : {"raw"}, serial : {0}]

(* The code's validation settles on one spelling, both for what it writes  *)
(* and for what it compares with.                                          *)
Normal(data) == Spelling[data]
Matches(r, type, data) == r.type = type /\ r.data = Normal(data)

ZRequest ==
  [do : {"create", "update", "delete", "create zone", "delete zone"},
   zone : Zone, node : Nodes, old : DOMAIN Spelling, data : DOMAIN Spelling]

ASSUME ZoneConstants ==
  /\ \A d \in DOMAIN Spelling : Spelling[d] \in Datum /\ Spelling[Spelling[d]] = Spelling[d]
  /\ ZAsked \subseteq ZRequest /\ SystemZone \subseteq Zone
  /\ MaxSerial \in Nat \ {0} /\ MaxZoneOps \in Nat

(* The zones as they are found: no name without a record.                  *)
ASSUME ZonedSound ==
  \A z \in DOMAIN Zoned :
    /\ z \in Zone /\ DOMAIN Zoned[z] \subseteq Nodes
    /\ \A n \in DOMAIN Zoned[z] : Zoned[z][n] \in Seq(Record) /\ Zoned[z][n] # <<>>

VARIABLES
  zones,    \* zone -> node -> records, for the zones and nodes that exist
  dnsWork,  \* per session, its operation
  dnsOps    \* operations begun, against the bound

zoneVars == <<zones, dnsWork, dnsOps>>
DnsIdle(why) == [do |-> "none", todo |-> <<>>, result |-> why]

ZonesInit ==
  /\ zones = Zoned
  /\ dnsWork = [a \in ZAdmin |-> DnsIdle("ok")]
  /\ dnsOps = 0

(***************************************************************************)
(* Records                                                                 *)
(***************************************************************************)
Exists(z, n) == z \in DOMAIN zones /\ n \in DOMAIN zones[z]
Records(z, n) == IF Exists(z, n) THEN zones[z][n] ELSE <<>>
FirstSoa(records) == SelectInSeq(records, LAMBDA r : r.type = "SOA")
FirstMatch(records, type, data) == SelectInSeq(records, LAMBDA r : Matches(r, type, data))

SerialIn(zs, z) ==
  IF z \notin DOMAIN zs \/ Apex \notin DOMAIN zs[z] THEN 0
  ELSE LET i == FirstSoa(zs[z][Apex]) IN IF i = 0 THEN 0 ELSE zs[z][Apex][i].serial

BumpedSoaPast(records) ==
  [i \in DOMAIN records |-> IF i = FirstSoa(records) THEN [records[i] EXCEPT !.serial = @ + 1] ELSE records[i]]

(* The first SOA with its serial one higher.  The field has 32 bits: past  *)
(* the largest the library refuses the number, and the record is kept as   *)
(* it is, taken for one that is no SOA.                                    *)
BumpedSoa(records) ==
  LET i == FirstSoa(records)
  IN IF i = 0 \/ records[i].serial = MaxSerial THEN records
     ELSE [records EXCEPT ![i].serial = @ + 1]
\* The serial a change is stamped with: 1 when there was none to advance.
Stamp(records) ==
  LET i == FirstSoa(records)
  IN IF i = 0 \/ records[i].serial = MaxSerial THEN 1 ELSE records[i].serial + 1

NewRecord(op) == [type |-> "A", data |-> Normal(op.data), serial |-> op.serial]

EditedReadable(op, records) ==
  LET read == SelectSeq(records, LAMBDA r : r.type # "unreadable")
      i == FirstMatch(read, "A", op.old)
  IN IF op.do = "create" THEN Append(read, NewRecord(op))
     ELSE IF op.do = "update" THEN [read EXCEPT ![i] = NewRecord(op)]
     ELSE RemoveAt(read, i)

(* What the operation makes of the records it read: the first that matches *)
(* is replaced or taken out, the rest stays, unreadable values too.        *)
Edited(op, records) ==
  LET i == FirstMatch(records, "A", op.old)
  IN IF op.do = "create" THEN Append(records, NewRecord(op))
     ELSE IF op.do = "update" THEN [records EXCEPT ![i] = NewRecord(op)]
     ELSE RemoveAt(records, i)

RefusesRecord(op, n) ==
  LET records == Records(op.zone, n)
  IN IF op.do = "create" THEN FirstMatch(records, "A", op.data) # 0
     ELSE FirstMatch(records, "A", op.old) = 0

(***************************************************************************)
(* Steps                                                                   *)
(***************************************************************************)
StepsUnread(r) ==
  IF r.do = "create zone" THEN <<"free", "zone", "apex">>
  ELSE IF r.do = "delete zone" THEN <<"drop">> ELSE <<"check", "bump", "advance", "write">>

Steps(r) ==
  IF r.do = "create zone" THEN <<"free", "zone", "apex">>
  ELSE IF r.do = "delete zone" THEN <<"drop">> ELSE <<"check", "bump", "advance", "reread", "write">>

DnsBusy(a) == dnsWork[a].todo # <<>>
DnsBegin(a) ==
  /\ ~DnsBusy(a) /\ dnsOps < MaxZoneOps
  /\ \E r \in ZAsked :
       dnsWork' = [dnsWork EXCEPT ![a] = Extended(r,
         [todo |-> Steps(r), result |-> "none", first |-> <<>>, node1 |-> FALSE, soa |-> <<>>,
          there |-> FALSE, records |-> <<>>, serial |-> 1, advanced |-> FALSE,
          nth |-> dnsOps + 1, alone |-> \A b \in ZAdmin \ {a} : ~DnsBusy(b), found |-> SerialIn(zones, r.zone)])]
  /\ dnsOps' = dnsOps + 1
  /\ UNCHANGED zones

DnsAt(a, step) == DnsBusy(a) /\ Head(dnsWork[a].todo) = step
DnsGoes(a, op) ==
  dnsWork' = [dnsWork EXCEPT ![a] =
    IF Len(op.todo) > 1 THEN [op EXCEPT !.todo = Tail(@)] ELSE DnsIdle("ok")]
DnsEnds(a, why) == dnsWork' = [dnsWork EXCEPT ![a] = DnsIdle(why)]
StaysAs(z, n, records) == zones' = [zones EXCEPT ![z] = Extended([m \in {n} |-> records], @)]

(* Read first: what is refused here has not moved the zone's serial.       *)
Check(a) ==
  LET op == dnsWork[a]  records == Records(op.zone, op.node) IN
  /\ DnsAt(a, "check")
  /\ IF RefusesRecord(op, op.node) THEN DnsEnds(a, "refused")
     ELSE DnsGoes(a, [op EXCEPT !.records = records, !.first = records,
                                !.there = Exists(op.zone, op.node)])
  /\ UNCHANGED <<zones, dnsOps>>

Bump(a) ==
  LET op == dnsWork[a] IN
  /\ DnsAt(a, "bump")
  /\ DnsGoes(a, [op EXCEPT !.soa = Records(op.zone, Apex), !.node1 = Exists(op.zone, Apex)])
  /\ UNCHANGED <<zones, dnsOps>>

Advance(a) ==
  LET op == dnsWork[a]  soa == BumpedSoa(op.soa) IN
  /\ DnsAt(a, "advance")
  /\ IF ~op.node1 \/ soa = op.soa THEN DnsGoes(a, op) /\ UNCHANGED zones
     ELSE IF ~Exists(op.zone, Apex) THEN DnsEnds(a, "failed") /\ UNCHANGED zones
     ELSE /\ StaysAs(op.zone, Apex, soa)
          /\ DnsGoes(a, [op EXCEPT !.serial = Stamp(op.soa), !.advanced = TRUE])
  /\ UNCHANGED dnsOps

(* Re-read: a record on the zone's own name shares its node with the SOA.  *)
Reread(a) ==
  LET op == dnsWork[a]  records == Records(op.zone, op.node) IN
  /\ DnsAt(a, "reread")
  /\ IF op.do # "create" /\ FirstMatch(records, "A", op.old) = 0 THEN DnsEnds(a, "refused")
     ELSE DnsGoes(a, [op EXCEPT !.records = records, !.there = Exists(op.zone, op.node)])
  /\ UNCHANGED <<zones, dnsOps>>

NodeStays(op) == FALSE

\* A node goes with its last record.
NodeGoes(op) == op.do = "delete" /\ Len(op.records) = 1

ZWrite(a) ==
  LET op == dnsWork[a] IN
  /\ DnsAt(a, "write")
  /\ IF op.zone \notin DOMAIN zones \/ op.there # Exists(op.zone, op.node)
     THEN DnsEnds(a, "failed") /\ UNCHANGED zones
     ELSE /\ DnsGoes(a, op)
          /\ IF NodeGoes(op)
             THEN zones' = [zones EXCEPT ![op.zone] = [n \in DOMAIN @ \ {op.node} |-> @[n]]]
             ELSE StaysAs(op.zone, op.node, Edited(op, op.records))
  /\ UNCHANGED dnsOps

FreeZone(a) ==
  /\ DnsAt(a, "free")
  /\ IF dnsWork[a].zone \in DOMAIN zones THEN DnsEnds(a, "refused") ELSE DnsGoes(a, dnsWork[a])
  /\ UNCHANGED <<zones, dnsOps>>

AddZone(a) ==
  LET op == dnsWork[a] IN
  /\ DnsAt(a, "zone")
  /\ IF op.zone \in DOMAIN zones THEN DnsEnds(a, "failed") /\ UNCHANGED zones
     ELSE zones' = Extended([z \in {op.zone} |-> [n \in {} |-> <<>>]], zones) /\ DnsGoes(a, [op EXCEPT !.advanced = TRUE])
  /\ UNCHANGED dnsOps

NewApex(op) == <<[type |-> "SOA", data |-> "soa", serial |-> 1],
                 [type |-> "NS", data |-> Normal(op.data), serial |-> 1]>>
AddApex(a) ==
  LET op == dnsWork[a] IN
  /\ DnsAt(a, "apex")
  /\ IF op.zone \notin DOMAIN zones \/ Exists(op.zone, Apex)
     THEN DnsEnds(a, "failed") /\ UNCHANGED zones
     ELSE StaysAs(op.zone, Apex, NewApex(op)) /\ DnsGoes(a, op)
  /\ UNCHANGED dnsOps

DropZone(a) ==
  LET op == dnsWork[a] IN
  /\ DnsAt(a, "drop")
  /\ IF op.zone \in SystemZone \/ op.zone \notin DOMAIN zones
     THEN DnsEnds(a, "refused") /\ UNCHANGED zones
     ELSE zones' = [z \in DOMAIN zones \ {op.zone} |-> zones[z]] /\ DnsGoes(a, op)
  /\ UNCHANGED dnsOps

ZLost(a) ==
  /\ "call" \in ZFailing /\ DnsBusy(a)
  /\ DnsEnds(a, "failed")
  /\ UNCHANGED <<zones, dnsOps>>

ZoneStep(a) ==
  \/ DnsBegin(a) \/ Check(a) \/ Bump(a) \/ Advance(a) \/ Reread(a) \/ ZWrite(a)
  \/ FreeZone(a) \/ AddZone(a) \/ AddApex(a) \/ DropZone(a) \/ ZLost(a)

ZonesNext == \E a \in ZAdmin : ZoneStep(a)
ZonesSpec == ZonesInit /\ [][ZonesNext]_zoneVars

(***************************************************************************)
(* Properties                                                              *)
(***************************************************************************)
(* No name is left without a record: it would be served as a name that     *)
(* exists and has no data (delete_record).                                 *)
NoEmptyName == \A z \in DOMAIN zones : \A n \in DOMAIN zones[z] : zones[z][n] # <<>>

ZonesTypeOK ==
  /\ \A z \in DOMAIN zones : z \in Zone /\ DOMAIN zones[z] \subseteq Nodes
  /\ NoEmptyName
  /\ \A z \in DOMAIN zones : \A n \in DOMAIN zones[z] :
       \A i \in DOMAIN zones[z][n] : zones[z][n][i] \in Record
  /\ \A a \in ZAdmin : dnsWork[a].result \in {"none", "ok", "refused", "failed"}
  /\ dnsOps \in 0..MaxZoneOps

ZDoes(a, step) == DnsAt(a, step) /\ dnsWork'[a] # dnsWork[a]
\* No other session has been at work since the operation began.
Undisturbed(a) == dnsWork[a].alone /\ dnsOps = dnsWork[a].nth

(* A change no other session crosses leaves the zone's serial one above    *)
(* the one it found, also when it writes the zone's own name, where the    *)
(* serial shares a node with the record (the second read of create,        *)
(* update and delete_record); one that is refused leaves it alone ("Read   *)
(* first: a rejected duplicate must not have moved the zone's serial").    *)
Moved ==
  \A a \in ZAdmin :
    LET op == dnsWork[a]
        ended == dnsWork'[a].result
        has == op.zone \in DOMAIN zones /\ op.found \in 1..(MaxSerial - 1)
    IN DnsBusy(a) /\ dnsWork'[a].todo = <<>> /\ op.do \in {"create", "update", "delete"} /\ has /\ Undisturbed(a) =>
         /\ ended = "ok" => SerialIn(zones', op.zone) = op.found + 1
         /\ ended = "refused" => SerialIn(zones', op.zone) = op.found

(* A record write changes one record of the name and keeps every other     *)
(* value it read, undecodable ones too; the record it takes away is the    *)
(* one the request described, however the request spelled it.              *)
OneRecord ==
  \A a \in ZAdmin :
    LET op == dnsWork[a]
        new == IF op.node \in DOMAIN zones'[op.zone] THEN zones'[op.zone][op.node] ELSE <<>>
        gone == {i \in DOMAIN op.records : op.records[i] \notin ToSet(new)}
    IN ZDoes(a, "write") /\ zones' # zones =>
         /\ \A i \in gone : op.do # "create" /\ op.records[i].data = Spelling[op.old]
         /\ Cardinality(gone) <= 1
         /\ Len(new) = Len(op.records) + (IF op.do = "create" THEN 1 ELSE IF op.do = "delete" THEN -1 ELSE 0)
         /\ op.do # "delete" => \E i \in DOMAIN new : new[i].data = Spelling[op.data] /\ new[i].serial = op.serial

(* A change of a zone is one record and one serial.                        *)
RecordsChanged == [][OneRecord /\ Moved]_zoneVars

(* "Every change to a zone has to advance it": two changes at work in one  *)
(* zone are not stamped with the same serial (advance_zone_serial).        *)
SerialsDiffer ==
  \A a, b \in ZAdmin :
    LET op == dnsWork[a]  other == dnsWork[b] IN
    a # b /\ DnsBusy(a) /\ DnsBusy(b) /\ op.zone = other.zone /\ op.advanced /\ other.advanced
      => op.serial # other.serial

(* A zone that exists when nobody is creating it has the SOA and NS        *)
(* records it needs to be answerable (create_zone).                        *)
Answerable ==
  \A z \in DOMAIN zones :
    \/ \E a \in ZAdmin : DnsBusy(a) /\ dnsWork[a].do = "create zone" /\ dnsWork[a].zone = z
    \/ Exists(z, Apex) /\ FirstSoa(zones[z][Apex]) # 0
==============================================================================
