---------------------------- MODULE ApiMessages -----------------------------
(***************************************************************************)
(* The messages of the zone and record services as the frontend's stubs,   *)
(* frontend/gen/zone/v1/zone_pb.ts and dns_record/v1/dns_record_pb.ts,     *)
(* declare them, and the table of each service's methods.                  *)
(*                                                                         *)
(* Ids and names are values told apart and nothing more.  A row is its id  *)
(* and its zone's name: what else it holds (type, content, TTL, activity,  *)
(* times) is a matter of the moment it was read.  Only an update's content *)
(* matters by itself, and only for the row whose dialog it comes from, so  *)
(* that a content is the id of that row.                                   *)
(***************************************************************************)
CONSTANTS
    Ids,    \* ids of zones and records
    Names,  \* zone names
    None    \* an optional field that is not set

\* A message without fields.
Empty == {<<>>}

\* What a message that wraps an optional row holds.
Optional(Row) == Row \cup {None}

Contents == Ids

-----------------------------------------------------------------------------
\* zone.v1

Zone == [id : Ids, zoneName : Names]

CreateZoneRequest     == [zoneName : Names]
CreateZoneResponse    == [zone : Optional(Zone)]
ListZonesRequest      == Empty
ListZonesResponse     == [zones : SUBSET Zone]
GetZoneRequest        == [id : Ids]
GetZoneResponse       == [zone : Optional(Zone)]
GetZoneByNameRequest  == [zoneName : Names]
GetZoneByNameResponse == [zone : Optional(Zone)]
DeleteZoneRequest     == [id : Ids]
DeleteZoneResponse    == Empty

ZoneService == [
    createZone    |-> [input |-> CreateZoneRequest, output |-> CreateZoneResponse],
    listZones     |-> [input |-> ListZonesRequest, output |-> ListZonesResponse],
    getZone       |-> [input |-> GetZoneRequest, output |-> GetZoneResponse],
    getZoneByName |-> [input |-> GetZoneByNameRequest, output |-> GetZoneByNameResponse],
    deleteZone    |-> [input |-> DeleteZoneRequest, output |-> DeleteZoneResponse]]

-----------------------------------------------------------------------------
\* dns_record.v1

DNSRecord == [id : Ids, zoneName : Names]

CreateDNSRecordRequest           == [zoneName : Names]
CreateDNSRecordResponse          == [record : Optional(DNSRecord)]
ListDNSRecordsRequest            == [zoneId : Ids]
ListDNSRecordsResponse           == [records : SUBSET DNSRecord]
ListDNSRecordsByZoneNameRequest  == [zoneName : Names]
ListDNSRecordsByZoneNameResponse == [records : SUBSET DNSRecord]
GetDNSRecordRequest              == [id : Ids]
GetDNSRecordResponse             == [record : Optional(DNSRecord)]
UpdateDNSRecordRequest           == [id : Ids, content : Contents]
UpdateDNSRecordResponse          == [record : Optional(DNSRecord)]
DeleteDNSRecordRequest           == [id : Ids]
DeleteDNSRecordResponse          == Empty

DNSRecordService == [
    createDNSRecord |->
        [input |-> CreateDNSRecordRequest, output |-> CreateDNSRecordResponse],
    listDNSRecords |->
        [input |-> ListDNSRecordsRequest, output |-> ListDNSRecordsResponse],
    listDNSRecordsByZoneName |->
        [input |-> ListDNSRecordsByZoneNameRequest,
         output |-> ListDNSRecordsByZoneNameResponse],
    getDNSRecord |->
        [input |-> GetDNSRecordRequest, output |-> GetDNSRecordResponse],
    updateDNSRecord |->
        [input |-> UpdateDNSRecordRequest, output |-> UpdateDNSRecordResponse],
    deleteDNSRecord |->
        [input |-> DeleteDNSRecordRequest, output |-> DeleteDNSRecordResponse]]
=============================================================================
