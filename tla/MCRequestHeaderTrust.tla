------------------------ MODULE MCRequestHeaderTrust ------------------------
(***************************************************************************)
(* Two CAs and a ConfigMap that is good, rotated with a pinned name,       *)
(* garbled in its CA and emptied of username headers, malformed in its     *)
(* lists alone, or deleted.                                                *)
(***************************************************************************)
EXTENDS RequestHeaderTrust

Lists(names, users) == [valid |-> TRUE, names |-> names, users |-> users]
ConfigMap(bundle, lists) == [present |-> TRUE, ca |-> bundle, headers |-> lists]

MCOpen == ConfigMap("caA", Lists({}, {UserHeader}))
MCPinned == ConfigMap("caB", Lists({"aggregator"}, {UserHeader}))
MCHalfBad == ConfigMap("garbage", Lists({}, {}))
MCMalformedLists == ConfigMap("caB", NoLists)
MCAbsent == [present |-> FALSE, ca |-> "", headers |-> NoLists]

MCConfigMaps == {MCOpen, MCPinned, MCHalfBad, MCMalformedLists, MCAbsent}

MCCerts ==
    { [ca |-> "caA", cn |-> "aggregator"], [ca |-> "caB", cn |-> "aggregator"],
      [ca |-> "caB", cn |-> "other"] }
=============================================================================
