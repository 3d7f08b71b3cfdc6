---------------------------- MODULE MCTrackerFeed ----------------------------
(***************************************************************************)
(* TrackerFeed with two sources that overlap and a static tracker; the cap *)
(* leaves room for two trackers, so the list depends on which sources      *)
(* answered.                                                               *)
(***************************************************************************)
EXTENDS TrackerFeed

A == Line("https", <<"a">>, FALSE, FALSE, 443, "/")
UpperA == Line("https", <<"a">>, TRUE, FALSE, 0, "/announce")
B == Line("udp", <<"b">>, FALSE, FALSE, 6969, "")
S == Line("https", <<"s">>, FALSE, FALSE, 0, "/announce")

Source == [enabled |-> TRUE, schemes |-> {}, take |-> All]

MCConfig ==
    [schemes |-> {"https", "udp"}, max |-> 2, reject_ip_hosts |-> FALSE,
     add |-> <<S>>, block |-> <<>>, reannounce_active |-> TRUE,
     sources |-> <<Source, Source>>]

MCListings == <<{<<A>>}, {<<UpperA, B>>}>>

CONSTANTS hup, api

MCCaller == (hup :> "sighup") @@ (api :> "api")
=============================================================================
