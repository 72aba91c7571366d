------------------------------ MODULE MCDaemon ------------------------------
(* Instances of Daemon for TLC.  The cafe has the office's gateway address,  *)
(* the annex its SSID; only the office itself is a direct network.           *)
EXTENDS Daemon

Office  == [Dev |-> "wlan0", SSID |-> "corp", Gateway |-> "gw1", Address |-> "a1"]
Cafe    == [Dev |-> "wlan0", SSID |-> "cafe", Gateway |-> "gw1", Address |-> "a2"]
Annex   == [Dev |-> "wlan0", SSID |-> "corp", Gateway |-> "gw2", Address |-> "a3"]
Desk    == [Dev |-> "eth0", SSID |-> "", Gateway |-> "gw3", Address |-> "a4"]
Offline == [Dev |-> "", SSID |-> "", Gateway |-> "", Address |-> ""]

BySSIDAndGateway == [Name |-> "office", SSID |-> "corp", Gateway |-> "gw1", Subnet |-> {}]
BySubnet         == [Name |-> "lan", SSID |-> "", Gateway |-> "", Subnet |-> {"a1", "a4"}]
NoCriteria       == [Name |-> "none", SSID |-> "", Gateway |-> "", Subnet |-> {}]

MCRoutes   == {"work", "lab"}
MCKeep     == {"lab"}
MCProfiles == [r \in MCRoutes |-> IF r = "work" THEN <<NoCriteria, BySSIDAndGateway>>
                                                ELSE <<BySubnet, BySSIDAndGateway>>]

FewNetworks  == {Office, Cafe, Desk, Offline}
\* Fails SnapshotOfOneNetwork.
WifiNetworks == {Cafe, Annex}
=============================================================================
