------------------------------ MODULE MCDcKeys ------------------------------
(* Instances of DcKeys for TLC. *)
EXTENDS DcKeys, TLC

CONSTANTS s1, s2

\* A regular session and a media session of one data centre.
RegularAndMedia == s1 :> "Regular" @@ s2 :> "MediaCluster"
\* Two regular sessions; two sessions of a CDN data centre.
TwoRegular == [s \in Sessions |-> "Regular"]
TwoCdn == [s \in Sessions |-> "Cdn"]
=============================================================================
