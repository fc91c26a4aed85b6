---------------------------- MODULE MCSupervisor ----------------------------
(* Supervisor for TLC: an appliance's settings, one of each kind that      *)
(* changes what happens, and an environment that overrides them.           *)
EXTENDS Supervisor

Panel == "/data/orbit/config/orbit-rs.env"
Live == "/data/orbit/config/orbit.env"
Net == Line("ORBIT_MODE", "goggles-net")
Aoa == Line("ORBIT_MODE", "aoa")
Empty == [k \in {} |-> ""]

MCFiles ==
    { Panel :> <<Line(NoKey, ""), Net, Aoa>>,
      Panel :> <<Aoa, Net>>,
      Panel :> <<Net>> @@ Live :> <<Line("ORBIT_RENDERER", "none"), Net>>,
      Panel :> <<Line("GOGGLES_NET_IFACE", "usb0"), Net>>,
      Panel :> <<Line("ORBIT_MODE", "auto"), Line("ORBIT_RENDERER", "kms")>> }

MCEnvironments == {Empty, "ORBIT_MODE" :> "aoa"}
=============================================================================
