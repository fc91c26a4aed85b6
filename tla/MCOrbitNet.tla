----------------------------- MODULE MCOrbitNet -----------------------------
(* OrbitNet for TLC: an access point, a client with a good and with a bad  *)
(* access point to fall back to, and configurations that are refused.      *)
EXTENDS OrbitNet

Conf(m, a, c, n) == [mode |-> m, ap |-> a, client |-> c, v |-> n]
MCConfs ==
    { Conf("ap", "good", "no ssid", 1), Conf("client", "good", "good", 2),
      Conf("client", "good", "wrong key", 3), Conf("ap", "bad channel", "good", 4),
      Conf("auto", "no ssid", "good", 6),
      Conf("client", "short password", "good", 7) }
\* Two that are both good, and that differ in a value.
MCTwoConfs == {Conf("ap", "good", "no ssid", 1), Conf("ap", "good", "no ssid", 2)}
=============================================================================
