------------------------------- MODULE Service -------------------------------
(***************************************************************************)
(* What internal/app promises about the proxy as a whole, without its      *)
(* goroutines, mutexes and deployments: a configuration is in force or     *)
(* none is, some loopback ports are open, and the service stops once.      *)
(*                                                                         *)
(*   - a configuration comes into force only behind an open port of its    *)
(*     own (or behind the port already in use);                            *)
(*   - nothing comes into force, and no port is opened, once it stops;     *)
(*   - it has stopped only when every port is closed.                      *)
(***************************************************************************)
CONSTANTS Config, Port, PortOf, None

VARIABLES
  active,  \* the configuration in force, or None
  open,    \* the open ports
  phase    \* "up", "stopping", "stopped"

vars == <<active, open, phase>>

Init == active = None /\ open = {} /\ phase = "up"

\* A port is bound ahead of the configuration that needs it.
Prepare(p) ==
  /\ phase = "up" /\ p \notin open
  /\ open' = open \cup {p}
  /\ UNCHANGED <<active, phase>>

\* Configuration c replaces whatever was in force.
Replace(c) ==
  /\ phase = "up"
  /\ \/ PortOf[c] \in open
     \/ active # None /\ PortOf[active] = PortOf[c]
  /\ active' = c
  /\ UNCHANGED <<open, phase>>

\* A port is closed: retired, failed, or stopping.
Close(p) ==
  /\ p \in open
  /\ open' = open \ {p}
  /\ UNCHANGED <<active, phase>>

\* The port of the configuration in force was lost, and that is noticed.
Lose ==
  /\ phase = "up"
  /\ active # None /\ PortOf[active] \notin open
  /\ active' = None
  /\ UNCHANGED <<open, phase>>

Stop ==
  /\ phase = "up"
  /\ active' = None /\ phase' = "stopping"
  /\ UNCHANGED open

Stopped ==
  /\ phase = "stopping" /\ open = {}
  /\ phase' = "stopped"
  /\ UNCHANGED <<active, open>>

Next ==
  \/ \E p \in Port : Prepare(p) \/ Close(p)
  \/ \E c \in Config : Replace(c)
  \/ Lose \/ Stop \/ Stopped

Spec == Init /\ [][Next]_vars

=============================================================================
