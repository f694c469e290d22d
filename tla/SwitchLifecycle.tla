-------------------------- MODULE SwitchLifecycle --------------------------
(***************************************************************************)
(* What the Network controller promises about logical switches, without    *)
(* API server, informer, work queue or retries: a Network claims its name  *)
(* before a switch of that name is built and releases it only when the     *)
(* switch is gone, or is on record as lost; a switch is built once, is     *)
(* connected to the router only while it exists, and is disconnected       *)
(* before it is removed.  NetworkController implements it, as the only one *)
(* to call createOvnLS for these names.                                    *)
(***************************************************************************)
CONSTANTS Keys, Names, Configs, None

VARIABLES
  owners,   \* per name: the Networks whose finalizer holds it
  switch,   \* per name: the configuration of its switch, or None
  links,    \* names whose switch the router has a port to
  lost      \* names whose switch was given up by its last owner

vars == <<owners, switch, links, lost>>

Init ==
  /\ owners = [n \in Names |-> {}]
  /\ switch = [n \in Names |-> None]
  /\ links = {} /\ lost = {}

Claim(n, k) ==
  /\ owners' = [owners EXCEPT ![n] = @ \cup {k}]
  /\ UNCHANGED <<switch, links, lost>>

Build(n, c) ==
  /\ owners[n] # {} /\ switch[n] = None
  /\ switch' = [switch EXCEPT ![n] = c]
  /\ UNCHANGED <<owners, links, lost>>

Connect(n) ==
  /\ switch[n] # None
  /\ links' = links \cup {n}
  /\ UNCHANGED <<owners, switch, lost>>

Disconnect(n) ==
  /\ links' = links \ {n}
  /\ UNCHANGED <<owners, switch, lost>>

Remove(n) ==
  /\ n \notin links
  /\ switch' = [switch EXCEPT ![n] = None]
  /\ lost' = lost \ {n}
  /\ UNCHANGED <<owners, links>>

Release(n, k) ==
  /\ owners' = [owners EXCEPT ![n] = @ \ {k}]
  /\ lost' \in {lost, lost \cup {n}}
  /\ switch[n] # None /\ owners'[n] = {} => n \in lost'
  /\ UNCHANGED <<switch, links>>

Next ==
  \E n \in Names :
    \/ \E k \in Keys : Claim(n, k) \/ Release(n, k)
    \/ \E c \in Configs : Build(n, c)
    \/ Connect(n) \/ Disconnect(n) \/ Remove(n)

Spec == Init /\ [][Next]_vars
=============================================================================
