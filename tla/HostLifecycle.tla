--------------------------- MODULE HostLifecycle ---------------------------
(***************************************************************************)
(* What MachineRegister and MachineShow promise of a host: the ready       *)
(* status that clients see, and what it says of the host's interfaces.     *)
(*                                                                         *)
(* Nothing is promised of a host that a worker has deserted, before it is  *)
(* repaired, or while a worker strays there whose job is another host's.   *)
(***************************************************************************)
CONSTANT System  \* the system IDs, each for one incarnation of the host

VARIABLES
    shown,       \* shown[s]: the ready status of s, or that it is not there
    configured,  \* the systems whose interfaces are as the request asks
    deserted,    \* the systems a worker has left half done
    strayed      \* the systems at which a worker of another system's job is

lifeVars == <<shown, configured, deserted, strayed>>

There(s)    == shown[s] \notin {"unborn", "deleted"}
Promised(s) == s \notin deserted \cup strayed

Init ==
    /\ shown = [s \in System |-> "unborn"]
    /\ configured = {} /\ deserted = {} /\ strayed = {}

\* A deserted system is left as such only once its interfaces are configured.
Repaired(s) == s \in deserted \ deserted' => s \in configured'

\* The host appears, once at a time and with its interfaces to be configured.
Appear(s) ==
    /\ \A t \in System : ~There(t)
    /\ shown[s] = "unborn" /\ shown'[s] = "Processing"
    /\ s \notin configured'

\* It is commissioned and linked, which may fail and be tried again.
Work(s) ==
    /\ shown[s] \in {"Processing", "Failed"}
    /\ shown'[s] \in {"Processing", "Failed"}
    /\ Repaired(s)

\* It is ready once it is configured.
Complete(s) ==
    /\ shown[s] = "Processing" /\ shown'[s] = "Ready"
    /\ s \in configured' \/ ~Promised(s)'
    /\ Repaired(s)

\* A host that is ready stays as it is until a new job is counted.
Keep(s) ==
    /\ shown[s] = "Ready" /\ shown'[s] \in {"Ready", "Processing"}
    /\ s \in configured' <=> s \in configured
    /\ s \in deserted' <=> s \in deserted

\* A worker of another job may do anything there but make it ready again.
Stray(s) ==
    /\ s \in strayed
    /\ shown[s] = "Ready" /\ There(s)'
    /\ Repaired(s)

Delete(s) == There(s) /\ shown'[s] = "deleted"

Absent(s) == ~There(s) /\ shown'[s] = shown[s]

Next ==
    \A s \in System :
        \/ Appear(s) \/ Work(s) \/ Complete(s) \/ Keep(s) \/ Stray(s)
        \/ Delete(s) \/ Absent(s)

LifecycleSpec == Init /\ [][Next]_lifeVars
=============================================================================
