--------------------------- MODULE RegisterRepairs ---------------------------
(***************************************************************************)
(* MachineRegister with workers that die: which machines they leave half   *)
(* configured, and what registering the host again does about it.  The     *)
(* history is the observer's; no action of MachineRegister depends on it.  *)
(***************************************************************************)
EXTENDS MachineRegister

VARIABLES
    shared,   \* the workers that another one has run beside since they began
    deserted, \* the systems a worker has left half done and none has finished since
    bereft    \* the systems whose boot interface may have lost links for good

histVars == <<shared, deserted, bereft>>

\* Worker n dies at its machine, or ends without having marked it broken; worker n
\* gets to the end of linkSubnetInterface.
Dies(n)     == wpc[n] \notin {"off", "lookup", "create", "failed", "done"} /\ wpc'[n] = "off"
Conceals(n) == wpc[n] = "broken" /\ wpc'[n] = "done" /\ status'[work[n].sys] # "Broken"
Finishes(n) == wpc[n] = "loop" /\ wpc'[n] = "done"

\* Worker n is past its poll at s.  The boot interface of s is at risk if such a worker
\* deserts it or if there are two; its links are as MAAS gave them when MAAS commissions
\* the machine anew with no such worker there.
AtLinks(n, s) == wpc[n] \in Linking /\ work[n].sys = s
AtRisk(s) ==
    \/ \E n \in Name : AtLinks(n, s) /\ (Dies(n) \/ Conceals(n))
    \/ \E m, n \in Name : m # n /\ AtLinks(m, s)' /\ AtLinks(n, s)'
Renewed(s) ==
    /\ status[s] = "Commissioning" /\ status'[s] = "Testing"
    /\ \A n \in Name : ~AtLinks(n, s)'

Observe ==
    /\ shared' = {n \in Name : /\ wpc'[n] # "off"
                               /\ n \in shared \/ \E m \in Name \ {n} : wpc'[m] # "off"}
    /\ deserted' = (deserted \ {work[n].sys : n \in {m \in Name \ shared : Finishes(m)}})
                   \cup {work[n].sys : n \in {m \in Name : Dies(m) \/ Conceals(m)}}
    /\ bereft' = {s \in Request : AtRisk(s) \/ (s \in bereft /\ ~Renewed(s))}

ObservedSpec ==
    /\ MInit /\ shared = {} /\ deserted = {} /\ bereft = {}
    /\ [][MNext /\ Observe]_<<allVars, histVars>>

-----------------------------------------------------------------------------
\* Worker n is at machine s, past the lookup of MachineRegister; its job is labelled with
\* another system, an incarnation of the host that is gone.
IsAt(n, s)  == wpc[n] \notin {"off", "lookup", "create", "failed", "done"} /\ work[n].sys = s
Strayed(s)  == \E n \in Name : IsAt(n, s) /\ n[1] # s

\* A machine whose ready_status is Ready is configured: whichever workers commission
\* it and link its interfaces from snapshots of their own, one is counted as active
\* until the links and names the request asks for are there.  The exceptions are a
\* machine that a worker has deserted, until a later one gets through, and one that a
\* worker has taken to whose job was registered before the machine was deleted.
ReadyIsConfigured ==
    \A s \in Request :
        Exists(s) /\ ReadyStatus(s) = "Ready" => Configured(s) \/ s \in deserted \/ Strayed(s)

\* Whatever workers have left that died between two calls or could not mark the
\* machine broken: the worker of the next MachineRegister that has the machine to
\* itself leaves it with the links and names that the request asks for when it gets to
\* the end of linkSubnetInterface, and the boot interface with the links it found there.
\* Links that the boot interface had lost by then stay lost.
LoneWorkerRepairs ==
    [][\A n \in Name \ shared :
           Finishes(n) /\ Exists(work[n].sys) =>
               /\ Configured(work[n].sys)
               /\ work[n].boot \subseteq links[work[n].sys][Boot]]_<<allVars, histVars>>

\* The links MAAS gave the boot interface survive the flow, which disconnects it and links
\* it anew: a machine whose ready_status is Ready has them, also after calls that failed
\* half-way and registrations that raced for commissioning.  They may be lost where the
\* target of one worker is read from what another has disconnected, because it died there
\* or works there at the same time, until the machine is commissioned anew.
BootLinksKept ==
    \A s \in Request :
        Exists(s) /\ ReadyStatus(s) = "Ready" =>
            AutoLinks[Boot] \subseteq links[s][Boot] \/ s \in bereft \/ Strayed(s)

\* The flow of a registration, with its workers, handlers and MAAS, keeps the life of a
\* host as clients see it: one incarnation at a time, Failed never becomes Ready without
\* being Processing, Ready only when it is configured, and as long as it is Ready nothing
\* about it changes.
Shown(s)  == IF Exists(s) THEN ReadyStatus(s) ELSE status[s]
Lifecycle == INSTANCE HostLifecycle WITH
    System     <- Request,
    shown      <- [s \in Request |-> Shown(s)],
    configured <- {s \in Request : Exists(s) /\ Configured(s)},
    deserted   <- {s \in Request : Exists(s) /\ s \in deserted},
    strayed    <- {s \in Request : Exists(s) /\ Strayed(s)}
ImplementsLifecycle == Lifecycle!LifecycleSpec
=============================================================================
