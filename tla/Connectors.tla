----------------------------- MODULE Connectors ----------------------------
(***************************************************************************)
(* The controller keeps one listening process (a connector) per configured *)
(* protocol.  Every three seconds CheckProtocols makes a pass: stop the    *)
(* connectors that are not configured any more, see which of the stopped   *)
(* ones are gone and kill those that took too long, start what is missing, *)
(* write the list to the connectors page.  A rolling restart leaves the    *)
(* connectors running and finds them again through that page.              *)
(*                                                                         *)
(* A connector is told apart by its configuration, the string the maps are *)
(* ordered by (here a number); KeyOf is the address it binds, NoKey for    *)
(* one that binds none.  The passes, the API and the restarts are          *)
(* callbacks of one event loop: configurations change between passes.      *)
(***************************************************************************)
EXTENDS Naturals, FiniteSets, FiniteSetsExt

CONSTANTS
    Cmds,        \* configurations, numbers in the order of the strings
    KeyOf,       \* connectorBindKey of each
    NoKey,
    Configs,     \* what may be configured: sets of Cmds with different keys
    Procs,       \* connector processes; reused when gone
    None,
    MaxRemoved,  \* running connectors a change of the configuration may take away
    AnyCrash,    \* the controller may be killed when something is not on the page
    MaxChanges,  \* bound: changes of the configuration, restarts
    MaxFaults    \* bound: processes that are killed, that do not start

ASSUME ConnectorsAssumption ==
    /\ Cmds \subseteq Nat /\ IsFiniteSet(Cmds) /\ DOMAIN KeyOf = Cmds
    /\ \A S \in Configs : /\ S \subseteq Cmds
                          /\ \A c, d \in S : (c # d /\ KeyOf[c] = KeyOf[d]) => KeyOf[c] = NoKey
    /\ MaxRemoved \in Nat /\ MaxChanges \in Nat /\ MaxFaults \in Nat /\ AnyCrash \in BOOLEAN

VARIABLES
    config,      \* the configured connectors
    cpc,         \* where the controller is: idle, in a pass, exiting, down
    conns,       \* runningConns of the pass
    todo,        \* what the loop of the pass has yet to visit
    acted,       \* action of the pass
    cur,         \* currentConnectors: configuration -> process or None
    stopping,    \* stoppingConnectors: no, or for less or more than the grace period
    plist,       \* the processes the controller manages, which it takes along
    page,        \* SHM_CONNECTORS: configuration -> process or None
    st,          \* process -> none, boot (not bound yet) or listen
    cmdOf,       \* process -> its configuration
    told,        \* the processes that were sent a SIGTERM or SIGINT
    ending,      \* the exit is a shutdown, not a rolling restart
    changes, faults

passVars == <<cpc, conns, todo, acted>>
ctrlVars == <<cur, stopping, plist>>
procVars == <<st, cmdOf, told>>
vars == <<config, passVars, ctrlVars, page, procVars, ending, changes, faults>>

Alive(p) == p # None /\ st[p] # "none"
Current == {c \in Cmds : cur[c] # None}
Stopping == {p \in Procs : stopping[p] # "no"}
\* The processes of D end, and are reaped
Ends(D) == /\ st' = [p \in Procs |-> IF p \in D THEN "none" ELSE st[p]]
           /\ told' = told \ D /\ plist' = plist \ D
NoConns == [c \in Cmds |-> None]
NotStopping == [p \in Procs |-> "no"]

Init ==
    /\ config \in Configs
    /\ cpc = "idle" /\ conns = {} /\ todo = {} /\ acted = FALSE
    /\ cur = NoConns /\ stopping = NotStopping /\ plist = {} /\ page = NoConns
    /\ st = [p \in Procs |-> "none"] /\ cmdOf = [p \in Procs |-> None] /\ told = {}
    /\ ending = FALSE /\ changes = 0 /\ faults = 0

----------------------------------------------------------------------------
(* The pass: CheckProtocols                                                 *)

BeginPass ==
    /\ cpc = "idle"
    /\ cpc' = "delete" /\ conns' = config /\ todo' = Current /\ acted' = FALSE
    /\ UNCHANGED <<config, ctrlVars, page, procVars, ending, changes, faults>>

\* Still configured
Keep ==
    /\ cpc = "delete" /\ todo # {} /\ Min(todo) \in conns
    /\ todo' = todo \ {Min(todo)}
    /\ UNCHANGED <<config, cpc, conns, acted, ctrlVars, page, procVars, ending, changes, faults>>

\* erase, it = begin(), it++: the loop starts anew with the second one
AfterErase(S) == IF S = {} THEN {} ELSE S \ {Min(S)}

\* "shut down deleted/changed connectors"
StopConnector ==
    /\ cpc = "delete" /\ todo # {} /\ Min(todo) \notin conns
    /\ LET c == Min(todo)
           p == cur[c]
       IN  /\ cur' = [cur EXCEPT ![c] = None]
           /\ todo' = AfterErase(Current \ {c})
           /\ IF Alive(p)
              THEN told' = told \union {p} /\ stopping' = [stopping EXCEPT ![p] = "young"] /\ acted' = TRUE
              ELSE UNCHANGED <<told, stopping, acted>>
    /\ UNCHANGED <<config, cpc, conns, plist, page, st, cmdOf, ending, changes, faults>>

\* Mutant: connectors past their grace period are forgotten, not killed
HandoverForgets ==
    /\ cpc = "delete" /\ todo = {}
    /\ stopping' = [p \in Procs |-> IF Alive(p) /\ stopping[p] # "old" THEN stopping[p] ELSE "no"]
    /\ cpc' = "start" /\ todo' = conns
    /\ UNCHANGED <<config, conns, acted, cur, plist, page, procVars, ending, changes, faults>>

\* Mutant: they are left to themselves
HandoverWaits ==
    /\ cpc = "delete" /\ todo = {}
    /\ stopping' = [p \in Procs |-> IF Alive(p) THEN stopping[p] ELSE "no"]
    /\ cpc' = "start" /\ todo' = conns
    /\ UNCHANGED <<config, conns, acted, cur, plist, page, procVars, ending, changes, faults>>

\* "Forget stopped connectors that exited; kill those past their grace period"
\* (up to 500 ms after its stop a connector is waited for)
Handover ==
    /\ cpc = "delete" /\ todo = {}
    /\ stopping' = [p \in Procs |-> IF Alive(p) THEN stopping[p] ELSE "no"]
    /\ Ends({p \in Procs : stopping[p] = "old"})
    /\ cpc' = "start" /\ todo' = conns
    /\ UNCHANGED <<config, conns, acted, cur, page, cmdOf, ending, changes, faults>>

\* Mutant: a replacement does not wait for the one it replaces
BindFree(c) == FALSE

\* A stopped connector that is not gone yet has the address
BindHeld(c) == KeyOf[c] # NoKey /\ \E p \in Stopping : KeyOf[cmdOf[p]] = KeyOf[c]

\* The next one runs, or has to wait; or it does not start
Skip ==
    /\ cpc = "start" /\ todo # {}
    /\ LET c == Min(todo)
       IN  \/ (Alive(cur[c]) \/ BindHeld(c)) /\ UNCHANGED faults
           \/ /\ ~Alive(cur[c]) /\ ~BindHeld(c)
              /\ faults < MaxFaults /\ faults' = faults + 1
    /\ todo' = todo \ {Min(todo)}
    /\ UNCHANGED <<config, cpc, conns, acted, ctrlVars, page, procVars, ending, changes>>

\* A process that is gone and can stand for a new one; a map may name the old
Unused == {p \in Procs : st[p] = "none" /\ p \notin Stopping}
NextProc == IF Unused = {} THEN {} ELSE {CHOOSE p \in Unused : TRUE}
Forget(f, p) == [c \in Cmds |-> IF f[c] = p THEN None ELSE f[c]]

StartConnector ==
    /\ cpc = "start" /\ todo # {}
    /\ LET c == Min(todo)
       IN  /\ ~Alive(cur[c]) /\ ~BindHeld(c)
           /\ \E p \in NextProc :
                 /\ cur' = [Forget(cur, p) EXCEPT ![c] = p]
                 /\ page' = Forget(page, p)
                 /\ plist' = plist \union {p}
                 /\ st' = [st EXCEPT ![p] = "boot"]
                 /\ cmdOf' = [cmdOf EXCEPT ![p] = c]
           /\ todo' = todo \ {c} /\ acted' = TRUE
    /\ UNCHANGED <<config, cpc, conns, stopping, told, ending, changes, faults>>

\* saveActiveConnectors, when anything was done
EndPass ==
    /\ cpc = "start" /\ todo = {}
    /\ page' = IF acted THEN cur ELSE page
    /\ cpc' = "idle" /\ acted' = FALSE
    /\ UNCHANGED <<config, conns, todo, ctrlVars, procVars, ending, changes, faults>>

\* CONNECTOR_STOP_GRACE_MS pass
Age(p) ==
    /\ stopping[p] = "young"
    /\ stopping' = [stopping EXCEPT ![p] = "old"]
    /\ UNCHANGED <<config, passVars, cur, plist, page, procVars, ending, changes, faults>>

----------------------------------------------------------------------------
(* The processes                                                            *)

OthersListen(p) == \E q \in Procs : /\ q # p /\ st[q] = "listen"
                                    /\ KeyOf[cmdOf[q]] = KeyOf[cmdOf[p]] /\ KeyOf[cmdOf[p]] # NoKey

\* setupServerSocket: bound, or "Failed to open listening socket" and exit
Bind(p) ==
    /\ st[p] = "boot"
    /\ IF OthersListen(p) THEN Ends({p})
                          ELSE st' = [st EXCEPT ![p] = "listen"] /\ UNCHANGED <<told, plist>>
    /\ UNCHANGED <<config, passVars, cur, stopping, page, cmdOf, ending, changes, faults>>

\* A connector does as told, sooner or later or never (it may be about to start
\* itself anew for a SIGUSR1, and not see the SIGTERM)
Exit(p) ==
    /\ Alive(p) /\ p \in told
    /\ Ends({p})
    /\ UNCHANGED <<config, passVars, cur, stopping, page, cmdOf, ending, changes, faults>>

\* A connector crashes
Die(p) ==
    /\ Alive(p) /\ p \notin told
    /\ faults < MaxFaults /\ faults' = faults + 1
    /\ Ends({p})
    /\ UNCHANGED <<config, passVars, cur, stopping, page, cmdOf, ending, changes>>

----------------------------------------------------------------------------
(* The controller's life                                                    *)

\* The API changes the configuration, between passes
Configure ==
    /\ cpc = "idle"
    /\ changes < MaxChanges /\ changes' = changes + 1
    /\ config' \in Configs \ {config}
    /\ Cardinality(Current \ config') <= MaxRemoved
    /\ UNCHANGED <<passVars, ctrlVars, page, procVars, ending, faults>>

\* prepareActiveConnectorsForReload: save them and forget them; StopAll and
\* exit_handler then stop the processes that are left, those it had stopped
Reload ==
    /\ cpc = "idle"
    /\ changes < MaxChanges /\ changes' = changes + 1
    /\ page' = cur /\ cur' = NoConns
    /\ plist' = plist \ {cur[c] : c \in Cmds}
    /\ told' = told \union plist'
    /\ cpc' = "exit" /\ ending' = FALSE
    /\ UNCHANGED <<config, conns, todo, acted, stopping, st, cmdOf, faults>>

\* Mutant: the controller forgets its connectors before a shutdown, too
ShutdownForgets ==
    /\ cpc = "idle"
    /\ changes < MaxChanges /\ changes' = changes + 1
    /\ page' = cur /\ cur' = NoConns
    /\ plist' = plist \ {cur[c] : c \in Cmds}
    /\ told' = told \union plist'
    /\ cpc' = "exit" /\ ending' = TRUE
    /\ UNCHANGED <<config, conns, todo, acted, stopping, st, cmdOf, faults>>

\* prepareActiveConnectorsForShutdown: the page goes, all of them are stopped
Shutdown ==
    /\ cpc = "idle"
    /\ changes < MaxChanges /\ changes' = changes + 1
    /\ page' = NoConns
    /\ told' = told \union plist
    /\ cpc' = "exit" /\ ending' = TRUE
    /\ UNCHANGED <<config, conns, todo, acted, ctrlVars, st, cmdOf, faults>>

\* Nothing is left of a controller process; the next one may start
Gone(pc) == /\ cpc' = pc
            /\ cur' = NoConns /\ stopping' = NotStopping
            /\ conns' = {} /\ todo' = {} /\ acted' = FALSE

\* exit_handler: all managed processes ended, at the latest by the SIGKILL after
\* kill_timeout
ExitDone ==
    /\ cpc = "exit"
    /\ Ends(plist)
    /\ Gone(IF ending THEN "ended" ELSE "down")
    /\ UNCHANGED <<config, page, cmdOf, ending, changes, faults>>

\* The page lists the connectors that run, and no other runs
OnPage == \A p \in Procs : Alive(p) <=> \E c \in Cmds : page[c] = p

\* The controller is killed
Crash ==
    /\ cpc \notin {"down", "ended"} /\ ~ending
    /\ AnyCrash \/ OnPage
    /\ faults < MaxFaults /\ faults' = faults + 1
    /\ Gone("down") /\ plist' = {}
    /\ UNCHANGED <<config, page, procVars, ending, changes>>

\* Mutant: the connectors on the page are not read
LoadNothing ==
    /\ cpc \in {"down", "ended"}
    /\ cpc' = "idle" /\ ending' = FALSE
    /\ UNCHANGED <<config, conns, todo, acted, ctrlVars, page, procVars, changes, faults>>

\* Mutant: a record without a configuration is taken for a connector
LoadEmpty ==
    /\ cpc \in {"down", "ended"}
    /\ cpc' = "idle" /\ ending' = FALSE
    /\ cur' = page
    /\ plist' = {page[c] : c \in Cmds}
    /\ UNCHANGED <<config, conns, todo, acted, stopping, page, procVars, changes, faults>>

\* The controller starts: loadActiveConnectors
Load ==
    /\ cpc \in {"down", "ended"}
    /\ cpc' = "idle" /\ ending' = FALSE
    /\ cur' = page
    /\ plist' = {page[c] : c \in Cmds} \ {None}
    /\ UNCHANGED <<config, conns, todo, acted, stopping, page, procVars, changes, faults>>

----------------------------------------------------------------------------

Pass == \/ BeginPass \/ Keep \/ StopConnector \/ Handover \/ Skip \/ StartConnector \/ EndPass
Restarts == ExitDone \/ (cpc = "down" /\ Load)

Next == \/ Pass \/ Configure \/ Reload \/ Shutdown \/ ExitDone \/ Crash \/ Load
        \/ \E p \in Procs : Age(p) \/ Bind(p) \/ Exit(p) \/ Die(p)

Spec == Init /\ [][Next]_vars

\* Passes come every three seconds, an exit ends and the angel starts the next
\* controller, time passes, a connector binds or fails to.  Nothing makes a
\* connector end when it is told to.
FairSpec == /\ Spec
            /\ WF_vars(Pass) /\ WF_vars(Restarts)
            /\ \A p \in Procs : WF_vars(Age(p)) /\ WF_vars(Bind(p))

----------------------------------------------------------------------------
(* Properties                                                               *)

\* Every variable has its type; what the controller manages are processes.
TypeOK ==
    /\ config \in Configs
    /\ cpc \in {"idle", "delete", "start", "exit", "down", "ended"}
    /\ conns \in Configs \union {{}} /\ todo \subseteq Cmds /\ acted \in BOOLEAN
    /\ cur \in [Cmds -> Procs \union {None}] /\ page \in [Cmds -> Procs \union {None}]
    /\ stopping \in [Procs -> {"no", "young", "old"}] /\ plist \subseteq Procs
    /\ st \in [Procs -> {"none", "boot", "listen"}]
    /\ cmdOf \in [Procs -> Cmds \union {None}] /\ told \subseteq Procs
    /\ ending \in BOOLEAN /\ changes \in 0 .. MaxChanges /\ faults \in 0 .. MaxFaults

\* "Two configurations with the same key cannot run at the same time": none is
\* started while one that listens at its address is still there.
OneListener ==
    \A p, q \in Procs :
        p # q /\ Alive(p) /\ Alive(q) => \/ KeyOf[cmdOf[p]] # KeyOf[cmdOf[q]]
                                         \/ KeyOf[cmdOf[p]] = NoKey

\* A controller that runs knows every connector that runs, to stop it some day;
\* between two controllers the page names it, or the old one waits for it.
Known ==
    \A p \in Procs : Alive(p) =>
        IF cpc \in {"exit", "down", "ended"}
        THEN p \in plist \/ \E c \in Cmds : page[c] = p
        ELSE (\E c \in Cmds : cur[c] = p) \/ p \in Stopping

\* A shutdown leaves no connector behind, whichever controller started it.
NoneLeft == cpc = "ended" => \A p \in Procs : ~Alive(p)

\* What is configured listens at last, though connectors and controllers were
\* killed and the connector it replaces did not end when it was told to.
Served ==
    []<>(\/ cpc = "ended"
         \/ \A c \in config : \E p \in Procs : st[p] = "listen" /\ cmdOf[p] = c)

----------------------------------------------------------------------------
(* The inductive invariants: KInv for Known and NoneLeft, OInv for          *)
(* OneListener when the configuration changes one connector at a time       *)

Running == cpc \in {"idle", "delete", "start"}
Listed(p) == \E c \in Cmds : page[c] = p

\* Who lists the connectors that run: the controller in two ways, later the page
Managed ==
    /\ Running => \A p \in Procs : Alive(p) => p \in plist /\ (p \in Stopping \/ \E c \in Cmds : cur[c] = p)
    /\ cpc = "exit" => \A p \in Procs : Alive(p) => p \in plist \/ (~ending /\ Listed(p))
    /\ cpc \in {"down", "ended"} => plist = {} /\ \A p \in Procs : Alive(p) => cpc = "down" /\ Listed(p)

KInv == TypeOK /\ Managed

\* A connector is listed under its configuration
Named == \A c \in Cmds : /\ Alive(cur[c]) => cmdOf[cur[c]] = c
                         /\ Alive(page[c]) => cmdOf[page[c]] = c

\* How far a pass is: what is not configured is still to be visited, later it is gone
Visits ==
    /\ cpc \in {"delete", "start"} => conns = config
    /\ cpc = "delete" => Current \ config \subseteq todo /\ todo \subseteq Current
    /\ cpc = "start" => Current \subseteq config /\ todo \subseteq config

\* The page differs from the list only in a pass that did something
Saved == (cpc = "idle" \/ (cpc \in {"delete", "start"} /\ ~acted)) =>
             \A c \in Cmds : Alive(page[c]) => cur[c] = page[c]

\* One connector at most is to be stopped, here and after a restart
OneToStop ==
    /\ cpc \in {"idle", "delete"} => \A c, d \in Current \ config : c = d
    /\ \A c, d \in Cmds \ config :
           (IF Running THEN Alive(page[c]) /\ Alive(page[d]) ELSE page[c] # None /\ page[d] # None) => c = d

OInv == KInv /\ Named /\ Visits /\ Saved /\ OneToStop /\ OneListener
=============================================================================
