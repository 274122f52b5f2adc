----------------------------- MODULE Navigation -----------------------------
(***************************************************************************)
(* The router of the console (web/static/js/router.js) with the entry      *)
(* point it has in the application (showRoute, commitCluster and screen of *)
(* web/static/js/app.js): the address bar, the navigations that wait for   *)
(* one another, the screen, and what the browser remembers.                *)
(*                                                                         *)
(* A navigation waits in two places: for the list of hosts, when its host  *)
(* is not in the list the page has ("hosts"), and for the first status of  *)
(* the cluster it changes to ("load", behind the veil).  Everything else   *)
(* of apply runs in one turn of the event loop.  In both places people go  *)
(* on: they follow links, go back, type, and press the tabs of the section *)
(* on the screen (the veil lets them once SAFETY_MS has passed).           *)
(***************************************************************************)
EXTENDS Routes, FiniteSets

CONSTANTS
  Addresses,    \* addresses that are followed or typed
  Clusters,     \* Harvester clusters
  KvmHosts,     \* KVM hosts
  Pressed,      \* tabs of a section that are pressed
  Movable,      \* hosts that are removed, declared, or whose rights change
  MaxQueue,     \* bound: navigations that wait
  MaxEvents     \* bound: hashchange events that wait

(* The names of hosts obey the rule of the addresses (HOST_NAME_RE): the   *)
(* server declares no other.                                               *)
ASSUME HostsAssumption == \A h \in Clusters \cup KvmHosts : ValidHost(h)

VARIABLES
  bar,       \* the address bar
  events,    \* hashchange events the browser has yet to deliver
  queue,     \* navigations that wait (queue)
  jobs,      \* navigations that are being applied (applying)
  screen,    \* the screen shown
  panes,     \* the tab of each section that localStorage remembers
  saved,     \* the last cluster shown, that localStorage remembers
  current,   \* the route the menus follow (current)
  known,     \* clusters of the list of the page (clusterList)
  answered,  \* has /api/clusters answered (clustersFetch)?
  there,     \* clusters and KVM hosts the server lets this session see
  asked,     \* ghost: the last address put in the queue, or its replacement
  drift      \* ghost: why the bar may not be the address of the screen

vars == <<bar, events, queue, jobs, screen, panes, saved, current, known, answered, there, asked,
          drift>>

DefaultHash == <<"vms">>
Blank == Target(None)

(* DEF of sections.js: the tab a section opens on when none is remembered  *)
FirstPanes ==
  [storage |-> "volumes", network |-> "vmnets", addons |-> "list", security |-> "secrets",
   monlog |-> "metrics", vmimport |-> "imports", forklift |-> "prep", advanced |-> "settings"]

FirstOf(S) == CHOOSE x \in S : TRUE

(* toHosts and fallback: where a navigation that cannot be followed goes   *)
(* Mutant: the index is shown under the address of the default screen.     *)
UnderDefault == [route |-> Bare("hosts"), to |-> DefaultHash, rewrite |-> FALSE]
HostsIndex == [route |-> Bare("hosts"), to |-> <<"hosts">>, rewrite |-> FALSE]
DefaultScreen == [route |-> Bare("vms"), to |-> DefaultHash, rewrite |-> FALSE]
Refused == {Bare("hosts"), Bare("vms")}

(* pick, and defaultCluster: the last cluster, or the first that is seen   *)
LastCluster ==
  LET last == IF screen.cluster # None THEN screen.cluster ELSE saved
  IN IF last \in known \/ known = {} THEN last ELSE FirstOf(known)

(* apply: what an address asks for, before its host is looked up           *)
Reading(addr) ==
  LET r == Parse(addr)
  IN IF r # Unknown THEN [route |-> r, to |-> addr, rewrite |-> FALSE]
     ELSE IF ~IsLegacy(addr) THEN DefaultScreen
     ELSE IF NeedsHost(addr) /\ known = {} THEN HostsIndex
     ELSE [route |-> FromLegacy(addr, LastCluster),
           to |-> addr, rewrite |-> TRUE]

(* hostVisible: the KVM hosts are read again each time, the clusters are   *)
(* the ones of the last answer of /api/clusters.                           *)
Visible(host) == host \in (there \cap KvmHosts) \cup known

(* Mutant: a cluster that is not in the list is waited for.                *)
OnceListed(host) == host \in KvmHosts \/ host \in known
CanJudge(host) == host \in KvmHosts \/ answered

-----------------------------------------------------------------------------
Init ==
  /\ there \in {Clusters \cup KvmHosts, Clusters}
  /\ known = Clusters /\ answered = FALSE
  /\ bar \in Addresses \cup {<<>>}
  /\ queue = <<bar>> /\ asked = bar
  /\ events = 0 /\ jobs = {} /\ screen = Blank /\ panes = FirstPanes /\ saved \in Clusters \cup {None}
  /\ current = Unknown /\ drift = None

(* showRoute, then the end of apply and of the run of enqueue unless the   *)
(* cluster changes: then the navigation waits for its status.              *)
Shown(t) ==
  LET cluster == IF screen.cluster # None THEN screen.cluster
                 ELSE IF known # {} THEN LastCluster ELSE None
  IN Screen(t, [cluster |-> cluster, panes |-> panes, filter |-> NoFilter])

Show(job, o, later) ==
  \E t \in {Resolve(o.route)} : \E shown \in {Shown(t)} :
    LET waits == shown.cluster # screen.cluster /\ screen.cluster # None
        final == IF o.rewrite THEN ScreenHash(shown) ELSE o.to
        written == job.addr = <<>> \/ o.to # job.addr \/ o.rewrite
    IN /\ screen' = shown
       /\ saved' = IF shown.cluster # None THEN shown.cluster ELSE saved
       /\ panes' = IF t.pane # None THEN [panes EXCEPT ![t.tab] = t.pane] ELSE panes
       /\ jobs' = (jobs \ {job}) \cup
                  IF waits THEN {[addr |-> job.addr, at |-> "load", reading |-> o]} ELSE {}
       /\ current' = IF waits THEN current ELSE IF o.rewrite THEN Parse(final) ELSE o.route
       /\ IF written /\ ~(waits /\ o.rewrite)
          THEN bar' = final /\ drift' = IF later # <<>> THEN "overtaken" ELSE drift
          ELSE UNCHANGED <<bar, drift>>

(* enqueue: the next navigation starts when the one before it has ended.   *)
(* Mutant: it does not wait.                                               *)
Unqueued == TRUE
MayBegin == jobs = {}

Begin ==
  /\ MayBegin /\ queue # <<>>
  /\ queue' = Tail(queue)
  /\ \E addr \in {Head(queue)} : \E o \in {Reading(IF addr = <<>> THEN DefaultHash ELSE addr)} :
       LET host == o.route.host IN
        IF host = None \/ host \in known
        THEN Show([addr |-> addr, at |-> "hosts", reading |-> o], o, Tail(queue))
        ELSE /\ jobs' = jobs \cup {[addr |-> addr, at |-> "hosts", reading |-> o]}
             /\ UNCHANGED <<bar, screen, panes, saved, current, drift>>
  /\ UNCHANGED <<events, known, answered, there, asked>>

HostsRead ==
  \E job \in {j \in jobs : j.at = "hosts"} :
    LET host == job.reading.route.host
    IN /\ CanJudge(host)
       /\ Show(job, IF Visible(host) THEN job.reading ELSE HostsIndex, queue)
       /\ UNCHANGED <<events, queue, known, answered, there, asked>>

(* The status of the new cluster has come, or has failed, and the veil is  *)
(* down: the end of apply and of the run of enqueue.                       *)
LoadDone ==
  \E job \in {j \in jobs : j.at = "load"} :
    LET h == ScreenHash(screen) IN
    /\ jobs' = jobs \ {job}
    /\ IF job.reading.rewrite
       THEN /\ bar' = h /\ current' = Parse(h)
            /\ drift' = IF queue # <<>> THEN "overtaken" ELSE drift
       ELSE current' = job.reading.route /\ UNCHANGED <<bar, drift>>
    /\ UNCHANGED <<events, queue, screen, panes, saved, known, answered, there, asked>>

-----------------------------------------------------------------------------
(* A navigation that may begin does so before the turn of the event loop   *)
(* ends: people and events come after.                                     *)
TurnOver == jobs = {} => queue = <<>>

(* A link, Back, Forward or a typed address: the browser changes the bar   *)
(* now and says so later.                                                  *)
Visit(addr) ==
  /\ TurnOver
  /\ addr # bar /\ events < MaxEvents
  /\ bar' = addr /\ events' = events + 1 /\ drift' = None
  /\ UNCHANGED <<queue, jobs, screen, panes, saved, current, known, answered, there, asked>>

HashChange ==
  /\ TurnOver
  /\ events > 0 /\ Len(queue) < MaxQueue
  /\ events' = events - 1
  /\ queue' = Append(queue, bar) /\ asked' = bar
  /\ UNCHANGED <<bar, jobs, screen, panes, saved, current, known, answered, there, drift>>

(* go: a button of the console opens a screen.                             *)
Go(addr) ==
  /\ TurnOver
  /\ Len(queue) < MaxQueue
  /\ bar' = addr /\ drift' = None
  /\ queue' = Append(queue, addr) /\ asked' = addr
  /\ UNCHANGED <<events, jobs, screen, panes, saved, current, known, answered, there>>

(* Sections.show, then syncFromScreen: a tab of the section is pressed.    *)
PressTab(p) ==
  /\ TurnOver
  /\ screen.tab \in SectionTabs /\ p \in SectionPanes(screen.tab)
  /\ panes' = [panes EXCEPT ![screen.tab] = p]
  /\ screen' = [screen EXCEPT !.pane = p]
  /\ IF jobs = {}
     THEN /\ bar' = ScreenHash(screen') /\ asked' = bar' /\ drift' = None
          /\ current' = IF bar' = bar THEN current ELSE Parse(bar')
     ELSE drift' = "ignored" /\ UNCHANGED <<bar, current, asked>>
  /\ UNCHANGED <<events, queue, jobs, saved, known, answered, there>>

(* F5: the page starts again from the address bar and from localStorage.   *)
Reload ==
  /\ jobs' = {} /\ events' = 0 /\ queue' = <<bar>> /\ asked' = bar
  /\ screen' = Blank /\ current' = Unknown /\ drift' = None
  /\ known' = there \cap Clusters /\ answered' = FALSE
  /\ UNCHANGED <<bar, panes, saved, there>>

ClustersAnswer ==
  /\ ~answered
  /\ known' = there \cap Clusters /\ answered' = TRUE
  /\ UNCHANGED <<bar, events, queue, jobs, screen, panes, saved, current, there, asked, drift>>

(* A host is removed or declared, or the rights of the person change.      *)
HostChange(h) ==
  /\ there' = IF h \in there THEN there \ {h} ELSE there \cup {h}
  /\ UNCHANGED <<bar, events, queue, jobs, screen, panes, saved, current, known, answered, asked, drift>>

Router == Begin \/ HostsRead \/ LoadDone \/ HashChange \/ ClustersAnswer
People ==
  \/ Reload
  \/ \E addr \in Addresses : Visit(addr) \/ Go(addr)
  \/ \E p \in Pressed : PressTab(p)
  \/ \E h \in Movable : HostChange(h)

Next == Router \/ People

Spec == Init /\ [][Next]_vars

(* The server answers and the browser delivers its events; people do as    *)
(* they like.                                                              *)
FairSpec == /\ Spec /\ WF_vars(Begin) /\ WF_vars(HostsRead) /\ WF_vars(LoadDone)
            /\ WF_vars(HashChange) /\ WF_vars(ClustersAnswer)

-----------------------------------------------------------------------------
Settled == jobs = {} /\ queue = <<>> /\ events = 0

(* What a reload shows for an address, host and pane as the browser has    *)
(* them now.                                                               *)
Reopened(addr) ==
  Screen(Resolve(Parse(addr)), [cluster |-> screen.cluster, panes |-> panes, filter |-> NoFilter])

(* The address is the one of the screen, so that F5 gives the exact screen *)
(* (syncFromScreen), unless a navigation rewrote it while a later one      *)
(* waited, or a tab was pressed during a navigation.                       *)
AddressIsScreen == Settled /\ drift = None => Reopened(bar) = screen

(* Two quick clicks do not mix their clusters (enqueue): once navigations  *)
(* have ended, tab, cluster and host are all of the last one asked, or of  *)
(* the index it was sent back to; the menus follow that same screen.       *)
Names(s) == <<s.tab, s.kvm>>
Agrees(r) ==
  LET t == Resolve(r)
  IN Names(t) = Names(screen) /\ (t.cluster # None => t.cluster = screen.cluster)
LastAskedShown ==
  Settled =>
    /\ Agrees(current)
    /\ current \in Refused \/ IF Parse(asked) # Unknown THEN Agrees(Parse(asked))
                              ELSE /\ IsLegacy(asked)
                                   /\ Names(Resolve(FromLegacy(asked, screen.cluster))) = Names(screen)

(* Every navigation ends: the queue never stays blocked behind one.        *)
NavigationsEnd == []<>(jobs = {})
=============================================================================
