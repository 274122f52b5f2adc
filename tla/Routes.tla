------------------------------- MODULE Routes -------------------------------
(***************************************************************************)
(* The addresses of the console (web/static/js/routes.js) and the screens  *)
(* they name (resolve and screenHash of web/static/js/router.js): parse    *)
(* reads an address as a route, format writes a route, Resolve gives the   *)
(* screen of a route and ScreenHash the address of a screen.               *)
(*                                                                         *)
(* An address is the sequence of its segments, decoded.  A field a route   *)
(* or a screen does not have is None: the code uses null, and no segment   *)
(* that parse accepts is empty.  No segment is the name of a member that   *)
(* every object of JavaScript inherits ("constructor"), which the tables   *)
(* IMPORT_PANES and AUTOMATION_PANES of the code would find.               *)
(***************************************************************************)
EXTENDS Naturals, Sequences

CONSTANTS
  NotHosts,   \* segments that no rule for the name of a host accepts
  NotIds      \* segments that the rule for an identifier does not accept

None == ""

(* No rule accepts an empty name.                                          *)
ASSUME RulesAssumption == None \in NotHosts /\ None \in NotIds

Kinds == {"harvester", "kvm"}
KvmParams == {"system", "pools", "networks", "labels", "conn"}
HarvesterPanes ==
  [nodes    |-> {},
   storage  |-> {"volumes", "images", "classes"},
   network  |-> {"vmnets", "clusternets", "lbs", "pools", "hostnets", "overlay", "underlay"},
   addons   |-> {"list"},
   security |-> {"secrets", "sshkeys", "accounts"},
   monlog   |-> {"metrics", "alerts", "flows", "outputs"},
   advanced |-> {"settings", "pci", "usb", "sriov", "support"},
   upgrade  |-> {},
   power    |-> {"startup", "shutdown"},
   conn     |-> {}]
ImportPanes == [vmimport |-> {"imports", "vmware", "openstack", "ova"},
                forklift |-> {"prep", "sources", "inventory", "waves"}]
AutomationPanes ==
  [capi      |-> <<"clusters", "services", "registries", "artefacts", "history", "installation">>,
   terraform |-> <<"declarations", "resources", "history", "installation">>,
   pxe       |-> <<"machines", "profiles", "plans", "images", "history">>]

(* Mutant: two tabs of the KVM family exchanged                            *)
SwappedFleet == [capacity |-> "kvmhosts", pools |-> "kvmnetworks", networks |-> "kvmstorage"]

(* KVM_FLEET_TABS of routes.js and KVM_FLEET of router.js                  *)
KvmFleet == [capacity |-> "kvmhosts", pools |-> "kvmstorage", networks |-> "kvmnetworks"]
Roots == {"migrations", "gpus", "bookings", "usage"}

ValidHost(word) == word \notin NotHosts
ValidId(word)   == word \notin NotIds
Entries(s) == {s[i] : i \in DOMAIN s}
At(s, i) == IF i <= Len(s) THEN s[i] ELSE None

-----------------------------------------------------------------------------
(* Routes *)

Unknown == [name |-> "unknown"]
Route(name, kind, host, sub, tab, pane, id) ==
  [name |-> name, kind |-> kind, host |-> host, sub |-> sub, tab |-> tab, pane |-> pane, id |-> id]
Bare(name) == Route(name, None, None, None, None, None, None)
OfId(name, id) == Route(name, None, None, None, None, None, id)
OfHost(name, kind, host) == Route(name, kind, host, None, None, None, None)
OfTab(name, kind, tab, pane) == Route(name, kind, None, None, tab, pane, None)
UnderHost(kind, host, sub, tab, pane) == Route("host", kind, host, sub, tab, pane, None)
OrUnknown(ok, r) == IF ok THEN r ELSE Unknown

(* The rest of an address of a host: #harvester/<host>/..., #kvm/<host>/... *)
HostRoute(kind, host, rest) ==
  LET n == Len(rest)
      a == At(rest, 1)  b == At(rest, 2)  c == At(rest, 3)
      InTab(panes) == n <= 3 /\ b \in DOMAIN panes /\ (c # None => c \in panes[b])
      Tabbed == UnderHost(kind, host, a, b, c)
  IN CASE n = 0 -> OfHost("host", kind, host)
       [] n = 1 -> OrUnknown(a \in {"vms", "dr"} \/ (kind = "harvester" /\ a = "containers"),
                             UnderHost(kind, host, a, None, None))
       [] n \notin {0, 1} /\ kind = "kvm" -> OrUnknown(n = 2 /\ a = "params" /\ b \in KvmParams, Tabbed)
       [] OTHER -> OrUnknown(\/ rest = <<"overview", "events">>
                             \/ a = "imports" /\ InTab(ImportPanes)
                             \/ a = "params" /\ InTab(HarvesterPanes), Tabbed)

(* grammar: the segments of an address -> its route, or Unknown *)
Grammar(addr) ==
  LET head == At(addr, 1)
      rest == IF addr = <<>> THEN <<>> ELSE Tail(addr)
      n == Len(rest)
      a == At(rest, 1)  b == At(rest, 2)  c == At(rest, 3)
      Folder == OfId(head, b)
      InFolder == n = 2 /\ a = "folder" /\ ValidId(b)
  IN IF n = 0 THEN OrUnknown(head \in Roots \cup {"vms", "folders", "containers", "hosts", "dr",
                                                  "activity"}, Bare(head))
     ELSE CASE head = "vms" ->
                 IF a = "folder" THEN OrUnknown(InFolder, Folder)
                 ELSE OrUnknown(/\ a = "host" /\ b \in Kinds
                                /\ n = 2 \/ (n = 3 /\ ValidHost(c)),
                                OfHost(head, b, c))
            [] head = "folders" -> OrUnknown(n = 1 /\ ValidId(a), OfId(head, a))
            [] head = "containers" -> OrUnknown(InFolder, Folder)
            [] head = "hosts" ->
                 IF n = 1 THEN OrUnknown(a \in Kinds, OfHost(head, a, None))
                 ELSE IF n = 2 /\ a = "kvm" /\ b \in DOMAIN KvmFleet
                      THEN OfTab(head, a, b, None)
                      ELSE OrUnknown(InFolder, Folder)
            [] head \in Kinds -> IF ValidHost(a) THEN HostRoute(head, a, Tail(rest)) ELSE Unknown
            [] head = "dr" ->
                 IF n = 1 /\ a = "links" THEN OfTab(head, None, a, None)
                 ELSE OrUnknown(n = 1 /\ ValidId(a), OfId(head, a))
            [] head = "automation" ->
                 OrUnknown(/\ n <= 2 /\ a \in DOMAIN AutomationPanes
                           /\ b # None => b \in Entries(AutomationPanes[a]),
                           OfTab(head, None, a, b))
            [] head = "activity" ->
                 IF a = "host" THEN OrUnknown(n = 3 /\ b \in Kinds /\ ValidHost(c),
                                              OfHost(head, b, c))
                 ELSE OrUnknown(n = 2 /\ a = "action" /\ ValidId(b), OfId(head, b))
            [] OTHER -> Unknown

(* parse: no segment may be empty *)
Parse(addr) == IF None \in Entries(addr) THEN Unknown ELSE Grammar(addr)

(* format: a route -> its address.  Given(w) is a segment written when its *)
(* field is there.                                                         *)
Given(w) == IF w = None THEN <<>> ELSE <<w>>
Format(r) ==
  LET Folder == IF r.id # None THEN <<"folder", r.id>> ELSE <<>>
      Host == IF r.kind # None THEN <<"host", r.kind>> \o Given(r.host) ELSE <<>>
  IN CASE r.name = "host" ->
            <<r.kind, r.host>> \o Given(r.sub) \o Given(r.tab) \o Given(r.pane)
       [] r.name = "vms" -> <<"vms">> \o IF r.id # None THEN Folder ELSE Host
       [] r.name = "folders" -> <<"folders">> \o Given(r.id)
       [] r.name = "containers" -> <<"containers">> \o Folder
       [] r.name = "hosts" ->
            <<"hosts">> \o IF r.id # None THEN Folder
                           ELSE Given(r.kind) \o IF r.kind = "kvm" /\ r.tab \in DOMAIN KvmFleet
                                                 THEN <<r.tab>> ELSE <<>>
       [] r.name = "dr" -> <<"dr">> \o IF r.tab # None THEN <<r.tab>> ELSE Given(r.id)
       [] r.name = "automation" -> <<"automation", r.tab>> \o Given(r.pane)
       [] r.name = "activity" ->
            <<"activity">> \o IF r.kind # None /\ r.host # None THEN <<"host", r.kind, r.host>>
                              ELSE IF r.id # None THEN <<"action", r.id>> ELSE <<>>
       [] OTHER -> <<r.name>>

-----------------------------------------------------------------------------
(* The addresses of the menu of 1.x, understood for ever (LEGACY).  The    *)
(* ones that are addresses of the grammar as well are not repeated here.   *)

HarvesterLegacy ==
  [overview |-> <<>>, cluster |-> <<>>, namespaces |-> <<"vms">>, clusterdr |-> <<"dr">>,
   startup |-> <<"params", "power", "startup">>, shutdown |-> <<"params", "power", "shutdown">>,
   vmimport |-> <<"imports", "vmimport">>, vmio |-> <<"imports", "vmimport">>,
   forklift |-> <<"imports", "forklift">>,
   storage |-> <<"params", "storage">>, network |-> <<"params", "network">>,
   addons |-> <<"params", "addons">>, security |-> <<"params", "security">>,
   monlog |-> <<"params", "monlog">>, advanced |-> <<"params", "advanced">>]
FleetLegacy ==
  [t \in {"allvms", "allcontainers", "kvmhosts", "kvm-hosts", "kvmvms", "kvmstorage", "kvmnetworks",
          "forkliftglobal", "automation", "drplans", "drlinks"} |->
     CASE t = "allvms"         -> <<"vms">>
       [] t = "allcontainers"  -> <<"containers">>
       [] t \in {"kvmhosts", "kvm-hosts"} -> <<"hosts", "kvm">>
       [] t = "kvmvms"         -> <<"vms", "host", "kvm">>
       [] t = "kvmstorage"     -> <<"hosts", "kvm", "pools">>
       [] t = "kvmnetworks"    -> <<"hosts", "kvm", "networks">>
       [] t = "forkliftglobal" -> <<"migrations">>
       [] t = "automation"     -> <<"automation", "capi">>
       [] t = "drplans"        -> <<"dr">>
       [] t = "drlinks"        -> <<"dr", "links">>]

IsLegacy(addr) == Len(addr) = 1 /\ addr[1] \in DOMAIN HarvesterLegacy \cup DOMAIN FleetLegacy
NeedsHost(addr) == addr[1] \in DOMAIN HarvesterLegacy

(* fromLegacy, {L} being a visible cluster (pick) *)
FromLegacy(addr, cluster) ==
  Parse(IF NeedsHost(addr) THEN <<"harvester", cluster>> \o HarvesterLegacy[addr[1]]
                           ELSE FleetLegacy[addr[1]])

(* acceptable: what the page of login may put back in the address bar *)
Acceptable(addr) == Parse(addr) # Unknown \/ IsLegacy(addr)

-----------------------------------------------------------------------------
(* Screens *)

Scope(id, kind, host) == [id |-> id, kind |-> kind, host |-> host]
NoFilter == <<>>
Target(tab) ==
  [tab |-> tab, cluster |-> None, pane |-> None, overview |-> None, automation |-> None,
   kvm |-> None, kvmTab |-> None, hostsKind |-> None, activityHost |-> NoFilter,
   vms |-> Scope(None, None, None), folderId |-> None, drPlan |-> None, activityAction |-> None,
   autoTab |-> None]
HarvesterSections == DOMAIN HarvesterPanes \ {"nodes", "upgrade", "power", "conn"}
SectionTabs == HarvesterSections \cup DOMAIN ImportPanes
SectionPanes(tab) == IF tab \in DOMAIN ImportPanes THEN ImportPanes[tab] ELSE HarvesterPanes[tab]

OnKvm(tab, host, kvmTab) == [Target(tab) EXCEPT !.kvm = host, !.kvmTab = kvmTab]
KvmTarget(r) ==
  CASE r.sub = "vms" -> OnKvm("kvmvms", r.host, None)
    [] r.sub = "dr"  -> OnKvm("kvmdr", r.host, None)
    [] r.sub = "params" /\ r.tab = "pools"    -> OnKvm("kvmstorage", r.host, None)
    [] r.sub = "params" /\ r.tab = "networks" -> OnKvm("kvmnetworks", r.host, None)
    [] r.sub = "params" /\ r.tab \notin {"pools", "networks"} -> OnKvm("kvmparams", r.host, r.tab)
    [] OTHER -> OnKvm("kvmhosts", r.host, None)

OnCluster(tab, cluster, pane) == [Target(tab) EXCEPT !.cluster = cluster, !.pane = pane]
Overview(cluster, mode) == [Target("overview") EXCEPT !.cluster = cluster, !.overview = mode]
HarvesterTarget(r) ==
  LET Of(tab) == OnCluster(tab, r.host, None)
      Section == OnCluster(r.tab, r.host, r.pane)
  IN CASE r.sub = None         -> Overview(r.host, "metrics")
       [] r.sub = "overview"   -> Overview(r.host, "events")
       [] r.sub = "vms"        -> Of("namespaces")
       [] r.sub = "containers" -> Of("containers")
       [] r.sub = "dr"         -> Of("clusterdr")
       [] r.sub = "imports"    -> Section
       [] r.sub = "params" ->
            CASE r.tab = "nodes"   -> Overview(r.host, "cluster")
              [] r.tab = "power"   -> Of(IF r.pane = "shutdown" THEN "shutdown" ELSE "startup")
              [] r.tab = "upgrade" -> Of("hupgrade")
              [] r.tab = "conn"    -> Of("hconn")
              [] OTHER             -> Section

(* resolve: a route that parse gave -> its screen *)
Resolve(r) ==
  CASE r.name = "host" -> IF r.kind = "kvm" THEN KvmTarget(r) ELSE HarvesterTarget(r)
    [] r.name = "vms" -> IF r.kind = "kvm" /\ r.host = None THEN Target("kvmvms")
                         ELSE [Target("allvms") EXCEPT !.vms = Scope(r.id, r.kind, r.host)]
    [] r.name = "folders" -> [Target("folders") EXCEPT !.folderId = r.id]
    [] r.name = "containers" -> [Target("allcontainers") EXCEPT !.folderId = r.id]
    [] r.name = "hosts" -> IF r.kind = "kvm" /\ r.tab # None THEN Target(KvmFleet[r.tab])
                           ELSE [Target("hosts") EXCEPT !.hostsKind = r.kind, !.folderId = r.id]
    [] r.name = "dr" -> IF r.tab = "links" THEN Target("drlinks")
                        ELSE [Target("drplans") EXCEPT !.drPlan = r.id]
    [] r.name = "migrations" -> Target("forkliftglobal")
    [] r.name = "automation" ->
         [Target("automation") EXCEPT !.automation = r.tab,
                                      !.autoTab = IF r.pane # None THEN r.pane
                                                  ELSE AutomationPanes[r.tab][1]]
    [] r.name = "activity" ->
         [Target("activity") EXCEPT !.activityAction = r.id,
                                    !.activityHost = IF r.id # None \/ r.host = None THEN NoFilter
                                                     ELSE <<r.kind, r.host>>]
    [] OTHER -> Target(r.name)

(* screen (app.js) after showRoute.  What the target does not say is what  *)
(* the browser remembers: the cluster, the pane of the section             *)
(* (Sections.current), the host the list of actions is filtered on.        *)
Screen(t, mem) ==
  [t EXCEPT !.cluster = IF @ # None THEN @ ELSE mem.cluster,
            !.pane = IF t.tab \in SectionTabs /\ @ = None THEN mem.panes[t.tab] ELSE @,
            !.activityHost = IF t.tab = "activity" /\ t.activityAction = None /\ @ = NoFilter
                             THEN mem.filter ELSE @]

(* screenHash: a screen -> its address *)
ScreenHash(s) ==
  LET H(sub, tab, pane) == Format(UnderHost("harvester", s.cluster, sub, tab, pane))
      K(sub, tab, fleet) == IF s.kvm # None THEN Format(UnderHost("kvm", s.kvm, sub, tab, None))
                            ELSE fleet
  IN CASE s.tab = "overview" ->
            CASE s.overview = "cluster" -> H("params", "nodes", None)
              [] s.overview = "events"  -> H("overview", "events", None)
              [] OTHER                  -> H(None, None, None)
       [] s.tab \in HarvesterSections -> H("params", s.tab, s.pane)
       [] s.tab \in DOMAIN ImportPanes -> H("imports", s.tab, s.pane)
       [] s.tab = "clusterdr"  -> H("dr", None, None)
       [] s.tab \in {"startup", "shutdown"} -> H("params", "power", s.tab)
       [] s.tab = "hupgrade"   -> H("params", "upgrade", None)
       [] s.tab = "hconn"      -> H("params", "conn", None)
       [] s.tab = "namespaces" -> H("vms", None, None)
       [] s.tab = "containers" -> H("containers", None, None)
       [] s.tab = "allvms" ->
            Format(IF s.vms.kind # None THEN OfHost("vms", s.vms.kind, s.vms.host)
                                        ELSE OfId("vms", s.vms.id))
       [] s.tab = "folders"       -> Format(OfId("folders", s.folderId))
       [] s.tab = "allcontainers" -> Format(OfId("containers", s.folderId))
       [] s.tab = "activity" ->
            Format(IF s.activityAction # None THEN OfId("activity", s.activityAction)
                   ELSE IF s.activityHost = NoFilter THEN Bare("activity")
                   ELSE OfHost("activity", s.activityHost[1], s.activityHost[2]))
       [] s.tab = "forkliftglobal" -> <<"migrations">>
       [] s.tab = "hosts" -> IF s.folderId # None THEN Format(OfId("hosts", s.folderId))
                             ELSE <<"hosts">> \o Given(s.hostsKind)
       [] s.tab = "kvmhosts"    -> K(None, None, <<"hosts", "kvm", "capacity">>)
       [] s.tab = "kvmvms"      -> K("vms", None, <<"vms", "host", "kvm">>)
       [] s.tab = "kvmstorage"  -> K("params", "pools", <<"hosts", "kvm", "pools">>)
       [] s.tab = "kvmnetworks" -> K("params", "networks", <<"hosts", "kvm", "networks">>)
       [] s.tab = "kvmparams"   -> K("params", s.kvmTab, <<>>)
       [] s.tab = "kvmdr"       -> K("dr", None, <<>>)
       [] s.tab = "drplans"     -> <<"dr">> \o Given(s.drPlan)
       [] s.tab = "drlinks"     -> <<"dr", "links">>
       [] s.tab = "automation"  -> <<"automation", s.automation>> \o Given(s.autoTab)
       [] OTHER -> <<s.tab>>
=============================================================================
