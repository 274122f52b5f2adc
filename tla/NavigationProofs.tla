------------------------- MODULE NavigationProofs -------------------------
(***************************************************************************)
(* The addresses of the console and its router, for any names of hosts,    *)
(* any addresses, and any number of navigations and events that wait.      *)
(*                                                                         *)
(* First the grammar: the routes parse gives (Readable), the address       *)
(* format writes of each of them, the screens they open (OnScreen), and    *)
(* that the address screenHash writes of such a screen opens it again.     *)
(* Then the router: an invariant that says, for each stage of a            *)
(* navigation, what will be true when it ends.                             *)
(***************************************************************************)
EXTENDS MCNavigation, TLAPS

-----------------------------------------------------------------------------
(* The routes that parse gives                                             *)

BareNames == Roots \cup {"vms", "folders", "containers", "hosts", "dr", "activity"}

KvmRoute(r) ==
  /\ r = UnderHost("kvm", r.host, r.sub, r.tab, None) /\ ValidHost(r.host)
  /\ \/ r.sub = None /\ r.tab = None
     \/ r.sub \in {"vms", "dr"} /\ r.tab = None
     \/ r.sub = "params" /\ r.tab \in KvmParams

PaneOf(panes0, r) == r.tab \in DOMAIN panes0 /\ r.pane \in panes0[r.tab] \cup {None}
HarvesterRoute(r) ==
  /\ r = UnderHost("harvester", r.host, r.sub, r.tab, r.pane) /\ ValidHost(r.host)
  /\ \/ r.sub = None /\ r.tab = None /\ r.pane = None
     \/ r.sub \in {"vms", "dr", "containers"} /\ r.tab = None /\ r.pane = None
     \/ r.sub = "overview" /\ r.tab = "events" /\ r.pane = None
     \/ r.sub = "imports" /\ PaneOf(ImportPanes, r)
     \/ r.sub = "params" /\ PaneOf(HarvesterPanes, r)

FleetRoute(r) ==
  \/ r = Bare(r.name) /\ r.name \in BareNames
  \/ r = OfId(r.name, r.id) /\ ValidId(r.id) /\ r.name \in {"vms", "containers", "hosts"}
  \/ r = OfId(r.name, r.id) /\ ValidId(r.id) /\ r.name \in {"folders", "activity"}
  \/ r = OfId("dr", r.id) /\ ValidId(r.id) /\ r.id # "links"
  \/ r = OfHost(r.name, r.kind, None) /\ r.kind \in Kinds /\ r.name \in {"vms", "hosts"}
  \/ /\ r = OfHost(r.name, r.kind, r.host) /\ r.kind \in Kinds /\ ValidHost(r.host)
     /\ r.name \in {"vms", "activity"}
  \/ r = OfTab("hosts", "kvm", r.tab, None) /\ r.tab \in DOMAIN KvmFleet
  \/ r = OfTab("dr", None, "links", None)
  \/ /\ r = OfTab("automation", None, r.tab, r.pane) /\ r.tab \in DOMAIN AutomationPanes
     /\ r.pane \in Entries(AutomationPanes[r.tab]) \cup {None}

Readable(r) == KvmRoute(r) \/ HarvesterRoute(r) \/ FleetRoute(r)

-----------------------------------------------------------------------------
(* Addresses put together *)

(* Two sequences with the same length and the same elements are equal.     *)
LEMMA SameSeq ==
  ASSUME NEW S, NEW p \in Seq(S), NEW q \in Seq(S), Len(p) = Len(q),
         \A i \in 1..Len(p) : p[i] = q[i]
  PROVE  p = q
<1>1. DOMAIN p = 1..Len(p) /\ DOMAIN q = 1..Len(p)
  OBVIOUS
<1> QED BY <1>1

LEMMA Glue2 == ASSUME NEW a, NEW b PROVE <<a>> \o <<b>> = <<a, b>>
<1> DEFINE S == {a, b}
           p == <<a>> \o <<b>>
<1>1. <<a>> \in Seq(S) /\ <<b>> \in Seq(S) /\ <<a, b>> \in Seq(S)
  OBVIOUS
<1>2. p \in Seq(S) /\ Len(p) = 2
  BY <1>1
<1>3. p[1] = a /\ p[2] = b
  BY <1>1
<1> HIDE DEF p
<1>4. p = <<a, b>>
  BY <1>1, <1>2, <1>3, SameSeq
<1> QED BY <1>4 DEF p

LEMMA Glue3 ==
  ASSUME NEW a, NEW b, NEW c
  PROVE  <<a, b>> \o <<c>> = <<a, b, c>> /\ <<a>> \o <<b, c>> = <<a, b, c>>
<1> DEFINE S == {a, b, c}
           p == <<a, b>> \o <<c>>
           q == <<a>> \o <<b, c>>
<1>1. /\ <<a>> \in Seq(S) /\ <<c>> \in Seq(S) /\ <<a, b>> \in Seq(S)
      /\ <<b, c>> \in Seq(S) /\ <<a, b, c>> \in Seq(S)
  OBVIOUS
<1>2. p \in Seq(S) /\ Len(p) = 3 /\ q \in Seq(S) /\ Len(q) = 3
  BY <1>1
<1>3. p[1] = a /\ p[2] = b /\ p[3] = c
  BY <1>1
<1>4. q[1] = a /\ q[2] = b /\ q[3] = c
  BY <1>1
<1> HIDE DEF p, q
<1>5. p = <<a, b, c>>
  BY <1>1, <1>2, <1>3, SameSeq
<1>6. q = <<a, b, c>>
  BY <1>1, <1>2, <1>4, SameSeq
<1> QED BY <1>5, <1>6 DEF p, q

LEMMA Glue4 ==
  ASSUME NEW a, NEW b, NEW c, NEW d
  PROVE  <<a, b, c>> \o <<d>> = <<a, b, c, d>> /\ <<a>> \o <<b, c, d>> = <<a, b, c, d>>
<1> DEFINE S == {a, b, c, d}
           p == <<a, b, c>> \o <<d>>
           q == <<a>> \o <<b, c, d>>
<1>1. /\ <<a>> \in Seq(S) /\ <<d>> \in Seq(S) /\ <<a, b, c>> \in Seq(S)
      /\ <<b, c, d>> \in Seq(S) /\ <<a, b, c, d>> \in Seq(S)
  OBVIOUS
<1>2. p \in Seq(S) /\ Len(p) = 4 /\ q \in Seq(S) /\ Len(q) = 4
  BY <1>1
<1>3. p[1] = a /\ p[2] = b /\ p[3] = c /\ p[4] = d
  BY <1>1
<1>4. q[1] = a /\ q[2] = b /\ q[3] = c /\ q[4] = d
  BY <1>1
<1> HIDE DEF p, q
<1>5. p = <<a, b, c, d>>
  BY <1>1, <1>2, <1>3, SameSeq
<1>6. q = <<a, b, c, d>>
  BY <1>1, <1>2, <1>4, SameSeq
<1> QED BY <1>5, <1>6 DEF p, q

LEMMA Glue5 ==
  ASSUME NEW a, NEW b, NEW c, NEW d, NEW e
  PROVE  <<a, b, c, d>> \o <<e>> = <<a, b, c, d, e>>
<1> DEFINE S == {a, b, c, d, e}
           p == <<a, b, c, d>> \o <<e>>
<1>1. <<e>> \in Seq(S) /\ <<a, b, c, d>> \in Seq(S) /\ <<a, b, c, d, e>> \in Seq(S)
  OBVIOUS
<1>2. p \in Seq(S) /\ Len(p) = 5
  BY <1>1
<1>3. p[1] = a /\ p[2] = b /\ p[3] = c /\ p[4] = d /\ p[5] = e
  BY <1>1
<1> HIDE DEF p
<1>4. p = <<a, b, c, d, e>>
  BY <1>1, <1>2, <1>3, SameSeq
<1> QED BY <1>4 DEF p

(* A segment that is not given adds nothing.                               *)
LEMMA GivenNothing ==
  ASSUME NEW S, NEW q \in Seq(S) PROVE q \o Given(None) = q
BY DEF Given

LEMMA GivenWord == ASSUME NEW w, w # None PROVE Given(w) = <<w>>
BY DEF Given

LEMMA NothingAfter ==
  /\ <<>> \o <<>> = <<>>
  /\ \A a : <<a>> \o <<>> = <<a>>
  /\ \A a, b : <<a, b>> \o <<>> = <<a, b>>
OBVIOUS

LEMMA GluePairs ==
  ASSUME NEW a, NEW b, NEW c, NEW d, NEW e
  PROVE  <<a, b>> \o <<c, d>> = <<a, b, c, d>> /\ <<a, b>> \o <<c, d, e>> = <<a, b, c, d, e>>
<1> DEFINE S == {a, b, c, d, e}
           p == <<a, b>> \o <<c, d>>
           q == <<a, b>> \o <<c, d, e>>
<1>1. /\ <<a, b>> \in Seq(S) /\ <<c, d>> \in Seq(S) /\ <<c, d, e>> \in Seq(S)
      /\ <<a, b, c, d>> \in Seq(S) /\ <<a, b, c, d, e>> \in Seq(S)
  OBVIOUS
<1>2. p \in Seq(S) /\ Len(p) = 4 /\ q \in Seq(S) /\ Len(q) = 5
  BY <1>1
<1>3. \A i \in 1..4 : p[i] = <<a, b, c, d>>[i]
  BY <1>1
<1>4. \A i \in 1..5 : q[i] = <<a, b, c, d, e>>[i]
  BY <1>1
<1>5. p = <<a, b, c, d>>
  BY <1>1, <1>2, <1>3, SameSeq
<1>6. q = <<a, b, c, d, e>>
  BY <1>1, <1>2, <1>4, SameSeq
<1> QED BY <1>5, <1>6

(* No name is empty.                                                       *)
LEMMA NamesGiven ==
  /\ \A host : ValidHost(host) => host # None
  /\ \A id : ValidId(id) => id # None
BY RulesAssumption DEF ValidHost, ValidId

LEMMA WordsGiven ==
  /\ \A tab \in DOMAIN HarvesterPanes : tab # None /\ None \notin HarvesterPanes[tab]
  /\ \A tab \in DOMAIN ImportPanes : tab # None /\ None \notin ImportPanes[tab]
  /\ \A tab \in DOMAIN AutomationPanes : tab # None /\ None \notin Entries(AutomationPanes[tab])
  /\ None \notin KvmParams /\ None \notin Kinds /\ None \notin DOMAIN KvmFleet
<1>1. ASSUME NEW tab \in DOMAIN HarvesterPanes
      PROVE  tab # None /\ None \notin HarvesterPanes[tab]
  <2>1. tab \in {"nodes", "storage", "network", "addons", "security", "monlog", "advanced",
                "upgrade", "power", "conn"}
    BY DEF HarvesterPanes
  <2>2. /\ None \notin HarvesterPanes.nodes /\ None \notin HarvesterPanes.storage
        /\ None \notin HarvesterPanes.network /\ None \notin HarvesterPanes.addons
        /\ None \notin HarvesterPanes.security /\ None \notin HarvesterPanes.monlog
        /\ None \notin HarvesterPanes.advanced /\ None \notin HarvesterPanes.upgrade
        /\ None \notin HarvesterPanes.power /\ None \notin HarvesterPanes.conn
    BY DEF HarvesterPanes, None
  <2> QED BY <2>1, <2>2 DEF None
<1>2. ASSUME NEW tab \in DOMAIN ImportPanes
      PROVE  tab # None /\ None \notin ImportPanes[tab]
  <2>1. tab \in {"vmimport", "forklift"}
    BY DEF ImportPanes
  <2>2. None \notin ImportPanes.vmimport /\ None \notin ImportPanes.forklift
    BY DEF ImportPanes, None
  <2> QED BY <2>1, <2>2 DEF None
<1>3. ASSUME NEW tab \in DOMAIN AutomationPanes
      PROVE  tab # None /\ None \notin Entries(AutomationPanes[tab])
  <2>1. tab \in {"capi", "terraform", "pxe"}
    BY DEF AutomationPanes
  <2>2. /\ Entries(AutomationPanes.capi)
             = {"clusters", "services", "registries", "artefacts", "history", "installation"}
        /\ Entries(AutomationPanes.terraform)
             = {"declarations", "resources", "history", "installation"}
        /\ Entries(AutomationPanes.pxe) = {"machines", "profiles", "plans", "images", "history"}
    BY DEF AutomationPanes, Entries
  <2>3. /\ None \notin Entries(AutomationPanes.capi)
        /\ None \notin Entries(AutomationPanes.terraform)
        /\ None \notin Entries(AutomationPanes.pxe)
    BY <2>2 DEF None
  <2>4. tab # None
    BY <2>1 DEF None
  <2> QED BY <2>1, <2>3, <2>4
<1>4. None \notin KvmParams /\ None \notin Kinds /\ None \notin DOMAIN KvmFleet
  BY DEF KvmParams, Kinds, KvmFleet, None
<1> QED BY <1>1, <1>2, <1>3, <1>4

LEMMA LiteralsGiven ==
  /\ None \notin BareNames
  /\ None \notin {"harvester", "kvm", "vms", "containers", "dr", "hosts", "folders", "activity",
                 "automation", "params", "imports", "overview", "events", "folder", "host", "action",
                 "links"}
BY DEF BareNames, Roots, None

(* An address without an empty segment is read by the grammar.             *)
LEMMA Read ==
  /\ \A a : None # a => Parse(<<a>>) = Grammar(<<a>>)
  /\ \A a, b : None \notin {a, b} => Parse(<<a, b>>) = Grammar(<<a, b>>)
  /\ \A a, b, c : None \notin {a, b, c} => Parse(<<a, b, c>>) = Grammar(<<a, b, c>>)
  /\ \A a, b, c, d : None \notin {a, b, c, d} => Parse(<<a, b, c, d>>) = Grammar(<<a, b, c, d>>)
  /\ \A a, b, c, d, e : None \notin {a, b, c, d, e} =>
       Parse(<<a, b, c, d, e>>) = Grammar(<<a, b, c, d, e>>)
BY DEF Parse, Entries

(* What format writes of a host, segment by segment.                       *)
LEMMA HostAddress ==
  ASSUME NEW kind, NEW host, NEW sub, NEW tab, NEW pane
  PROVE  Format(UnderHost(kind, host, sub, tab, pane))
           = ((<<kind, host>> \o Given(sub)) \o Given(tab)) \o Given(pane)
BY DEF Format, UnderHost, Route

LEMMA HostAddresses ==
  ASSUME NEW kind, NEW host, NEW sub, NEW tab, NEW pane
  PROVE  LET addr == Format(UnderHost(kind, host, sub, tab, pane))
         IN /\ sub = None /\ tab = None /\ pane = None => addr = <<kind, host>>
            /\ sub # None /\ tab = None /\ pane = None => addr = <<kind, host, sub>>
            /\ sub # None /\ tab # None /\ pane = None => addr = <<kind, host, sub, tab>>
            /\ sub # None /\ tab # None /\ pane # None => addr = <<kind, host, sub, tab, pane>>
<1> DEFINE S == {kind, host, sub, tab, pane}
           addr == Format(UnderHost(kind, host, sub, tab, pane))
<1>1. addr = ((<<kind, host>> \o Given(sub)) \o Given(tab)) \o Given(pane)
  BY HostAddress
<1>2. /\ <<kind, host>> \in Seq(S) /\ <<kind, host, sub>> \in Seq(S)
      /\ <<kind, host, sub, tab>> \in Seq(S)
  OBVIOUS
<1> HIDE DEF addr, S
<1>3. ASSUME sub = None PROVE <<kind, host>> \o Given(sub) = <<kind, host>>
  BY <1>2, <1>3, GivenNothing
<1>4. ASSUME sub # None PROVE <<kind, host>> \o Given(sub) = <<kind, host, sub>>
  BY <1>4, GivenWord, Glue3
<1>5. ASSUME tab = None
      PROVE  /\ <<kind, host>> \o Given(tab) = <<kind, host>>
             /\ <<kind, host, sub>> \o Given(tab) = <<kind, host, sub>>
  BY <1>2, <1>5, GivenNothing
<1>6. ASSUME tab # None PROVE <<kind, host, sub>> \o Given(tab) = <<kind, host, sub, tab>>
  BY <1>6, GivenWord, Glue4
<1>7. ASSUME pane = None
      PROVE  /\ <<kind, host>> \o Given(pane) = <<kind, host>>
             /\ <<kind, host, sub>> \o Given(pane) = <<kind, host, sub>>
             /\ <<kind, host, sub, tab>> \o Given(pane) = <<kind, host, sub, tab>>
  BY <1>2, <1>7, GivenNothing
<1>8. ASSUME pane # None
      PROVE  <<kind, host, sub, tab>> \o Given(pane) = <<kind, host, sub, tab, pane>>
  BY <1>8, GivenWord, Glue5
<1>9. sub = None /\ tab = None /\ pane = None => addr = <<kind, host>>
  BY <1>1, <1>3, <1>5, <1>7
<1>10. sub # None /\ tab = None /\ pane = None => addr = <<kind, host, sub>>
  BY <1>1, <1>4, <1>5, <1>7
<1>11. sub # None /\ tab # None /\ pane = None => addr = <<kind, host, sub, tab>>
  BY <1>1, <1>4, <1>6, <1>7
<1>12. sub # None /\ tab # None /\ pane # None => addr = <<kind, host, sub, tab, pane>>
  BY <1>1, <1>4, <1>6, <1>8
<1> QED BY <1>9, <1>10, <1>11, <1>12 DEF addr

(* What parse reads of an address of a host.                               *)
LEMMA ParseHost ==
  ASSUME NEW kind \in Kinds, NEW host, ValidHost(host)
  PROVE  /\ Parse(<<kind, host>>) = UnderHost(kind, host, None, None, None)
         /\ \A sub : sub \in {"vms", "dr"} \/ (kind = "harvester" /\ sub = "containers")
                       => Parse(<<kind, host, sub>>) = UnderHost(kind, host, sub, None, None)
<1>1. Grammar(<<kind, host>>) = UnderHost(kind, host, None, None, None)
  <2>1. CASE kind = "kvm"
    <3>1. Grammar(<<"kvm", host>>) = OfHost("host", "kvm", host)
      BY DEF Grammar, HostRoute, At, Kinds
    <3> QED BY <2>1, <3>1 DEF UnderHost, OfHost
  <2>2. CASE kind = "harvester"
    <3>1. Grammar(<<"harvester", host>>) = OfHost("host", "harvester", host)
      BY DEF Grammar, HostRoute, At, Kinds
    <3> QED BY <2>2, <3>1 DEF UnderHost, OfHost
  <2> QED BY <2>1, <2>2 DEF Kinds
<1>2. ASSUME NEW sub, sub \in {"vms", "dr"} \/ (kind = "harvester" /\ sub = "containers")
      PROVE  Grammar(<<kind, host, sub>>) = UnderHost(kind, host, sub, None, None)
  BY <1>2 DEF Grammar, HostRoute, OrUnknown, At, Kinds
<1>3. kind # None /\ host # None
  BY NamesGiven, WordsGiven
<1>4. Parse(<<kind, host>>) = Grammar(<<kind, host>>)
  BY <1>3, Read
<1>5. ASSUME NEW sub, sub \in {"vms", "dr", "containers"}
      PROVE  Parse(<<kind, host, sub>>) = Grammar(<<kind, host, sub>>)
  BY <1>3, <1>5, Read, LiteralsGiven DEF BareNames
<1> QED BY <1>1, <1>2, <1>4, <1>5

LEMMA ParseKvmParams ==
  ASSUME NEW host, ValidHost(host), NEW tab \in KvmParams
  PROVE  Parse(<<"kvm", host, "params", tab>>) = UnderHost("kvm", host, "params", tab, None)
<1>1. Grammar(<<"kvm", host, "params", tab>>) = UnderHost("kvm", host, "params", tab, None)
  BY DEF Grammar, HostRoute, OrUnknown, At, Kinds
<1>2. None \notin {"kvm", host, "params", tab}
  BY NamesGiven, WordsGiven, LiteralsGiven
<1>3. Parse(<<"kvm", host, "params", tab>>) = Grammar(<<"kvm", host, "params", tab>>)
  BY <1>2, Read
<1> QED BY <1>1, <1>3

LEMMA ParseEvents ==
  ASSUME NEW host, ValidHost(host)
  PROVE  Parse(<<"harvester", host, "overview", "events">>)
           = UnderHost("harvester", host, "overview", "events", None)
<1>1. Grammar(<<"harvester", host, "overview", "events">>)
        = UnderHost("harvester", host, "overview", "events", None)
  BY DEF Grammar, HostRoute, OrUnknown, At, Kinds
<1>2. None \notin {"harvester", host, "overview", "events"}
  BY NamesGiven, WordsGiven, LiteralsGiven
<1>3. Parse(<<"harvester", host, "overview", "events">>)
        = Grammar(<<"harvester", host, "overview", "events">>)
  BY <1>2, Read
<1> QED BY <1>1, <1>3

LEMMA ParseTab ==
  ASSUME NEW host, ValidHost(host), NEW sub, NEW tab,
         \/ sub = "imports" /\ tab \in DOMAIN ImportPanes
         \/ sub = "params" /\ tab \in DOMAIN HarvesterPanes
  PROVE  Parse(<<"harvester", host, sub, tab>>) = UnderHost("harvester", host, sub, tab, None)
<1>1. Grammar(<<"harvester", host, sub, tab>>) = UnderHost("harvester", host, sub, tab, None)
  BY DEF Grammar, HostRoute, OrUnknown, At, Kinds
<1>2. None \notin {"harvester", host, sub, tab}
  BY NamesGiven, WordsGiven, LiteralsGiven
<1>3. Parse(<<"harvester", host, sub, tab>>) = Grammar(<<"harvester", host, sub, tab>>)
  BY <1>2, Read
<1> QED BY <1>1, <1>3

LEMMA ParsePane ==
  ASSUME NEW host, ValidHost(host), NEW sub, NEW tab, NEW pane,
         \/ sub = "imports" /\ tab \in DOMAIN ImportPanes /\ pane \in ImportPanes[tab]
         \/ sub = "params" /\ tab \in DOMAIN HarvesterPanes /\ pane \in HarvesterPanes[tab]
  PROVE  Parse(<<"harvester", host, sub, tab, pane>>) = UnderHost("harvester", host, sub, tab, pane)
<1>1. Grammar(<<"harvester", host, sub, tab, pane>>) = UnderHost("harvester", host, sub, tab, pane)
  BY DEF Grammar, HostRoute, OrUnknown, At, Kinds
<1>2. None \notin {"harvester", host, sub, tab, pane}
  BY NamesGiven, WordsGiven, LiteralsGiven
<1>3. Parse(<<"harvester", host, sub, tab, pane>>) = Grammar(<<"harvester", host, sub, tab, pane>>)
  BY <1>2, Read
<1> QED BY <1>1, <1>3

(* The rest of the grammar                                                 *)
LEMMA ParseBare == ASSUME NEW name \in BareNames PROVE Parse(<<name>>) = Bare(name)
<1>1. Grammar(<<name>>) = Bare(name)
  BY DEF Grammar, BareNames, Roots, OrUnknown, At
<1>2. None \notin {name}
  BY NamesGiven, WordsGiven, LiteralsGiven
<1>3. Parse(<<name>>) = Grammar(<<name>>)
  BY <1>2, Read
<1> QED BY <1>1, <1>3

LEMMA ParseFolder ==
  ASSUME NEW id, ValidId(id), NEW name \in {"vms", "containers", "hosts"}
  PROVE  Parse(<<name, "folder", id>>) = OfId(name, id)
<1>1. Grammar(<<name, "folder", id>>) = OfId(name, id)
  BY DEF Grammar, OrUnknown, At, Kinds, KvmFleet
<1>2. None \notin {name, "folder", id}
  BY NamesGiven, WordsGiven, LiteralsGiven
<1>3. Parse(<<name, "folder", id>>) = Grammar(<<name, "folder", id>>)
  BY <1>2, Read
<1> QED BY <1>1, <1>3

LEMMA ParseId ==
  ASSUME NEW id, ValidId(id)
  PROVE  /\ Parse(<<"folders", id>>) = OfId("folders", id)
         /\ id # "links" => Parse(<<"dr", id>>) = OfId("dr", id)
         /\ Parse(<<"activity", "action", id>>) = OfId("activity", id)
<1>1. /\ Grammar(<<"folders", id>>) = OfId("folders", id)
      /\ id # "links" => Grammar(<<"dr", id>>) = OfId("dr", id)
      /\ Grammar(<<"activity", "action", id>>) = OfId("activity", id)
  BY DEF Grammar, OrUnknown, At, Kinds
<1>2. None \notin {"dr", id, "folders", "activity", "action"}
  BY NamesGiven, WordsGiven, LiteralsGiven
<1>3. /\ Parse(<<"dr", id>>) = Grammar(<<"dr", id>>)
      /\ Parse(<<"folders", id>>) = Grammar(<<"folders", id>>)
      /\ Parse(<<"activity", "action", id>>) = Grammar(<<"activity", "action", id>>)
  BY <1>2, Read
<1> QED BY <1>1, <1>3

LEMMA ParseFamily ==
  ASSUME NEW kind \in Kinds
  PROVE  /\ Parse(<<"vms", "host", kind>>) = OfHost("vms", kind, None)
         /\ Parse(<<"hosts", kind>>) = OfHost("hosts", kind, None)
<1>1. /\ Grammar(<<"vms", "host", kind>>) = OfHost("vms", kind, None)
      /\ Grammar(<<"hosts", kind>>) = OfHost("hosts", kind, None)
  BY DEF Grammar, OrUnknown, At, Kinds
<1>2. None \notin {"hosts", kind, "vms", "host"}
  BY NamesGiven, WordsGiven, LiteralsGiven
<1>3. /\ Parse(<<"hosts", kind>>) = Grammar(<<"hosts", kind>>)
      /\ Parse(<<"vms", "host", kind>>) = Grammar(<<"vms", "host", kind>>)
  BY <1>2, Read
<1> QED BY <1>1, <1>3

LEMMA ParseOfHost ==
  ASSUME NEW kind \in Kinds, NEW host, ValidHost(host)
  PROVE  /\ Parse(<<"vms", "host", kind, host>>) = OfHost("vms", kind, host)
         /\ Parse(<<"activity", "host", kind, host>>) = OfHost("activity", kind, host)
<1>1. /\ Grammar(<<"vms", "host", kind, host>>) = OfHost("vms", kind, host)
      /\ Grammar(<<"activity", "host", kind, host>>) = OfHost("activity", kind, host)
  BY DEF Grammar, OrUnknown, At, Kinds
<1>2. None \notin {"vms", "host", kind, host, "activity"}
  BY NamesGiven, WordsGiven, LiteralsGiven
<1>3. /\ Parse(<<"vms", "host", kind, host>>) = Grammar(<<"vms", "host", kind, host>>)
      /\ Parse(<<"activity", "host", kind, host>>) = Grammar(<<"activity", "host", kind, host>>)
  BY <1>2, Read
<1> QED BY <1>1, <1>3

LEMMA ParseFleet ==
  ASSUME NEW tab \in DOMAIN KvmFleet
  PROVE  Parse(<<"hosts", "kvm", tab>>) = OfTab("hosts", "kvm", tab, None)
<1>1. Grammar(<<"hosts", "kvm", tab>>) = OfTab("hosts", "kvm", tab, None)
  BY DEF Grammar, OrUnknown, At, Kinds, KvmFleet
<1>2. None \notin {"hosts", "kvm", tab}
  BY NamesGiven, WordsGiven, LiteralsGiven
<1>3. Parse(<<"hosts", "kvm", tab>>) = Grammar(<<"hosts", "kvm", tab>>)
  BY <1>2, Read
<1> QED BY <1>1, <1>3

LEMMA ParseLinks == Parse(<<"dr", "links">>) = OfTab("dr", None, "links", None)
<1>1. Grammar(<<"dr", "links">>) = OfTab("dr", None, "links", None)
  BY DEF Grammar, OrUnknown, At, Kinds
<1>2. None \notin {"dr", "links"}
  BY NamesGiven, WordsGiven, LiteralsGiven
<1>3. Parse(<<"dr", "links">>) = Grammar(<<"dr", "links">>)
  BY <1>2, Read
<1> QED BY <1>1, <1>3

LEMMA ParseAutomation ==
  ASSUME NEW tab \in DOMAIN AutomationPanes
  PROVE  /\ Parse(<<"automation", tab>>) = OfTab("automation", None, tab, None)
         /\ \A pane \in Entries(AutomationPanes[tab]) :
              Parse(<<"automation", tab, pane>>) = OfTab("automation", None, tab, pane)
<1>1. Grammar(<<"automation", tab>>) = OfTab("automation", None, tab, None)
  BY DEF Grammar, OrUnknown, At, Kinds
<1>2. ASSUME NEW pane \in Entries(AutomationPanes[tab])
      PROVE  Grammar(<<"automation", tab, pane>>) = OfTab("automation", None, tab, pane)
  BY DEF Grammar, OrUnknown, At, Kinds
<1>3. Parse(<<"automation", tab>>) = Grammar(<<"automation", tab>>)
  BY Read, WordsGiven, LiteralsGiven
<1>4. ASSUME NEW pane \in Entries(AutomationPanes[tab])
      PROVE  Parse(<<"automation", tab, pane>>) = Grammar(<<"automation", tab, pane>>)
  BY Read, WordsGiven, LiteralsGiven
<1> QED BY <1>1, <1>2, <1>3, <1>4

LEMMA FormatKvm == ASSUME NEW r, KvmRoute(r) PROVE Parse(Format(r)) = r
<1>1. r = UnderHost("kvm", r.host, r.sub, r.tab, None) /\ ValidHost(r.host)
  BY DEF KvmRoute
<1>2. CASE r.sub = None /\ r.tab = None
  <2>1. Format(r) = <<"kvm", r.host>>
    BY <1>1, <1>2, HostAddresses
  <2> QED BY <1>1, <1>2, <2>1, ParseHost DEF Kinds
<1>3. CASE r.sub \in {"vms", "dr"} /\ r.tab = None
  <2>1. r.sub # None
    BY <1>3 DEF None
  <2>2. Format(r) = <<"kvm", r.host, r.sub>>
    BY <1>1, <1>3, <2>1, HostAddresses
  <2> QED BY <1>1, <1>3, <2>2, ParseHost DEF Kinds
<1>4. CASE r.sub = "params" /\ r.tab \in KvmParams
  <2>1. "params" # None /\ r.tab # None
    BY <1>4, WordsGiven DEF None
  <2>2. Format(r) = <<"kvm", r.host, "params", r.tab>>
    BY <1>1, <1>4, <2>1, HostAddresses
  <2> QED BY <1>1, <1>4, <2>2, ParseKvmParams
<1> QED BY <1>2, <1>3, <1>4 DEF KvmRoute

LEMMA FormatHarvester == ASSUME NEW r, HarvesterRoute(r) PROVE Parse(Format(r)) = r
<1>1. r = UnderHost("harvester", r.host, r.sub, r.tab, r.pane) /\ ValidHost(r.host)
  BY DEF HarvesterRoute
<1>2. CASE r.sub = None /\ r.tab = None /\ r.pane = None
  <2>1. Format(r) = <<"harvester", r.host>>
    BY <1>1, <1>2, HostAddresses
  <2> QED BY <1>1, <1>2, <2>1, ParseHost DEF Kinds
<1>3. CASE r.sub \in {"vms", "dr", "containers"} /\ r.tab = None /\ r.pane = None
  <2>1. r.sub # None
    BY <1>3 DEF None
  <2>2. Format(r) = <<"harvester", r.host, r.sub>>
    BY <1>1, <1>3, <2>1, HostAddresses
  <2> QED BY <1>1, <1>3, <2>2, ParseHost DEF Kinds
<1>4. CASE r.sub = "overview" /\ r.tab = "events" /\ r.pane = None
  <2>1. r.sub # None /\ r.tab # None
    BY <1>4 DEF None
  <2>2. Format(r) = <<"harvester", r.host, "overview", "events">>
    BY <1>1, <1>4, <2>1, HostAddresses
  <2> QED BY <1>1, <1>4, <2>2, ParseEvents
<1>5. ASSUME \/ r.sub = "imports" /\ PaneOf(ImportPanes, r)
             \/ r.sub = "params" /\ PaneOf(HarvesterPanes, r)
      PROVE  Parse(Format(r)) = r
  <2>1. r.sub # None /\ r.tab # None
    BY <1>5, WordsGiven DEF None, PaneOf
  <2>2. CASE r.pane = None
    <3>1. Format(r) = <<"harvester", r.host, r.sub, r.tab>>
      BY <1>1, <2>1, <2>2, HostAddresses
    <3>2. Parse(<<"harvester", r.host, r.sub, r.tab>>)
            = UnderHost("harvester", r.host, r.sub, r.tab, None)
      BY <1>1, <1>5, ParseTab DEF PaneOf
    <3> QED BY <1>1, <2>2, <3>1, <3>2
  <2>3. CASE r.pane # None
    <3>1. Format(r) = <<"harvester", r.host, r.sub, r.tab, r.pane>>
      BY <1>1, <2>1, <2>3, HostAddresses
    <3>2. Parse(<<"harvester", r.host, r.sub, r.tab, r.pane>>)
            = UnderHost("harvester", r.host, r.sub, r.tab, r.pane)
      BY <1>1, <1>5, <2>3, ParsePane DEF PaneOf
    <3> QED BY <1>1, <3>1, <3>2
  <2> QED BY <2>2, <2>3
<1> QED BY <1>2, <1>3, <1>4, <1>5 DEF HarvesterRoute

LEMMA FormatFleet == ASSUME NEW r, FleetRoute(r) PROVE Parse(Format(r)) = r
<1>1. CASE r = Bare(r.name) /\ r.name \in BareNames
  <2>1. Format(Bare(r.name)) = <<r.name>>
    BY <1>1, NothingAfter DEF Format, Bare, Route, BareNames, Roots, Given, None
  <2> QED BY <1>1, <2>1, ParseBare
<1>2. CASE r = OfId(r.name, r.id) /\ ValidId(r.id) /\ r.name \in {"vms", "containers", "hosts"}
  <2>1. r.id # None
    BY <1>2, NamesGiven
  <2>2. Format(OfId(r.name, r.id)) = <<r.name>> \o <<"folder", r.id>>
    BY <1>2, <2>1 DEF Format, OfId, Route
  <2> QED BY <1>2, <2>2, Glue3, ParseFolder
<1>3. CASE r = OfId(r.name, r.id) /\ ValidId(r.id) /\ r.name \in {"folders", "activity"}
  <2>1. r.id # None
    BY <1>3, NamesGiven
  <2>2. Format(OfId("folders", r.id)) = <<"folders">> \o <<r.id>>
    BY <2>1, GivenWord DEF Format, OfId, Route
  <2>3. Format(OfId("activity", r.id)) = <<"activity">> \o <<"action", r.id>>
    BY <2>1 DEF Format, OfId, Route
  <2> QED BY <1>3, <2>2, <2>3, Glue2, Glue3, ParseId
<1>4. CASE r = OfId("dr", r.id) /\ ValidId(r.id) /\ r.id # "links"
  <2>1. r.id # None
    BY <1>4, NamesGiven
  <2>2. Format(OfId("dr", r.id)) = <<"dr">> \o <<r.id>>
    BY <2>1, GivenWord DEF Format, OfId, Route
  <2> QED BY <1>4, <2>2, Glue2, ParseId
<1>5. CASE r = OfHost(r.name, r.kind, None) /\ r.kind \in Kinds /\ r.name \in {"vms", "hosts"}
  <2>1. r.kind # None
    BY <1>5, WordsGiven
  <2>2. <<"host", r.kind>> \o Given(None) = <<"host", r.kind>>
    BY NothingAfter DEF Given
  <2>3. Format(OfHost("vms", r.kind, None)) = <<"vms">> \o <<"host", r.kind>>
    BY <2>1, <2>2 DEF Format, OfHost, Route
  <2>4. Format(OfHost("hosts", r.kind, None)) = <<"hosts">> \o <<r.kind>>
    <3>1. None \notin DOMAIN KvmFleet
      BY WordsGiven
    <3> QED BY <2>1, <3>1, GivenWord, NothingAfter DEF Format, OfHost, Route
  <2> QED BY <1>5, <2>3, <2>4, Glue2, Glue3, ParseFamily
<1>6. CASE /\ r = OfHost(r.name, r.kind, r.host) /\ r.kind \in Kinds /\ ValidHost(r.host)
           /\ r.name \in {"vms", "activity"}
  <2>1. r.kind # None /\ r.host # None
    BY <1>6, WordsGiven, NamesGiven
  <2>2. Format(OfHost("vms", r.kind, r.host)) = <<"vms">> \o (<<"host", r.kind>> \o <<r.host>>)
    BY <2>1, GivenWord DEF Format, OfHost, Route
  <2>3. Format(OfHost("activity", r.kind, r.host)) = <<"activity">> \o <<"host", r.kind, r.host>>
    BY <2>1 DEF Format, OfHost, Route
  <2> QED BY <1>6, <2>2, <2>3, Glue3, Glue4, ParseOfHost
<1>7. CASE r = OfTab("hosts", "kvm", r.tab, None) /\ r.tab \in DOMAIN KvmFleet
  <2>1. "kvm" # None
    BY DEF None
  <2>2. Format(OfTab("hosts", "kvm", r.tab, None)) = <<"hosts">> \o (<<"kvm">> \o <<r.tab>>)
    BY <1>7, <2>1, GivenWord DEF Format, OfTab, Route
  <2> QED BY <1>7, <2>2, Glue2, Glue3, ParseFleet
<1>8. CASE r = OfTab("dr", None, "links", None)
  <2>1. Format(OfTab("dr", None, "links", None)) = <<"dr">> \o <<"links">>
    BY DEF Format, OfTab, Route, None
  <2> QED BY <1>8, <2>1, Glue2, ParseLinks
<1>9. CASE /\ r = OfTab("automation", None, r.tab, r.pane) /\ r.tab \in DOMAIN AutomationPanes
           /\ r.pane \in Entries(AutomationPanes[r.tab]) \cup {None}
  <2>1. Format(OfTab("automation", None, r.tab, r.pane)) = <<"automation", r.tab>> \o Given(r.pane)
    BY DEF Format, OfTab, Route
  <2>2. CASE r.pane = None
    BY <1>9, <2>1, <2>2, NothingAfter, ParseAutomation DEF Given
  <2>3. CASE r.pane # None
    BY <1>9, <2>1, <2>3, GivenWord, Glue3, ParseAutomation
  <2> QED BY <2>2, <2>3
<1> QED BY <1>1, <1>2, <1>3, <1>4, <1>5, <1>6, <1>7, <1>8, <1>9 DEF FleetRoute

LEMMA ReadableFormat == ASSUME NEW r, Readable(r) PROVE Parse(Format(r)) = r
BY FormatKvm, FormatHarvester, FormatFleet DEF Readable

-----------------------------------------------------------------------------
(* What parse gives                                                        *)

(* The fields of the routes                                                *)
LEMMA RouteFields ==
  ASSUME NEW name, NEW kind, NEW host, NEW sub, NEW tab, NEW pane, NEW id
  PROVE  LET r == Route(name, kind, host, sub, tab, pane, id)
         IN /\ r.name = name /\ r.kind = kind /\ r.host = host /\ r.sub = sub
            /\ r.tab = tab /\ r.pane = pane /\ r.id = id /\ r # Unknown
BY DEF Route, Unknown

LEMMA HostRouteReadable ==
  ASSUME NEW kind \in Kinds, NEW host, ValidHost(host), NEW rest,
         HostRoute(kind, host, rest) # Unknown
  PROVE  KvmRoute(HostRoute(kind, host, rest)) \/ HarvesterRoute(HostRoute(kind, host, rest))
<1> DEFINE r == HostRoute(kind, host, rest)
           a == At(rest, 1)
           b == At(rest, 2)
           c == At(rest, 3)
<1>1. CASE Len(rest) = 0
  <2>1. r = UnderHost(kind, host, None, None, None)
    BY <1>1 DEF HostRoute, OfHost, UnderHost
  <2> QED BY <2>1, RouteFields DEF KvmRoute, HarvesterRoute, UnderHost, Kinds
<1>2. CASE Len(rest) = 1
  <2>1. /\ r = UnderHost(kind, host, a, None, None)
        /\ a \in {"vms", "dr"} \/ (kind = "harvester" /\ a = "containers")
    BY <1>2 DEF HostRoute, OrUnknown
  <2> QED BY <2>1, RouteFields DEF KvmRoute, HarvesterRoute, UnderHost, Kinds
<1>3. CASE Len(rest) \notin {0, 1} /\ kind = "kvm"
  <2>1. /\ r = UnderHost(kind, host, a, b, c) /\ Len(rest) = 2
        /\ a = "params" /\ b \in KvmParams
    BY <1>3 DEF HostRoute, OrUnknown
  <2>2. c = None
    BY <2>1 DEF At
  <2> QED BY <1>3, <2>1, <2>2, RouteFields DEF KvmRoute, UnderHost
<1>4. CASE Len(rest) \notin {0, 1} /\ kind # "kvm"
  <2>1. /\ r = UnderHost(kind, host, a, b, c)
        /\ \/ rest = <<"overview", "events">>
           \/ a = "imports" /\ b \in DOMAIN ImportPanes /\ (c # None => c \in ImportPanes[b])
           \/ a = "params" /\ b \in DOMAIN HarvesterPanes /\ (c # None => c \in HarvesterPanes[b])
    BY <1>4 DEF HostRoute, OrUnknown
  <2>2. ASSUME rest = <<"overview", "events">>
        PROVE  a = "overview" /\ b = "events" /\ c = None
    BY <2>2 DEF At
  <2>3. kind = "harvester"
    BY <1>4 DEF Kinds
  <2> HIDE DEF a, b, c
  <2>4. /\ r.host = host /\ r.sub = a /\ r.tab = b /\ r.pane = c
    BY <2>1, RouteFields DEF UnderHost
  <2> QED BY <2>1, <2>2, <2>3, <2>4 DEF HarvesterRoute, PaneOf
<1> QED BY <1>1, <1>2, <1>3, <1>4

(* parse gives nothing but these routes.                                   *)
LEMMA ParseReadable ==
  ASSUME NEW addr, Parse(addr) # Unknown
  PROVE  Readable(Parse(addr))
<1>0. Parse(addr) = Grammar(addr) /\ Grammar(addr) # Unknown
  BY DEF Parse
<1> DEFINE head == At(addr, 1)
           rest == IF addr = <<>> THEN <<>> ELSE Tail(addr)
           n == Len(rest)
           a == At(rest, 1)
           b == At(rest, 2)
           c == At(rest, 3)
           r == Grammar(addr)
<1> SUFFICES Readable(r)
  BY <1>0
<1>1. CASE n = 0
  <2>1. r = Bare(head) /\ head \in BareNames
    BY <1>0, <1>1 DEF Grammar, OrUnknown, BareNames
  <2> QED BY <2>1, RouteFields DEF Readable, FleetRoute, Bare
<1>2. CASE n # 0 /\ head = "vms"
  <2>1. \/ a = "folder" /\ r = OfId("vms", b) /\ ValidId(b)
        \/ r = OfHost("vms", b, c) /\ b \in Kinds /\ (n = 2 \/ ValidHost(c))
    BY <1>0, <1>2 DEF Grammar, OrUnknown, Kinds
  <2>2. n = 2 => c = None
    BY DEF At
  <2> HIDE DEF a, b, c, n, r
  <2>3. CASE r = OfId("vms", b) /\ ValidId(b)
    BY <2>3, RouteFields DEF Readable, FleetRoute, OfId, r
  <2>4. CASE r = OfHost("vms", b, c) /\ b \in Kinds /\ (c = None \/ ValidHost(c))
    BY <2>4, RouteFields DEF Readable, FleetRoute, OfHost, r
  <2> QED BY <2>1, <2>2, <2>3, <2>4
<1>3. CASE n # 0 /\ head \in {"folders", "containers"}
  <2>1. \/ r = OfId("folders", a) /\ ValidId(a)
        \/ r = OfId("containers", b) /\ ValidId(b)
    BY <1>0, <1>3 DEF Grammar, OrUnknown, Kinds
  <2> HIDE DEF a, b, r
  <2> QED BY <2>1, RouteFields DEF Readable, FleetRoute, OfId, r
<1>4. CASE n # 0 /\ head = "hosts"
  <2>1. \/ r = OfHost("hosts", a, None) /\ a \in Kinds
        \/ r = OfTab("hosts", "kvm", b, None) /\ b \in DOMAIN KvmFleet
        \/ r = OfId("hosts", b) /\ ValidId(b)
    BY <1>0, <1>4 DEF Grammar, OrUnknown, Kinds
  <2> HIDE DEF a, b, r
  <2> QED BY <2>1, RouteFields DEF Readable, FleetRoute, OfId, OfHost, OfTab, r
<1>5. CASE n # 0 /\ head \in Kinds
  <2>1. ValidHost(a) /\ r = HostRoute(head, a, Tail(rest))
    BY <1>0, <1>5 DEF Grammar, Kinds
  <2> QED BY <1>0, <1>5, <2>1, HostRouteReadable DEF Readable
<1>6. CASE n # 0 /\ head = "dr"
  <2>1. \/ r = OfTab("dr", None, "links", None)
        \/ r = OfId("dr", a) /\ ValidId(a) /\ (n = 1 => a # "links") /\ n = 1
    BY <1>0, <1>6 DEF Grammar, OrUnknown, Kinds
  <2> HIDE DEF a, r, n
  <2> QED BY <2>1, RouteFields DEF Readable, FleetRoute, OfId, OfTab, r
<1>7. CASE n # 0 /\ head = "automation"
  <2>1. /\ r = OfTab("automation", None, a, b) /\ a \in DOMAIN AutomationPanes
        /\ b # None => b \in Entries(AutomationPanes[a])
    BY <1>0, <1>7 DEF Grammar, OrUnknown, Kinds
  <2> HIDE DEF a, b, r
  <2> QED BY <2>1, RouteFields DEF Readable, FleetRoute, OfTab, r
<1>8. CASE n # 0 /\ head = "activity"
  <2>1. \/ r = OfHost("activity", b, c) /\ b \in Kinds /\ ValidHost(c)
        \/ r = OfId("activity", b) /\ ValidId(b)
    BY <1>0, <1>8 DEF Grammar, OrUnknown, Kinds
  <2> HIDE DEF a, b, c, r
  <2> QED BY <2>1, RouteFields DEF Readable, FleetRoute, OfId, OfHost, r
<1>9. ASSUME n # 0, head \notin {"vms", "folders", "containers", "hosts", "dr", "automation",
                                  "activity"} \cup Kinds
      PROVE  FALSE
  BY <1>0, <1>9 DEF Grammar
<1> QED BY <1>1, <1>2, <1>3, <1>4, <1>5, <1>6, <1>7, <1>8, <1>9

(* parse reads what format writes: of every route that parse gives, format *)
(* writes an address that parse reads as that very route (parse, format).  *)
THEOREM FormatParse ==
  ASSUME NEW addr, Parse(addr) # Unknown
  PROVE  Parse(Format(Parse(addr))) = Parse(addr)
BY ParseReadable, ReadableFormat

-----------------------------------------------------------------------------
(* The screens that routes open                                            *)

Fields == {"tab", "cluster", "pane", "overview", "automation", "kvm", "kvmTab", "hostsKind",
           "activityHost", "vms", "folderId", "drPlan", "activityAction", "autoTab"}
IsTarget(t) == t = [f \in Fields |-> t[f]]

ClusterTabs == {"namespaces", "containers", "clusterdr", "startup", "shutdown", "hupgrade", "hconn"}

(* Of a cluster: a section has one of its panes, or none yet in a target   *)
OfCluster(s, none) ==
  /\ ValidHost(s.cluster)
  /\ \/ s = Overview(s.cluster, s.overview) /\ s.overview \in {"metrics", "events", "cluster"}
     \/ /\ s = OnCluster(s.tab, s.cluster, s.pane)
        /\ s.tab \in SectionTabs /\ s.pane \in SectionPanes(s.tab) \cup none
     \/ s = OnCluster(s.tab, s.cluster, None) /\ s.tab \in ClusterTabs

(* Of a KVM host *)
OfKvm(s) ==
  /\ s = OnKvm(s.tab, s.kvm, s.kvmTab) /\ ValidHost(s.kvm)
  /\ \/ s.tab \in {"kvmvms", "kvmdr", "kvmstorage", "kvmnetworks", "kvmhosts"} /\ s.kvmTab = None
     \/ s.tab = "kvmparams" /\ s.kvmTab \in KvmParams \ {"pools", "networks"}

(* Of all hosts *)
PlainTabs == {"kvmvms", "kvmhosts", "kvmstorage", "kvmnetworks", "drlinks", "forkliftglobal",
              "gpus", "bookings", "usage"}
VmsScope(v) ==
  \/ v = Scope(None, None, None)
  \/ v = Scope(v.id, None, None) /\ ValidId(v.id)
  \/ v = Scope(None, v.kind, v.host) /\ v.kind \in Kinds /\ ValidHost(v.host)
  \/ v = Scope(None, "harvester", None)
Filter(f) == f = <<f[1], f[2]>> /\ f[1] \in Kinds /\ ValidHost(f[2])

VmsOf(v) == [Target("allvms") EXCEPT !.vms = v]
FolderOf(tab, v) == [Target(tab) EXCEPT !.folderId = v]
HostsOf(kind, v) == [Target("hosts") EXCEPT !.hostsKind = kind, !.folderId = v]
PlanOf(v) == [Target("drplans") EXCEPT !.drPlan = v]
AutomationOf(v, w) == [Target("automation") EXCEPT !.automation = v, !.autoTab = w]
ActivityOf(v, w) == [Target("activity") EXCEPT !.activityAction = v, !.activityHost = w]

OfFleet(s) ==
  \/ \E tab \in PlainTabs : s = Target(tab)
  \/ \E v : s = VmsOf(v) /\ VmsScope(v)
  \/ \E tab \in {"folders", "allcontainers"} :
       \E v : s = FolderOf(tab, v) /\ (v = None \/ ValidId(v))
  \/ \E kind \in Kinds \cup {None} : s = HostsOf(kind, None)
  \/ \E v : s = HostsOf(None, v) /\ ValidId(v)
  \/ \E v : s = PlanOf(v) /\ (v = None \/ (ValidId(v) /\ v # "links"))
  \/ \E v \in DOMAIN AutomationPanes : \E w \in Entries(AutomationPanes[v]) : s = AutomationOf(v, w)
  \/ \E v : s = ActivityOf(v, NoFilter) /\ (v = None \/ ValidId(v))
  \/ \E w : s = ActivityOf(None, w) /\ Filter(w)

(* A screen that is shown.  Its cluster says nothing of a screen that is   *)
(* not of a cluster.                                                       *)
Anywhere(s) == [s EXCEPT !.cluster = None]
Elsewhere(s) == OfKvm(s) \/ OfFleet(s)
OnScreen(s) == IsTarget(s) /\ (OfCluster(s, {}) \/ Elsewhere(Anywhere(s)))

LEMMA TargetFields == ASSUME NEW tab PROVE IsTarget(Target(tab))
BY DEF IsTarget, Target, Fields

LEMMA SectionTabsAre ==
  /\ HarvesterSections = {"storage", "network", "addons", "security", "monlog", "advanced"}
  /\ DOMAIN ImportPanes = {"vmimport", "forklift"}
  /\ SectionTabs = {"storage", "network", "addons", "security", "monlog", "advanced",
                    "vmimport", "forklift"}
BY DEF SectionTabs, HarvesterSections, HarvesterPanes, ImportPanes

LEMMA OnClusterFields ==
  ASSUME NEW tab, NEW cluster, NEW pane
  PROVE  LET t == OnCluster(tab, cluster, pane)
         IN IsTarget(t) /\ t.tab = tab /\ t.cluster = cluster /\ t.pane = pane /\ t.kvm = None
BY DEF IsTarget, OnCluster, Target, Fields

LEMMA OverviewFields ==
  ASSUME NEW cluster, NEW mode
  PROVE  LET t == Overview(cluster, mode)
         IN /\ IsTarget(t) /\ t.tab = "overview" /\ t.cluster = cluster /\ t.overview = mode
            /\ t.kvm = None /\ t.pane = None
BY DEF IsTarget, Overview, Target, Fields

LEMMA OnKvmFields ==
  ASSUME NEW tab, NEW host, NEW kvmTab
  PROVE  LET t == OnKvm(tab, host, kvmTab)
         IN /\ IsTarget(t) /\ t.tab = tab /\ t.cluster = None /\ t.pane = None
            /\ t.kvm = host /\ t.kvmTab = kvmTab
BY DEF IsTarget, OnKvm, Target, Fields

(* What resolve makes of each kind of route                                *)
LEMMA ResolveHarvester ==
  ASSUME NEW r, HarvesterRoute(r)
  PROVE  /\ OfCluster(Resolve(r), {None}) /\ IsTarget(Resolve(r))
         /\ Resolve(r).cluster = r.host /\ Resolve(r).kvm = None
<1> DEFINE t == Resolve(r)
<1>1. /\ r.name = "host" /\ r.kind = "harvester" /\ ValidHost(r.host)
      /\ t = HarvesterTarget(r)
  BY RouteFields DEF HarvesterRoute, UnderHost, Resolve
<1>2. CASE r.sub \in {None, "overview"}
  <2>1. t = Overview(r.host, "metrics") \/ t = Overview(r.host, "events")
    BY <1>1, <1>2 DEF HarvesterTarget, None
  <2> HIDE DEF t
  <2>2. OfCluster(t, {None}) /\ IsTarget(t) /\ t.cluster = r.host /\ t.kvm = None
    BY <1>1, <2>1, OverviewFields DEF OfCluster
  <2> QED BY <2>2 DEF t
<1>3. CASE r.sub \in {"vms", "dr", "containers"}
  <2>1. PICK tab \in ClusterTabs : t = OnCluster(tab, r.host, None)
    BY <1>1, <1>3 DEF HarvesterTarget, ClusterTabs, None
  <2> HIDE DEF t
  <2>2. OfCluster(t, {None}) /\ IsTarget(t) /\ t.cluster = r.host /\ t.kvm = None
    BY <1>1, <2>1, OnClusterFields DEF OfCluster
  <2> QED BY <2>2 DEF t
<1>4. CASE r.sub = "imports" /\ PaneOf(ImportPanes, r)
  <2>1. t = OnCluster(r.tab, r.host, r.pane)
    BY <1>1, <1>4 DEF HarvesterTarget, None
  <2>2. r.tab \in SectionTabs /\ r.pane \in SectionPanes(r.tab) \cup {None}
    BY <1>4 DEF PaneOf, SectionTabs, SectionPanes
  <2> HIDE DEF t
  <2>3. OfCluster(t, {None}) /\ IsTarget(t) /\ t.cluster = r.host /\ t.kvm = None
    BY <1>1, <2>1, <2>2, OnClusterFields DEF OfCluster
  <2> QED BY <2>3 DEF t
<1>5. CASE r.sub = "params" /\ PaneOf(HarvesterPanes, r)
  <2>1. CASE r.tab = "nodes"
    <3>1. t = Overview(r.host, "cluster")
      BY <1>1, <1>5, <2>1 DEF HarvesterTarget, None
    <3> HIDE DEF t
    <3>2. OfCluster(t, {None}) /\ IsTarget(t) /\ t.cluster = r.host /\ t.kvm = None
      BY <1>1, <3>1, OverviewFields DEF OfCluster
    <3> QED BY <3>2 DEF t
  <2>2. CASE r.tab \in {"power", "upgrade", "conn"}
    <3>1. PICK tab \in ClusterTabs : t = OnCluster(tab, r.host, None)
      BY <1>1, <1>5, <2>2 DEF HarvesterTarget, ClusterTabs, None
    <3> HIDE DEF t
    <3>2. OfCluster(t, {None}) /\ IsTarget(t) /\ t.cluster = r.host /\ t.kvm = None
      BY <1>1, <3>1, OnClusterFields DEF OfCluster
    <3> QED BY <3>2 DEF t
  <2>3. CASE r.tab \notin {"nodes", "power", "upgrade", "conn"}
    <3>1. t = OnCluster(r.tab, r.host, r.pane)
      BY <1>1, <1>5, <2>3 DEF HarvesterTarget, None
    <3>2. r.tab \in HarvesterSections
      BY <1>5, <2>3 DEF PaneOf, HarvesterSections
    <3>3. r.tab \in SectionTabs /\ SectionPanes(r.tab) = HarvesterPanes[r.tab]
      BY <3>2, SectionTabsAre DEF SectionPanes
    <3> HIDE DEF t
    <3>4. OfCluster(t, {None}) /\ IsTarget(t) /\ t.cluster = r.host /\ t.kvm = None
      BY <1>1, <1>5, <3>1, <3>3, OnClusterFields DEF OfCluster, PaneOf
    <3> QED BY <3>4 DEF t
  <2> QED BY <2>1, <2>2, <2>3
<1> QED BY <1>2, <1>3, <1>4, <1>5 DEF HarvesterRoute

LEMMA ResolveKvm ==
  ASSUME NEW r, KvmRoute(r)
  PROVE  OfKvm(Resolve(r)) /\ IsTarget(Resolve(r)) /\ Resolve(r).cluster = None
<1> DEFINE t == Resolve(r)
<1>1. r.name = "host" /\ r.kind = "kvm" /\ ValidHost(r.host) /\ t = KvmTarget(r)
  BY RouteFields DEF KvmRoute, UnderHost, Resolve
<1>2. CASE r.sub = "params" /\ r.tab \in KvmParams \ {"pools", "networks"}
  <2>1. t = OnKvm("kvmparams", r.host, r.tab)
    BY <1>1, <1>2 DEF KvmTarget
  <2> HIDE DEF t
  <2>2. OfKvm(t) /\ IsTarget(t) /\ t.cluster = None
    BY <1>1, <1>2, <2>1, OnKvmFields DEF OfKvm
  <2> QED BY <2>2 DEF t
<1>3. CASE ~(r.sub = "params" /\ r.tab \in KvmParams \ {"pools", "networks"})
  <2>1. PICK tab \in {"kvmvms", "kvmdr", "kvmstorage", "kvmnetworks", "kvmhosts"} :
          t = OnKvm(tab, r.host, None)
    BY <1>1, <1>3 DEF KvmTarget, KvmRoute, None
  <2> HIDE DEF t
  <2>2. OfKvm(t) /\ IsTarget(t) /\ t.cluster = None
    BY <1>1, <2>1, OnKvmFields DEF OfKvm
  <2> QED BY <2>2 DEF t
<1> QED BY <1>2, <1>3

(* The fields of the screens of all hosts                                  *)
LEMMA PlainFields ==
  ASSUME NEW tab
  PROVE  LET t == Target(tab)
         IN IsTarget(t) /\ t.tab = tab /\ t.cluster = None /\ t.pane = None /\ t.kvm = None
BY DEF IsTarget, Target, Fields

LEMMA VmsFields ==
  ASSUME NEW v
  PROVE  LET t == VmsOf(v)
         IN IsTarget(t) /\ t.tab = "allvms" /\ t.cluster = None /\ t.pane = None /\ t.vms = v
BY DEF IsTarget, VmsOf, Target, Fields

LEMMA FolderFields ==
  ASSUME NEW tab, NEW v
  PROVE  LET t == FolderOf(tab, v)
         IN IsTarget(t) /\ t.tab = tab /\ t.cluster = None /\ t.pane = None /\ t.folderId = v
BY DEF IsTarget, FolderOf, Target, Fields

LEMMA HostsFields ==
  ASSUME NEW kind, NEW v
  PROVE  LET t == HostsOf(kind, v)
         IN /\ IsTarget(t) /\ t.tab = "hosts" /\ t.cluster = None /\ t.pane = None
            /\ t.hostsKind = kind /\ t.folderId = v
BY DEF IsTarget, HostsOf, Target, Fields

LEMMA PlanFields ==
  ASSUME NEW v
  PROVE  LET t == PlanOf(v)
         IN IsTarget(t) /\ t.tab = "drplans" /\ t.cluster = None /\ t.pane = None /\ t.drPlan = v
BY DEF IsTarget, PlanOf, Target, Fields

LEMMA AutomationFields ==
  ASSUME NEW v, NEW w
  PROVE  LET t == AutomationOf(v, w)
         IN /\ IsTarget(t) /\ t.tab = "automation" /\ t.cluster = None /\ t.pane = None
            /\ t.automation = v /\ t.autoTab = w
BY DEF IsTarget, AutomationOf, Target, Fields

LEMMA ActivityFields ==
  ASSUME NEW v, NEW w
  PROVE  LET t == ActivityOf(v, w)
         IN /\ IsTarget(t) /\ t.tab = "activity" /\ t.cluster = None /\ t.pane = None
            /\ t.activityAction = v /\ t.activityHost = w
BY DEF IsTarget, ActivityOf, Target, Fields

LEMMA FleetScreen ==
  ASSUME NEW t, OfFleet(t) PROVE IsTarget(t) /\ t.cluster = None /\ t.pane = None
BY PlainFields, VmsFields, FolderFields, HostsFields, PlanFields, AutomationFields, ActivityFields
   DEF OfFleet

LEMMA ScopeFields ==
  ASSUME NEW id, NEW kind, NEW host
  PROVE  Scope(id, kind, host).id = id /\ Scope(id, kind, host).kind = kind
           /\ Scope(id, kind, host).host = host
BY DEF Scope

LEMMA ResolveFleet ==
  ASSUME NEW r, FleetRoute(r)
  PROVE  OfFleet(Resolve(r)) /\ IsTarget(Resolve(r)) /\ Resolve(r).cluster = None
<1> DEFINE t == Resolve(r)
<1> SUFFICES OfFleet(t)
  BY FleetScreen
<1>11. CASE r = Bare(r.name) /\ r.name \in BareNames
  <2>1. /\ r.kind = None /\ r.host = None /\ r.tab = None /\ r.pane = None /\ r.id = None
    BY <1>11, RouteFields DEF Bare
  <2>2. CASE r.name \in {"gpus", "bookings", "usage"}
    <3>1. t = Target(r.name) /\ r.name \in PlainTabs
      BY <2>2 DEF Resolve, PlainTabs
    <3> QED BY <3>1 DEF OfFleet
  <2>3. CASE r.name = "migrations"
    <3>1. t = Target("forkliftglobal") /\ "forkliftglobal" \in PlainTabs
      BY <2>3 DEF Resolve, PlainTabs
    <3> QED BY <3>1 DEF OfFleet
  <2>4. CASE r.name = "vms"
    <3>1. t = VmsOf(Scope(None, None, None))
      BY <2>1, <2>4 DEF Resolve, VmsOf, None
    <3> QED BY <3>1 DEF OfFleet, VmsScope
  <2>5. CASE r.name = "folders"
    <3>1. t = FolderOf("folders", None)
      BY <2>1, <2>5 DEF Resolve, FolderOf
    <3> QED BY <3>1 DEF OfFleet
  <2>6. CASE r.name = "containers"
    <3>1. t = FolderOf("allcontainers", None)
      BY <2>1, <2>6 DEF Resolve, FolderOf
    <3> QED BY <3>1 DEF OfFleet
  <2>7. CASE r.name = "hosts"
    <3>1. t = HostsOf(None, None)
      BY <2>1, <2>7 DEF Resolve, HostsOf, None
    <3> QED BY <3>1 DEF OfFleet
  <2>8. CASE r.name = "dr"
    <3>1. t = PlanOf(None)
      BY <2>1, <2>8 DEF Resolve, PlanOf, None
    <3> QED BY <3>1 DEF OfFleet
  <2>9. CASE r.name = "activity"
    <3>1. t = ActivityOf(None, NoFilter)
      BY <2>1, <2>9 DEF Resolve, ActivityOf, None
    <3> QED BY <3>1 DEF OfFleet
  <2> QED BY <1>11, <2>2, <2>3, <2>4, <2>5, <2>6, <2>7, <2>8, <2>9 DEF BareNames, Roots
<1>12. CASE r = OfId(r.name, r.id) /\ ValidId(r.id)
            /\ r.name \in {"vms", "containers", "hosts", "folders", "activity"}
  <2>1. r.kind = None /\ r.host = None /\ r.tab = None /\ r.id # None
    BY <1>12, RouteFields, NamesGiven DEF OfId
  <2>2. CASE r.name = "vms"
    <3>1. t = VmsOf(Scope(r.id, None, None))
      BY <2>1, <2>2 DEF Resolve, VmsOf, None
    <3> QED BY <3>1, <1>12, ScopeFields DEF OfFleet, VmsScope
  <2>3. CASE r.name = "containers"
    <3>1. t = FolderOf("allcontainers", r.id)
      BY <2>3 DEF Resolve, FolderOf
    <3> QED BY <3>1, <1>12 DEF OfFleet
  <2>4. CASE r.name = "hosts"
    <3>1. t = HostsOf(None, r.id)
      BY <2>1, <2>4 DEF Resolve, HostsOf, None
    <3> QED BY <3>1, <1>12 DEF OfFleet
  <2>5. CASE r.name = "folders"
    <3>1. t = FolderOf("folders", r.id)
      BY <2>5 DEF Resolve, FolderOf
    <3> QED BY <3>1, <1>12 DEF OfFleet
  <2>6. CASE r.name = "activity"
    <3>1. t = ActivityOf(r.id, NoFilter)
      BY <2>1, <2>6 DEF Resolve, ActivityOf
    <3> QED BY <3>1, <1>12 DEF OfFleet
  <2> QED BY <1>12, <2>2, <2>3, <2>4, <2>5, <2>6
<1>13. CASE r = OfId("dr", r.id) /\ ValidId(r.id) /\ r.id # "links"
  <2>1. r.name = "dr" /\ r.tab = None
    BY <1>13, RouteFields DEF OfId
  <2>2. t = PlanOf(r.id)
    BY <2>1 DEF Resolve, PlanOf, None
  <2> QED BY <2>2, <1>13 DEF OfFleet
<1>14. CASE r = OfHost(r.name, r.kind, None) /\ r.kind \in Kinds /\ r.name \in {"vms", "hosts"}
  <2>1. r.host = None /\ r.tab = None /\ r.id = None
    BY <1>14, RouteFields DEF OfHost
  <2>2. CASE r.name = "hosts"
    <3>1. t = HostsOf(r.kind, None)
      BY <2>1, <2>2 DEF Resolve, HostsOf
    <3> QED BY <3>1, <1>14 DEF OfFleet
  <2>3. CASE r.name = "vms" /\ r.kind = "kvm"
    <3>1. t = Target("kvmvms") /\ "kvmvms" \in PlainTabs
      BY <2>1, <2>3 DEF Resolve, PlainTabs
    <3> QED BY <3>1 DEF OfFleet
  <2>4. CASE r.name = "vms" /\ r.kind # "kvm"
    <3>1. t = VmsOf(Scope(None, "harvester", None))
      BY <1>14, <2>1, <2>4 DEF Resolve, VmsOf, Kinds
    <3> QED BY <3>1 DEF OfFleet, VmsScope
  <2> QED BY <1>14, <2>2, <2>3, <2>4
<1>15. CASE /\ r = OfHost(r.name, r.kind, r.host) /\ r.kind \in Kinds /\ ValidHost(r.host)
            /\ r.name \in {"vms", "activity"}
  <2>1. r.host # None /\ r.id = None
    BY <1>15, RouteFields, NamesGiven DEF OfHost
  <2>2. CASE r.name = "vms"
    <3>1. t = VmsOf(Scope(None, r.kind, r.host))
      BY <2>1, <2>2 DEF Resolve, VmsOf
    <3> QED BY <3>1, <1>15, ScopeFields DEF OfFleet, VmsScope
  <2>3. CASE r.name = "activity"
    <3>1. t = ActivityOf(None, <<r.kind, r.host>>)
      BY <2>1, <2>3 DEF Resolve, ActivityOf
    <3>2. Filter(<<r.kind, r.host>>)
      BY <1>15 DEF Filter
    <3> QED BY <3>1, <3>2 DEF OfFleet
  <2> QED BY <1>15, <2>2, <2>3
<1>16. CASE r = OfTab("hosts", "kvm", r.tab, None) /\ r.tab \in DOMAIN KvmFleet
  <2>1. r.name = "hosts" /\ r.kind = "kvm" /\ r.tab # None
    BY <1>16, RouteFields, WordsGiven DEF OfTab
  <2>2. t = Target(KvmFleet[r.tab]) /\ KvmFleet[r.tab] \in PlainTabs
    BY <1>16, <2>1 DEF Resolve, KvmFleet, PlainTabs
  <2> QED BY <2>2 DEF OfFleet
<1>17. CASE r = OfTab("dr", None, "links", None)
  <2>1. r.name = "dr" /\ r.tab = "links"
    BY <1>17, RouteFields DEF OfTab
  <2>2. t = Target("drlinks") /\ "drlinks" \in PlainTabs
    BY <2>1 DEF Resolve, PlainTabs
  <2> QED BY <2>2 DEF OfFleet
<1>18. CASE /\ r = OfTab("automation", None, r.tab, r.pane) /\ r.tab \in DOMAIN AutomationPanes
            /\ r.pane \in Entries(AutomationPanes[r.tab]) \cup {None}
  <2> DEFINE w == IF r.pane # None THEN r.pane ELSE AutomationPanes[r.tab][1]
  <2>1. r.name = "automation"
    BY <1>18, RouteFields DEF OfTab
  <2>2. t = AutomationOf(r.tab, w)
    BY <2>1 DEF Resolve, AutomationOf
  <2>3. AutomationPanes[r.tab][1] \in Entries(AutomationPanes[r.tab])
    BY <1>18 DEF AutomationPanes, Entries
  <2>4. w \in Entries(AutomationPanes[r.tab])
    BY <1>18, <2>3
  <2> HIDE DEF w
  <2> QED BY <1>18, <2>2, <2>4 DEF OfFleet
<1> QED BY <1>11, <1>12, <1>13, <1>14, <1>15, <1>16, <1>17, <1>18 DEF FleetRoute

-----------------------------------------------------------------------------
(* The screens that are shown                                              *)

(* The tabs that show a cluster: the address of a screen names its cluster *)
(* there, and only there.                                                  *)
NamesCluster(tab) == tab = "overview" \/ tab \in SectionTabs \/ tab \in ClusterTabs
Home(s) == IF NamesCluster(s.tab) THEN s ELSE Anywhere(s)

(* A browser that remembers, for a section, one of its panes, and for the  *)
(* list of actions a host, or none                                         *)
Remembers(t, mem) ==
  /\ t.tab \in SectionTabs => mem.panes[t.tab] \in SectionPanes(t.tab)
  /\ t.tab = "activity" => mem.filter = NoFilter \/ Filter(mem.filter)

LEMMA SameScreen ==
  ASSUME NEW s, NEW t, IsTarget(s), IsTarget(t), \A f \in Fields : s[f] = t[f]
  PROVE  s = t
BY DEF IsTarget

LEMMA AnywhereFields ==
  ASSUME NEW s, IsTarget(s)
  PROVE  /\ IsTarget(Anywhere(s)) /\ Anywhere(s).cluster = None
         /\ \A f \in Fields \ {"cluster"} : Anywhere(s)[f] = s[f]
         /\ s.cluster = None => Anywhere(s) = s
         /\ [Anywhere(s) EXCEPT !.cluster = s.cluster] = s
BY DEF IsTarget, Anywhere, Fields

LEMMA AnywhereNames ==
  ASSUME NEW s, IsTarget(s)
  PROVE  /\ Anywhere(s).tab = s.tab /\ Anywhere(s).kvm = s.kvm /\ Anywhere(s).kvmTab = s.kvmTab
         /\ Anywhere(s).vms = s.vms /\ Anywhere(s).folderId = s.folderId
         /\ Anywhere(s).hostsKind = s.hostsKind /\ Anywhere(s).drPlan = s.drPlan
         /\ Anywhere(s).automation = s.automation /\ Anywhere(s).autoTab = s.autoTab
         /\ Anywhere(s).activityAction = s.activityAction
         /\ Anywhere(s).activityHost = s.activityHost
BY AnywhereFields DEF Fields

LEMMA SectionPanesGiven ==
  ASSUME NEW tab \in SectionTabs PROVE tab # None /\ None \notin SectionPanes(tab)
<1>1. CASE tab \in DOMAIN ImportPanes
  BY <1>1, WordsGiven DEF SectionPanes
<1>2. CASE tab \notin DOMAIN ImportPanes
  <2>1. tab \in DOMAIN HarvesterPanes
    BY <1>2 DEF SectionTabs, HarvesterSections
  <2> QED BY <1>2, <2>1, WordsGiven DEF SectionPanes
<1> QED BY <1>1, <1>2

LEMMA ClusterTabsApart ==
  /\ "overview" \notin SectionTabs /\ "activity" \notin SectionTabs
  /\ \A tab \in ClusterTabs : tab \notin SectionTabs /\ tab # "activity" /\ tab # "overview"
  /\ ~NamesCluster("activity")
BY SectionTabsAre DEF ClusterTabs, NamesCluster

LEMMA TabOfCluster ==
  ASSUME NEW s, NEW none, OfCluster(s, none)
  PROVE  /\ NamesCluster(s.tab) /\ s.tab # "activity" /\ s.cluster # None /\ IsTarget(s)
         /\ s.tab \in SectionTabs => s.pane \in SectionPanes(s.tab) \cup none
         /\ s.tab \notin SectionTabs => s.pane = None
<1>1. s.cluster # None
  BY NamesGiven DEF OfCluster
<1>2. CASE s = Overview(s.cluster, s.overview)
  BY <1>1, <1>2, OverviewFields, ClusterTabsApart DEF NamesCluster
<1>3. CASE s = OnCluster(s.tab, s.cluster, s.pane) /\ s.tab \in SectionTabs
             /\ s.pane \in SectionPanes(s.tab) \cup none
  BY <1>1, <1>3, OnClusterFields, ClusterTabsApart DEF NamesCluster
<1>4. CASE s = OnCluster(s.tab, s.cluster, None) /\ s.tab \in ClusterTabs
  BY <1>1, <1>4, OnClusterFields, ClusterTabsApart DEF NamesCluster
<1> QED BY <1>2, <1>3, <1>4 DEF OfCluster

LEMMA TabElsewhere ==
  ASSUME NEW s, Elsewhere(s)
  PROVE  IsTarget(s) /\ ~NamesCluster(s.tab) /\ s.cluster = None /\ s.pane = None
<1>1. CASE OfKvm(s)
  <2>1. s.tab \in {"kvmvms", "kvmdr", "kvmstorage", "kvmnetworks", "kvmhosts", "kvmparams"}
    BY <1>1 DEF OfKvm
  <2>2. ~NamesCluster(s.tab)
    BY <2>1, SectionTabsAre DEF NamesCluster, ClusterTabs
  <2> QED BY <1>1, <2>2, OnKvmFields DEF OfKvm
<1>2. CASE OfFleet(s)
  <2>1. s.tab \in PlainTabs \cup {"allvms", "folders", "allcontainers", "hosts", "drplans",
                                  "automation", "activity"}
    BY <1>2, PlainFields, VmsFields, FolderFields, HostsFields, PlanFields, AutomationFields,
       ActivityFields DEF OfFleet
  <2>2. ~NamesCluster(s.tab)
    BY <2>1, SectionTabsAre DEF NamesCluster, ClusterTabs, PlainTabs
  <2> QED BY <1>2, <2>2, FleetScreen
<1> QED BY <1>1, <1>2 DEF Elsewhere

LEMMA ScreenOfTarget ==
  ASSUME NEW t, IsTarget(t), NEW mem
  PROVE  LET s == Screen(t, mem)
         IN /\ IsTarget(s) /\ s.tab = t.tab /\ s.kvm = t.kvm
            /\ s.cluster = IF t.cluster # None THEN t.cluster ELSE mem.cluster
            /\ s.pane = IF t.tab \in SectionTabs /\ t.pane = None THEN mem.panes[t.tab] ELSE t.pane
BY DEF IsTarget, Screen, Fields

(* showRoute shows nothing else than what a route says.                    *)
LEMMA ShownOfCluster ==
  ASSUME NEW t, OfCluster(t, {None}), NEW mem, Remembers(t, mem)
  PROVE  OfCluster(Screen(t, mem), {})
<1> DEFINE s == Screen(t, mem)
<1>1. IsTarget(t) /\ t.cluster # None /\ t.tab # "activity" /\ ValidHost(t.cluster)
  BY TabOfCluster DEF OfCluster
<1>2. CASE t.tab \notin SectionTabs
  <2>1. s = t
    BY <1>1, <1>2 DEF IsTarget, Screen
  <2>2. OfCluster(t, {})
    BY <1>2 DEF OfCluster
  <2> QED BY <2>1, <2>2
<1>3. CASE t.tab \in SectionTabs
  <2>1. t = OnCluster(t.tab, t.cluster, t.pane) /\ t.pane \in SectionPanes(t.tab) \cup {None}
    BY <1>3, OverviewFields, OnClusterFields, ClusterTabsApart DEF OfCluster
  <2> DEFINE p == IF t.pane = None THEN mem.panes[t.tab] ELSE t.pane
  <2>2. s = [t EXCEPT !.pane = p]
    BY <1>1, <1>3 DEF IsTarget, Screen
  <2>3. [OnCluster(t.tab, t.cluster, t.pane) EXCEPT !.pane = p] = OnCluster(t.tab, t.cluster, p)
    BY DEF OnCluster, Target
  <2>4. p \in SectionPanes(t.tab)
    BY <1>3, <2>1 DEF Remembers
  <2>5. s = OnCluster(t.tab, t.cluster, p)
    BY <2>1, <2>2, <2>3
  <2> HIDE DEF s, p
  <2>6. s.tab = t.tab /\ s.cluster = t.cluster /\ s.pane = p
    BY <2>5, OnClusterFields
  <2>7. OfCluster(s, {})
    BY <1>1, <1>3, <2>4, <2>5, <2>6 DEF OfCluster
  <2> QED BY <2>7 DEF s
<1> QED BY <1>2, <1>3

LEMMA ShownElsewhere ==
  ASSUME NEW t, Elsewhere(t), NEW mem, Remembers(t, mem)
  PROVE  Elsewhere(Anywhere(Screen(t, mem)))
<1> DEFINE s == Screen(t, mem)
<1>1. IsTarget(t) /\ t.cluster = None /\ t.tab \notin SectionTabs
  BY TabElsewhere DEF NamesCluster
<1>2. CASE ~(t.tab = "activity" /\ t.activityAction = None /\ t.activityHost = NoFilter)
  <2>1. Anywhere(s) = t
    BY <1>1, <1>2 DEF IsTarget, Screen, Anywhere
  <2> QED BY <2>1
<1>3. CASE t.tab = "activity" /\ t.activityAction = None /\ t.activityHost = NoFilter
  <2>1. PICK v, w : t = ActivityOf(v, w)
    BY <1>3, OnKvmFields, PlainFields, VmsFields, FolderFields, HostsFields, PlanFields,
       AutomationFields DEF Elsewhere, OfKvm, OfFleet, PlainTabs
  <2>2. t = ActivityOf(None, NoFilter)
    BY <1>3, <2>1, ActivityFields
  <2>3. s = [[t EXCEPT !.cluster = mem.cluster] EXCEPT !.activityHost = mem.filter]
    BY <1>1, <1>3 DEF IsTarget, Screen
  <2>4. Anywhere(s) = [t EXCEPT !.activityHost = mem.filter]
    BY <1>1, <2>3 DEF IsTarget, Anywhere
  <2>5. [ActivityOf(None, NoFilter) EXCEPT !.activityHost = mem.filter] = ActivityOf(None, mem.filter)
    BY DEF ActivityOf, Target
  <2>6. OfFleet(ActivityOf(None, mem.filter))
    BY <1>3 DEF OfFleet, Remembers
  <2> QED BY <2>2, <2>4, <2>5, <2>6 DEF Elsewhere
<1> QED BY <1>2, <1>3

LEMMA ResolveReadable ==
  ASSUME NEW r, Readable(r)
  PROVE  /\ IsTarget(Resolve(r))
         /\ OfCluster(Resolve(r), {None}) \/ Elsewhere(Resolve(r))
BY ResolveHarvester, ResolveKvm, ResolveFleet DEF Readable, Elsewhere

LEMMA ShownScreen ==
  ASSUME NEW r, Readable(r), NEW mem, Remembers(Resolve(r), mem)
  PROVE  OnScreen(Screen(Resolve(r), mem))
BY ResolveReadable, ShownOfCluster, ShownElsewhere, ScreenOfTarget DEF OnScreen

(* The screen that a route of its own shows: itself, whatever the browser  *)
(* remembers, but for the cluster it does not show.                        *)
LEMMA HomeScreen ==
  ASSUME NEW s, OnScreen(s), NEW mem,
         s.tab = "activity" /\ s.activityAction = None /\ s.activityHost = NoFilter
           => mem.filter = NoFilter
  PROVE  Screen(Home(s), mem) = IF NamesCluster(s.tab) THEN s ELSE [s EXCEPT !.cluster = mem.cluster]
<1>0. IsTarget(s)
  BY DEF OnScreen
<1>1. CASE OfCluster(s, {})
  <2>1. NamesCluster(s.tab) /\ s.tab # "activity" /\ s.cluster # None
        /\ (s.tab \in SectionTabs => s.pane # None)
    BY <1>1, TabOfCluster, SectionPanesGiven
  <2>2. Screen(s, mem) = s
    BY <1>0, <2>1 DEF IsTarget, Screen
  <2> QED BY <2>1, <2>2 DEF Home
<1>2. CASE Elsewhere(Anywhere(s))
  <2>1. ~NamesCluster(s.tab)
    BY <1>0, <1>2, TabElsewhere, AnywhereNames
  <2>2. s.tab \notin SectionTabs
    BY <2>1 DEF NamesCluster
  <2> DEFINE shown == Screen(Anywhere(s), mem)
             there0 == [s EXCEPT !.cluster = mem.cluster]
  <2>3. IsTarget(there0) /\ there0.cluster = mem.cluster
        /\ \A f \in Fields \ {"cluster"} : there0[f] = s[f]
    BY <1>0 DEF IsTarget, Fields
  <2>4. IsTarget(shown) /\ shown.cluster = mem.cluster
        /\ \A f \in Fields \ {"cluster", "activityHost"} : shown[f] = s[f]
    BY <1>0, <2>2 DEF IsTarget, Screen, Anywhere, Fields
  <2>5. shown.activityHost = s.activityHost
    BY <1>0, <2>2 DEF IsTarget, Screen, Anywhere, Fields
  <2>6. shown = there0
    <3> HIDE DEF shown, there0
    <3> QED BY <2>3, <2>4, <2>5, SameScreen DEF Fields
  <2> QED BY <2>1, <2>6 DEF Home
<1> QED BY <1>1, <1>2 DEF OnScreen

LEMMA HostRouteOnly ==
  ASSUME NEW r, Readable(r), r.name = "host", r.kind = "harvester"
  PROVE  HarvesterRoute(r)
<1>1. ~KvmRoute(r)
  BY RouteFields DEF KvmRoute, UnderHost
<1>2. ~FleetRoute(r)
  BY RouteFields DEF FleetRoute, Bare, BareNames, Roots, OfId, OfHost, OfTab
<1> QED BY <1>1, <1>2 DEF Readable

-----------------------------------------------------------------------------
(* The address of a screen                                                 *)

LEMMA UnderHostFields ==
  ASSUME NEW kind, NEW host, NEW sub, NEW tab, NEW pane
  PROVE  LET r == UnderHost(kind, host, sub, tab, pane)
         IN /\ r = UnderHost(r.kind, r.host, r.sub, r.tab, r.pane)
            /\ r.name = "host" /\ r.kind = kind /\ r.host = host /\ r.sub = sub /\ r.tab = tab
            /\ r.pane = pane
BY RouteFields DEF UnderHost

(* What resolve makes of a route under a host                              *)
LEMMA ResolveUnderCluster ==
  ASSUME NEW host, NEW sub, NEW tab, NEW pane
  PROVE  LET t == Resolve(UnderHost("harvester", host, sub, tab, pane))
         IN /\ sub = None => t = Overview(host, "metrics")
            /\ sub = "overview" => t = Overview(host, "events")
            /\ sub = "vms" => t = OnCluster("namespaces", host, None)
            /\ sub = "containers" => t = OnCluster("containers", host, None)
            /\ sub = "dr" => t = OnCluster("clusterdr", host, None)
            /\ sub = "imports" => t = OnCluster(tab, host, pane)
            /\ sub = "params" =>
                 /\ tab = "nodes" => t = Overview(host, "cluster")
                 /\ tab = "power" =>
                      t = OnCluster(IF pane = "shutdown" THEN "shutdown" ELSE "startup", host, None)
                 /\ tab = "upgrade" => t = OnCluster("hupgrade", host, None)
                 /\ tab = "conn" => t = OnCluster("hconn", host, None)
                 /\ tab \notin {"nodes", "power", "upgrade", "conn"} => t = OnCluster(tab, host, pane)
<1> DEFINE r == UnderHost("harvester", host, sub, tab, pane)
<1>1. /\ r.name = "host" /\ r.kind = "harvester" /\ r.host = host /\ r.sub = sub /\ r.tab = tab
      /\ r.pane = pane
  BY UnderHostFields
<1> HIDE DEF r
<1>2. Resolve(r) = HarvesterTarget(r)
  BY <1>1 DEF Resolve
<1>3. /\ sub = None => Resolve(r) = Overview(host, "metrics")
      /\ sub = "overview" => Resolve(r) = Overview(host, "events")
      /\ sub = "vms" => Resolve(r) = OnCluster("namespaces", host, None)
      /\ sub = "containers" => Resolve(r) = OnCluster("containers", host, None)
      /\ sub = "dr" => Resolve(r) = OnCluster("clusterdr", host, None)
      /\ sub = "imports" => Resolve(r) = OnCluster(tab, host, pane)
  BY <1>1, <1>2 DEF HarvesterTarget, None
<1>4. CASE sub = "params"
  <2>1. CASE tab = "nodes"
    BY <1>1, <1>2, <1>3, <1>4, <2>1 DEF HarvesterTarget, None, r
  <2>2. CASE tab = "power"
    BY <1>1, <1>2, <1>3, <1>4, <2>2 DEF HarvesterTarget, None, r
  <2>3. CASE tab = "upgrade"
    BY <1>1, <1>2, <1>3, <1>4, <2>3 DEF HarvesterTarget, None, r
  <2>4. CASE tab = "conn"
    BY <1>1, <1>2, <1>3, <1>4, <2>4 DEF HarvesterTarget, None, r
  <2>5. CASE tab \notin {"nodes", "power", "upgrade", "conn"}
    BY <1>1, <1>2, <1>3, <1>4, <2>5 DEF HarvesterTarget, None, r
  <2> QED BY <2>1, <2>2, <2>3, <2>4, <2>5
<1> QED BY <1>3, <1>4 DEF r

LEMMA ResolveUnderKvm ==
  ASSUME NEW host, NEW sub, NEW tab
  PROVE  LET t == Resolve(UnderHost("kvm", host, sub, tab, None))
         IN /\ sub = None => t = OnKvm("kvmhosts", host, None)
            /\ sub = "vms" => t = OnKvm("kvmvms", host, None)
            /\ sub = "dr" => t = OnKvm("kvmdr", host, None)
            /\ sub = "params" =>
                 /\ tab = "pools" => t = OnKvm("kvmstorage", host, None)
                 /\ tab = "networks" => t = OnKvm("kvmnetworks", host, None)
                 /\ tab \notin {"pools", "networks"} => t = OnKvm("kvmparams", host, tab)
<1> DEFINE r == UnderHost("kvm", host, sub, tab, None)
<1>1. r.name = "host" /\ r.kind = "kvm" /\ r.host = host /\ r.sub = sub /\ r.tab = tab
  BY UnderHostFields
<1> HIDE DEF r
<1>2. Resolve(r) = KvmTarget(r)
  BY <1>1 DEF Resolve
<1>3. /\ sub = None => Resolve(r) = OnKvm("kvmhosts", host, None)
      /\ sub = "vms" => Resolve(r) = OnKvm("kvmvms", host, None)
      /\ sub = "dr" => Resolve(r) = OnKvm("kvmdr", host, None)
  BY <1>1, <1>2 DEF KvmTarget, None
<1>4. sub = "params" =>
        /\ tab = "pools" => Resolve(r) = OnKvm("kvmstorage", host, None)
        /\ tab = "networks" => Resolve(r) = OnKvm("kvmnetworks", host, None)
        /\ tab \notin {"pools", "networks"} => Resolve(r) = OnKvm("kvmparams", host, tab)
  BY <1>1, <1>2 DEF KvmTarget
<1> QED BY <1>3, <1>4 DEF r

LEMMA HashOverview ==
  ASSUME NEW s, OfCluster(s, {}), s.tab = "overview"
  PROVE  \E r : HarvesterRoute(r) /\ ScreenHash(s) = Format(r) /\ Resolve(r) = s
<1>1. ValidHost(s.cluster) /\ s = Overview(s.cluster, s.overview)
      /\ s.overview \in {"metrics", "events", "cluster"}
  BY OnClusterFields, ClusterTabsApart DEF OfCluster
<1> DEFINE R(sub, tab) == UnderHost("harvester", s.cluster, sub, tab, None)
<1>2. CASE s.overview = "metrics"
  <2>1. ScreenHash(s) = Format(R(None, None))
    BY <1>2, SectionTabsAre DEF ScreenHash
  <2>2. HarvesterRoute(R(None, None))
    BY <1>1, UnderHostFields DEF HarvesterRoute
  <2>3. Resolve(R(None, None)) = Overview(s.cluster, "metrics")
    BY ResolveUnderCluster
  <2> QED BY <1>1, <1>2, <2>1, <2>2, <2>3
<1>3. CASE s.overview = "events"
  <2>1. ScreenHash(s) = Format(R("overview", "events"))
    BY <1>3, SectionTabsAre DEF ScreenHash
  <2>2. HarvesterRoute(R("overview", "events"))
    BY <1>1, UnderHostFields DEF HarvesterRoute
  <2>3. Resolve(R("overview", "events")) = Overview(s.cluster, "events")
    BY ResolveUnderCluster
  <2> QED BY <1>1, <1>3, <2>1, <2>2, <2>3
<1>4. CASE s.overview = "cluster"
  <2>1. ScreenHash(s) = Format(R("params", "nodes"))
    BY <1>4, SectionTabsAre DEF ScreenHash
  <2>2. HarvesterRoute(R("params", "nodes"))
    BY <1>1, UnderHostFields DEF HarvesterRoute, PaneOf, HarvesterPanes
  <2>3. Resolve(R("params", "nodes")) = Overview(s.cluster, "cluster")
    BY ResolveUnderCluster
  <2> QED BY <1>1, <1>4, <2>1, <2>2, <2>3
<1> QED BY <1>1, <1>2, <1>3, <1>4

LEMMA HashSection ==
  ASSUME NEW s, OfCluster(s, {}), s.tab \in SectionTabs
  PROVE  \E r : HarvesterRoute(r) /\ ScreenHash(s) = Format(r) /\ Resolve(r) = s
<1>1. /\ ValidHost(s.cluster) /\ s = OnCluster(s.tab, s.cluster, s.pane)
      /\ s.pane \in SectionPanes(s.tab)
  BY OverviewFields, OnClusterFields, ClusterTabsApart DEF OfCluster
<1> DEFINE R(sub) == UnderHost("harvester", s.cluster, sub, s.tab, s.pane)
<1>2. CASE s.tab \in DOMAIN ImportPanes
  <2>1. ScreenHash(s) = Format(R("imports"))
    BY <1>2, SectionTabsAre DEF ScreenHash
  <2>2. HarvesterRoute(R("imports"))
    BY <1>1, <1>2, UnderHostFields DEF HarvesterRoute, PaneOf, SectionPanes
  <2>3. Resolve(R("imports")) = OnCluster(s.tab, s.cluster, s.pane)
    BY ResolveUnderCluster
  <2> QED BY <1>1, <2>1, <2>2, <2>3
<1>3. CASE s.tab \in HarvesterSections
  <2>0. s.tab \notin DOMAIN ImportPanes
    BY <1>3, SectionTabsAre
  <2>1. ScreenHash(s) = Format(R("params"))
    BY <1>3, SectionTabsAre DEF ScreenHash
  <2>2. s.tab \in DOMAIN HarvesterPanes /\ s.tab \notin {"nodes", "power", "upgrade", "conn"}
    BY <1>3 DEF HarvesterSections
  <2>3. HarvesterRoute(R("params"))
    BY <1>1, <2>0, <2>2, UnderHostFields DEF HarvesterRoute, PaneOf, SectionPanes
  <2>4. Resolve(R("params")) = OnCluster(s.tab, s.cluster, s.pane)
    BY <2>2, ResolveUnderCluster
  <2> QED BY <1>1, <2>1, <2>3, <2>4
<1> QED BY <1>2, <1>3 DEF SectionTabs

LEMMA HashClusterTab ==
  ASSUME NEW s, OfCluster(s, {}), s.tab \in ClusterTabs
  PROVE  \E r : HarvesterRoute(r) /\ ScreenHash(s) = Format(r) /\ Resolve(r) = s
<1>1. ValidHost(s.cluster) /\ s = OnCluster(s.tab, s.cluster, None)
  BY OverviewFields, ClusterTabsApart DEF OfCluster
<1> DEFINE R(sub, tab, pane) == UnderHost("harvester", s.cluster, sub, tab, pane)
<1>2. CASE s.tab = "namespaces"
  <2>1. ScreenHash(s) = Format(R("vms", None, None))
    BY <1>2, SectionTabsAre DEF ScreenHash
  <2>2. HarvesterRoute(R("vms", None, None))
    BY <1>1, UnderHostFields DEF HarvesterRoute
  <2>3. Resolve(R("vms", None, None)) = OnCluster("namespaces", s.cluster, None)
    BY ResolveUnderCluster
  <2> QED BY <1>1, <1>2, <2>1, <2>2, <2>3
<1>3. CASE s.tab = "containers"
  <2>1. ScreenHash(s) = Format(R("containers", None, None))
    BY <1>3, SectionTabsAre DEF ScreenHash
  <2>2. HarvesterRoute(R("containers", None, None))
    BY <1>1, UnderHostFields DEF HarvesterRoute
  <2>3. Resolve(R("containers", None, None)) = OnCluster("containers", s.cluster, None)
    BY ResolveUnderCluster
  <2> QED BY <1>1, <1>3, <2>1, <2>2, <2>3
<1>4. CASE s.tab = "clusterdr"
  <2>1. ScreenHash(s) = Format(R("dr", None, None))
    BY <1>4, SectionTabsAre DEF ScreenHash
  <2>2. HarvesterRoute(R("dr", None, None))
    BY <1>1, UnderHostFields DEF HarvesterRoute
  <2>3. Resolve(R("dr", None, None)) = OnCluster("clusterdr", s.cluster, None)
    BY ResolveUnderCluster
  <2> QED BY <1>1, <1>4, <2>1, <2>2, <2>3
<1>5. CASE s.tab \in {"startup", "shutdown"}
  <2>1. ScreenHash(s) = Format(R("params", "power", s.tab))
    BY <1>5, SectionTabsAre DEF ScreenHash
  <2>2. HarvesterRoute(R("params", "power", s.tab))
    BY <1>1, <1>5, UnderHostFields DEF HarvesterRoute, PaneOf, HarvesterPanes
  <2>3. Resolve(R("params", "power", s.tab)) = OnCluster(s.tab, s.cluster, None)
    BY <1>5, ResolveUnderCluster
  <2> QED BY <1>1, <2>1, <2>2, <2>3
<1>6. CASE s.tab = "hupgrade"
  <2>1. ScreenHash(s) = Format(R("params", "upgrade", None))
    BY <1>6, SectionTabsAre DEF ScreenHash
  <2>2. HarvesterRoute(R("params", "upgrade", None))
    BY <1>1, UnderHostFields DEF HarvesterRoute, PaneOf, HarvesterPanes
  <2>3. Resolve(R("params", "upgrade", None)) = OnCluster("hupgrade", s.cluster, None)
    BY ResolveUnderCluster
  <2> QED BY <1>1, <1>6, <2>1, <2>2, <2>3
<1>7. CASE s.tab = "hconn"
  <2>1. ScreenHash(s) = Format(R("params", "conn", None))
    BY <1>7, SectionTabsAre DEF ScreenHash
  <2>2. HarvesterRoute(R("params", "conn", None))
    BY <1>1, UnderHostFields DEF HarvesterRoute, PaneOf, HarvesterPanes
  <2>3. Resolve(R("params", "conn", None)) = OnCluster("hconn", s.cluster, None)
    BY ResolveUnderCluster
  <2> QED BY <1>1, <1>7, <2>1, <2>2, <2>3
<1> QED BY <1>2, <1>3, <1>4, <1>5, <1>6, <1>7 DEF ClusterTabs

LEMMA HashKvm ==
  ASSUME NEW s, IsTarget(s), OfKvm(Anywhere(s))
  PROVE  \E r : KvmRoute(r) /\ ScreenHash(s) = Format(r) /\ Resolve(r) = Anywhere(s)
<1>1. /\ Anywhere(s) = OnKvm(s.tab, s.kvm, s.kvmTab) /\ ValidHost(s.kvm) /\ s.kvm # None
      /\ \/ s.tab \in {"kvmvms", "kvmdr", "kvmstorage", "kvmnetworks", "kvmhosts"} /\ s.kvmTab = None
         \/ s.tab = "kvmparams" /\ s.kvmTab \in KvmParams \ {"pools", "networks"}
  BY AnywhereNames, NamesGiven DEF OfKvm
<1> DEFINE R(sub, tab) == UnderHost("kvm", s.kvm, sub, tab, None)
<1>2. CASE s.tab = "kvmhosts"
  <2>1. ScreenHash(s) = Format(R(None, None))
    BY <1>1, <1>2, SectionTabsAre DEF ScreenHash
  <2>2. KvmRoute(R(None, None))
    BY <1>1, UnderHostFields DEF KvmRoute
  <2>3. Resolve(R(None, None)) = OnKvm("kvmhosts", s.kvm, None)
    BY ResolveUnderKvm
  <2> QED BY <1>1, <1>2, <2>1, <2>2, <2>3
<1>3. CASE s.tab = "kvmvms"
  <2>1. ScreenHash(s) = Format(R("vms", None))
    BY <1>1, <1>3, SectionTabsAre DEF ScreenHash
  <2>2. KvmRoute(R("vms", None))
    BY <1>1, UnderHostFields DEF KvmRoute
  <2>3. Resolve(R("vms", None)) = OnKvm("kvmvms", s.kvm, None)
    BY ResolveUnderKvm
  <2> QED BY <1>1, <1>3, <2>1, <2>2, <2>3
<1>4. CASE s.tab = "kvmdr"
  <2>1. ScreenHash(s) = Format(R("dr", None))
    BY <1>1, <1>4, SectionTabsAre DEF ScreenHash
  <2>2. KvmRoute(R("dr", None))
    BY <1>1, UnderHostFields DEF KvmRoute
  <2>3. Resolve(R("dr", None)) = OnKvm("kvmdr", s.kvm, None)
    BY ResolveUnderKvm
  <2> QED BY <1>1, <1>4, <2>1, <2>2, <2>3
<1>5. CASE s.tab = "kvmstorage"
  <2>1. ScreenHash(s) = Format(R("params", "pools"))
    BY <1>1, <1>5, SectionTabsAre DEF ScreenHash
  <2>2. KvmRoute(R("params", "pools"))
    BY <1>1, UnderHostFields DEF KvmRoute, KvmParams
  <2>3. Resolve(R("params", "pools")) = OnKvm("kvmstorage", s.kvm, None)
    BY ResolveUnderKvm
  <2> QED BY <1>1, <1>5, <2>1, <2>2, <2>3
<1>6. CASE s.tab = "kvmnetworks"
  <2>1. ScreenHash(s) = Format(R("params", "networks"))
    BY <1>1, <1>6, SectionTabsAre DEF ScreenHash
  <2>2. KvmRoute(R("params", "networks"))
    BY <1>1, UnderHostFields DEF KvmRoute, KvmParams
  <2>3. Resolve(R("params", "networks")) = OnKvm("kvmnetworks", s.kvm, None)
    BY ResolveUnderKvm
  <2> QED BY <1>1, <1>6, <2>1, <2>2, <2>3
<1>7. CASE s.tab = "kvmparams"
  <2>1. ScreenHash(s) = Format(R("params", s.kvmTab))
    BY <1>1, <1>7, SectionTabsAre DEF ScreenHash
  <2>2. s.kvmTab \in KvmParams \ {"pools", "networks"}
    BY <1>1, <1>7
  <2>3. KvmRoute(R("params", s.kvmTab))
    BY <1>1, <2>2, UnderHostFields DEF KvmRoute
  <2>4. Resolve(R("params", s.kvmTab)) = OnKvm("kvmparams", s.kvm, s.kvmTab)
    BY <2>2, ResolveUnderKvm
  <2> QED BY <1>1, <1>7, <2>1, <2>3, <2>4
<1> QED BY <1>1, <1>2, <1>3, <1>4, <1>5, <1>6, <1>7

(* What resolve makes of the routes of all hosts, one by one               *)
LEMMA ResolveBare ==
  /\ Resolve(Bare("gpus")) = Target("gpus")
  /\ Resolve(Bare("bookings")) = Target("bookings")
  /\ Resolve(Bare("usage")) = Target("usage")
  /\ Resolve(Bare("migrations")) = Target("forkliftglobal")
  /\ Resolve(Bare("vms")) = VmsOf(Scope(None, None, None))
  /\ Resolve(Bare("folders")) = FolderOf("folders", None)
  /\ Resolve(Bare("containers")) = FolderOf("allcontainers", None)
  /\ Resolve(Bare("hosts")) = HostsOf(None, None)
  /\ Resolve(Bare("dr")) = PlanOf(None)
  /\ Resolve(Bare("activity")) = ActivityOf(None, NoFilter)
<1>1. ASSUME NEW name
      PROVE  LET r == Bare(name)
             IN /\ r.name = name /\ r.kind = None /\ r.host = None /\ r.tab = None /\ r.pane = None
                /\ r.id = None
  BY RouteFields DEF Bare
<1>2. /\ Resolve(Bare("gpus")) = Target("gpus")
      /\ Resolve(Bare("bookings")) = Target("bookings")
      /\ Resolve(Bare("usage")) = Target("usage")
      /\ Resolve(Bare("migrations")) = Target("forkliftglobal")
  BY <1>1 DEF Resolve
<1>3. Resolve(Bare("vms")) = VmsOf(Scope(None, None, None))
  BY <1>1 DEF Resolve, VmsOf, None
<1>4. /\ Resolve(Bare("folders")) = FolderOf("folders", None)
      /\ Resolve(Bare("containers")) = FolderOf("allcontainers", None)
  BY <1>1 DEF Resolve, FolderOf
<1>5. Resolve(Bare("hosts")) = HostsOf(None, None)
  BY <1>1 DEF Resolve, HostsOf, None
<1>6. Resolve(Bare("dr")) = PlanOf(None)
  BY <1>1 DEF Resolve, PlanOf, None
<1>7. ASSUME NEW r, r = Bare("activity") PROVE Resolve(r) = ActivityOf(None, NoFilter)
  <2>1. r.name = "activity" /\ r.host = None /\ r.id = None
    BY <1>1, <1>7
  <2> QED BY <2>1 DEF Resolve, ActivityOf, None
<1> QED BY <1>2, <1>3, <1>4, <1>5, <1>6, <1>7

LEMMA ResolveId ==
  ASSUME NEW id, ValidId(id)
  PROVE  /\ Resolve(OfId("vms", id)) = VmsOf(Scope(id, None, None))
         /\ Resolve(OfId("folders", id)) = FolderOf("folders", id)
         /\ Resolve(OfId("containers", id)) = FolderOf("allcontainers", id)
         /\ Resolve(OfId("hosts", id)) = HostsOf(None, id)
         /\ Resolve(OfId("dr", id)) = PlanOf(id)
         /\ Resolve(OfId("activity", id)) = ActivityOf(id, NoFilter)
<1>0. id # None
  BY NamesGiven
<1>1. ASSUME NEW name
      PROVE  LET r == OfId(name, id)
             IN /\ r.name = name /\ r.kind = None /\ r.host = None /\ r.tab = None /\ r.pane = None
                /\ r.id = id
  BY RouteFields DEF OfId
<1>2. Resolve(OfId("vms", id)) = VmsOf(Scope(id, None, None))
  BY <1>1 DEF Resolve, VmsOf, None
<1>3. /\ Resolve(OfId("folders", id)) = FolderOf("folders", id)
      /\ Resolve(OfId("containers", id)) = FolderOf("allcontainers", id)
  BY <1>1 DEF Resolve, FolderOf
<1>4. Resolve(OfId("hosts", id)) = HostsOf(None, id)
  BY <1>1 DEF Resolve, HostsOf, None
<1>5. Resolve(OfId("dr", id)) = PlanOf(id)
  BY <1>1 DEF Resolve, PlanOf, None
<1>6. ASSUME NEW r, r = OfId("activity", id) PROVE Resolve(r) = ActivityOf(id, NoFilter)
  <2>1. r.name = "activity" /\ r.id = id
    BY <1>1, <1>6
  <2> QED BY <2>1, <1>0 DEF Resolve, ActivityOf
<1> QED BY <1>2, <1>3, <1>4, <1>5, <1>6

LEMMA ResolveOfHost ==
  ASSUME NEW kind \in Kinds
  PROVE  /\ Resolve(OfHost("vms", "kvm", None)) = Target("kvmvms")
         /\ Resolve(OfHost("vms", "harvester", None)) = VmsOf(Scope(None, "harvester", None))
         /\ Resolve(OfHost("hosts", kind, None)) = HostsOf(kind, None)
         /\ \A host : ValidHost(host) =>
              /\ Resolve(OfHost("vms", kind, host)) = VmsOf(Scope(None, kind, host))
              /\ Resolve(OfHost("activity", kind, host)) = ActivityOf(None, <<kind, host>>)
<1>1. ASSUME NEW name, NEW k, NEW host
      PROVE  LET r == OfHost(name, k, host)
             IN /\ r.name = name /\ r.kind = k /\ r.host = host /\ r.tab = None /\ r.pane = None
                /\ r.id = None
  BY RouteFields DEF OfHost
<1>2. /\ Resolve(OfHost("vms", "kvm", None)) = Target("kvmvms")
      /\ Resolve(OfHost("vms", "harvester", None)) = VmsOf(Scope(None, "harvester", None))
  BY <1>1 DEF Resolve, VmsOf
<1>3. ASSUME NEW r, r = OfHost("hosts", kind, None) PROVE Resolve(r) = HostsOf(kind, None)
  <2>1. r.name = "hosts" /\ r.kind = kind /\ r.tab = None /\ r.id = None
    BY <1>1, <1>3
  <2> QED BY <2>1 DEF Resolve, HostsOf
<1>4. ASSUME NEW host, ValidHost(host)
      PROVE  /\ Resolve(OfHost("vms", kind, host)) = VmsOf(Scope(None, kind, host))
             /\ Resolve(OfHost("activity", kind, host)) = ActivityOf(None, <<kind, host>>)
  <2>1. host # None
    BY <1>4, NamesGiven
  <2>2. ASSUME NEW r, r = OfHost("vms", kind, host) PROVE Resolve(r) = VmsOf(Scope(None, kind, host))
    <3>1. r.name = "vms" /\ r.kind = kind /\ r.host = host /\ r.id = None
      BY <1>1, <2>2
    <3> QED BY <2>1, <3>1 DEF Resolve, VmsOf
  <2>3. ASSUME NEW r, r = OfHost("activity", kind, host)
        PROVE  Resolve(r) = ActivityOf(None, <<kind, host>>)
    <3>1. r.name = "activity" /\ r.kind = kind /\ r.host = host /\ r.id = None
      BY <1>1, <2>3
    <3> QED BY <2>1, <3>1 DEF Resolve, ActivityOf
  <2> QED BY <2>2, <2>3
<1> QED BY <1>2, <1>3, <1>4

LEMMA ResolveOfTab ==
  /\ \A tab \in DOMAIN KvmFleet : Resolve(OfTab("hosts", "kvm", tab, None)) = Target(KvmFleet[tab])
  /\ Resolve(OfTab("dr", None, "links", None)) = Target("drlinks")
  /\ \A tab, pane : pane # None =>
       Resolve(OfTab("automation", None, tab, pane)) = AutomationOf(tab, pane)
<1>1. ASSUME NEW name, NEW k, NEW tab, NEW pane
      PROVE  LET r == OfTab(name, k, tab, pane)
             IN r.name = name /\ r.kind = k /\ r.tab = tab /\ r.pane = pane
  BY RouteFields DEF OfTab
<1>2. ASSUME NEW tab \in DOMAIN KvmFleet
      PROVE  Resolve(OfTab("hosts", "kvm", tab, None)) = Target(KvmFleet[tab])
  BY <1>1, WordsGiven DEF Resolve
<1>3. Resolve(OfTab("dr", None, "links", None)) = Target("drlinks")
  BY <1>1 DEF Resolve
<1>4. ASSUME NEW tab, NEW pane, pane # None
      PROVE  Resolve(OfTab("automation", None, tab, pane)) = AutomationOf(tab, pane)
  <2>1. ASSUME NEW r, r = OfTab("automation", None, tab, pane)
        PROVE  Resolve(r) = AutomationOf(tab, pane)
    <3>1. r.name = "automation" /\ r.tab = tab /\ r.pane = pane
      BY <1>1, <2>1
    <3> QED BY <1>4, <3>1 DEF Resolve, AutomationOf
  <2> QED BY <2>1
<1> QED BY <1>2, <1>3, <1>4

(* The screens of all hosts have addresses that open them again.           *)
Opening(s) == Parse(ScreenHash(s)) # Unknown /\ Resolve(Parse(ScreenHash(s))) = Home(s)

LEMMA OpeningBy ==
  ASSUME NEW s, NEW r, Parse(ScreenHash(s)) = r, Resolve(r) = Home(s),
         \E name, kind, host, sub, tab, pane, id : r = Route(name, kind, host, sub, tab, pane, id)
  PROVE  Opening(s)
BY RouteFields DEF Opening

LEMMA HashPlain ==
  ASSUME NEW s, IsTarget(s), NEW tab \in PlainTabs, Anywhere(s) = Target(tab), Home(s) = Anywhere(s)
  PROVE  Opening(s)
<1>1. s.tab = tab /\ s.kvm = None
  BY AnywhereNames, PlainFields
<1>2. CASE tab \in {"gpus", "bookings", "usage"}
  <2>1. ScreenHash(s) = <<tab>> /\ tab \in BareNames
    BY <1>1, <1>2, SectionTabsAre DEF ScreenHash, BareNames, Roots
  <2> QED BY <1>2, <2>1, ParseBare, ResolveBare, OpeningBy DEF Bare
<1>3. CASE tab = "forkliftglobal"
  <2>1. ScreenHash(s) = <<"migrations">> /\ "migrations" \in BareNames
    BY <1>1, <1>3, SectionTabsAre DEF ScreenHash, BareNames, Roots
  <2> QED BY <1>3, <2>1, ParseBare, ResolveBare, OpeningBy DEF Bare
<1>4. CASE tab = "drlinks"
  <2>1. ScreenHash(s) = <<"dr", "links">>
    BY <1>1, <1>4, SectionTabsAre DEF ScreenHash
  <2> QED BY <1>4, <2>1, ParseLinks, ResolveOfTab, OpeningBy DEF OfTab
<1>5. CASE tab = "kvmvms"
  <2>1. ScreenHash(s) = <<"vms", "host", "kvm">>
    BY <1>1, <1>5, SectionTabsAre DEF ScreenHash
  <2> QED BY <1>5, <2>1, ParseFamily, ResolveOfHost, OpeningBy DEF OfHost, Kinds
<1>6. CASE tab \in {"kvmhosts", "kvmstorage", "kvmnetworks"}
  <2>1. PICK family \in DOMAIN KvmFleet :
          KvmFleet[family] = tab /\ ScreenHash(s) = <<"hosts", "kvm", family>>
    <3>1. CASE tab = "kvmhosts"
      <4>1. ScreenHash(s) = <<"hosts", "kvm", "capacity">>
        BY <1>1, <3>1, SectionTabsAre DEF ScreenHash
      <4> QED BY <3>1, <4>1 DEF KvmFleet
    <3>2. CASE tab = "kvmstorage"
      <4>1. ScreenHash(s) = <<"hosts", "kvm", "pools">>
        BY <1>1, <3>2, SectionTabsAre DEF ScreenHash
      <4> QED BY <3>2, <4>1 DEF KvmFleet
    <3>3. CASE tab = "kvmnetworks"
      <4>1. ScreenHash(s) = <<"hosts", "kvm", "networks">>
        BY <1>1, <3>3, SectionTabsAre DEF ScreenHash
      <4> QED BY <3>3, <4>1 DEF KvmFleet
    <3> QED BY <1>6, <3>1, <3>2, <3>3
  <2> QED BY <2>1, ParseFleet, ResolveOfTab, OpeningBy DEF OfTab
<1> QED BY <1>2, <1>3, <1>4, <1>5, <1>6 DEF PlainTabs

LEMMA HashVms ==
  ASSUME NEW s, IsTarget(s), NEW v, VmsScope(v), Anywhere(s) = VmsOf(v), Home(s) = Anywhere(s)
  PROVE  Opening(s)
<1>1. s.tab = "allvms" /\ s.vms = v
  BY AnywhereNames, VmsFields
<1>2. ScreenHash(s) = Format(IF v.kind # None THEN OfHost("vms", v.kind, v.host) ELSE OfId("vms", v.id))
  BY <1>1, SectionTabsAre DEF ScreenHash
<1>3. CASE v = Scope(None, None, None)
  <2>1. v.kind = None /\ v.id = None
    BY <1>3, ScopeFields
  <2>2. ScreenHash(s) = Format(Bare("vms"))
    BY <1>2, <2>1 DEF OfId, Bare
  <2>3. FleetRoute(Bare("vms"))
    BY RouteFields DEF FleetRoute, Bare, BareNames
  <2> QED BY <1>3, <2>2, <2>3, FormatFleet, ResolveBare, OpeningBy DEF Bare
<1>4. CASE v = Scope(v.id, None, None) /\ ValidId(v.id)
  <2>1. v.kind = None
    BY <1>4, ScopeFields
  <2>2. ScreenHash(s) = Format(OfId("vms", v.id))
    BY <1>2, <2>1
  <2>3. FleetRoute(OfId("vms", v.id))
    BY <1>4, RouteFields DEF FleetRoute, OfId
  <2> QED BY <1>4, <2>2, <2>3, FormatFleet, ResolveId, OpeningBy DEF OfId
<1>5. CASE v = Scope(None, v.kind, v.host) /\ v.kind \in Kinds /\ ValidHost(v.host)
  <2>1. v.kind # None
    BY <1>5, WordsGiven
  <2>2. ScreenHash(s) = Format(OfHost("vms", v.kind, v.host))
    BY <1>2, <2>1
  <2>3. FleetRoute(OfHost("vms", v.kind, v.host))
    BY <1>5, RouteFields DEF FleetRoute, OfHost
  <2>4. Resolve(OfHost("vms", v.kind, v.host)) = VmsOf(v)
    BY <1>5, ResolveOfHost
  <2> QED BY <2>2, <2>3, <2>4, FormatFleet, OpeningBy DEF OfHost
<1>6. CASE v = Scope(None, "harvester", None)
  <2>0. "harvester" # None
    BY DEF None
  <2>1. v.kind = "harvester" /\ v.host = None
    BY <1>6, ScopeFields
  <2>2. ScreenHash(s) = Format(OfHost("vms", "harvester", None))
    BY <1>2, <2>0, <2>1
  <2>3. "harvester" \in Kinds
    BY DEF Kinds
  <2>4. FleetRoute(OfHost("vms", "harvester", None))
    BY <2>3, RouteFields DEF FleetRoute, OfHost
  <2> QED BY <1>6, <2>2, <2>3, <2>4, FormatFleet, ResolveOfHost, OpeningBy DEF OfHost
<1> QED BY <1>3, <1>4, <1>5, <1>6 DEF VmsScope

LEMMA HashFolder ==
  ASSUME NEW s, IsTarget(s), NEW tab \in {"folders", "allcontainers"}, NEW v,
         v = None \/ ValidId(v), Anywhere(s) = FolderOf(tab, v), Home(s) = Anywhere(s)
  PROVE  Opening(s)
<1>1. s.tab = tab /\ s.folderId = v
  BY AnywhereNames, FolderFields
<1> DEFINE name == IF tab = "folders" THEN "folders" ELSE "containers"
<1>2. ScreenHash(s) = Format(OfId(name, v))
  <2>1. CASE tab = "folders"
    BY <1>1, <2>1, SectionTabsAre DEF ScreenHash
  <2>2. CASE tab = "allcontainers"
    BY <1>1, <2>2, SectionTabsAre DEF ScreenHash
  <2> QED BY <2>1, <2>2
<1>3. CASE v = None
  <2>1. ScreenHash(s) = Format(Bare(name))
    BY <1>2, <1>3 DEF OfId, Bare
  <2>2. FleetRoute(Bare("folders")) /\ FleetRoute(Bare("containers"))
    BY RouteFields DEF FleetRoute, Bare, BareNames
  <2>3. Parse(ScreenHash(s)) = Bare(name)
    BY <2>1, <2>2, FormatFleet
  <2>4. Resolve(Bare(name)) = Home(s)
    BY <1>3, ResolveBare
  <2> QED BY <2>3, <2>4, OpeningBy DEF Bare
<1>4. CASE ValidId(v)
  <2>1. FleetRoute(OfId("folders", v)) /\ FleetRoute(OfId("containers", v))
    BY <1>4, RouteFields DEF FleetRoute, OfId
  <2>2. Parse(ScreenHash(s)) = OfId(name, v)
    BY <1>2, <2>1, FormatFleet
  <2>3. Resolve(OfId(name, v)) = Home(s)
    BY <1>4, ResolveId
  <2> QED BY <2>2, <2>3, OpeningBy DEF OfId
<1> QED BY <1>3, <1>4

LEMMA HashHosts ==
  ASSUME NEW s, IsTarget(s), NEW kind, NEW v,
         \/ kind \in Kinds \cup {None} /\ v = None
         \/ kind = None /\ ValidId(v),
         Anywhere(s) = HostsOf(kind, v), Home(s) = Anywhere(s)
  PROVE  Opening(s)
<1>1. s.tab = "hosts" /\ s.folderId = v /\ s.hostsKind = kind
  BY AnywhereNames, HostsFields
<1>2. ScreenHash(s) = IF v # None THEN Format(OfId("hosts", v)) ELSE <<"hosts">> \o Given(kind)
  BY <1>1, SectionTabsAre DEF ScreenHash
<1>3. CASE kind = None /\ ValidId(v)
  <2>1. FleetRoute(OfId("hosts", v)) /\ v # None
    BY <1>3, RouteFields, NamesGiven DEF FleetRoute, OfId
  <2>2. Parse(ScreenHash(s)) = OfId("hosts", v)
    BY <1>2, <2>1, FormatFleet
  <2>3. Resolve(OfId("hosts", v)) = Home(s)
    BY <1>3, ResolveId
  <2> QED BY <2>2, <2>3, OpeningBy DEF OfId
<1>4. CASE kind = None /\ v = None
  <2>1. ScreenHash(s) = <<"hosts">>
    BY <1>2, <1>4, NothingAfter DEF Given
  <2>2. Parse(ScreenHash(s)) = Bare("hosts")
    BY <2>1, ParseBare DEF BareNames
  <2>3. Resolve(Bare("hosts")) = Home(s)
    BY <1>4, ResolveBare
  <2> QED BY <2>2, <2>3, OpeningBy DEF Bare
<1>5. CASE kind \in Kinds /\ v = None
  <2>1. ScreenHash(s) = <<"hosts", kind>>
    BY <1>2, <1>5, WordsGiven, GivenWord, Glue2
  <2>2. Parse(ScreenHash(s)) = OfHost("hosts", kind, None)
    BY <1>5, <2>1, ParseFamily
  <2>3. Resolve(OfHost("hosts", kind, None)) = Home(s)
    BY <1>5, ResolveOfHost
  <2> QED BY <2>2, <2>3, OpeningBy DEF OfHost
<1> QED BY <1>3, <1>4, <1>5

LEMMA HashPlan ==
  ASSUME NEW s, IsTarget(s), NEW v, v = None \/ (ValidId(v) /\ v # "links"),
         Anywhere(s) = PlanOf(v), Home(s) = Anywhere(s)
  PROVE  Opening(s)
<1>1. s.tab = "drplans" /\ s.drPlan = v
  BY AnywhereNames, PlanFields
<1>2. ScreenHash(s) = <<"dr">> \o Given(v)
  BY <1>1, SectionTabsAre DEF ScreenHash
<1>3. CASE v = None
  <2>1. ScreenHash(s) = <<"dr">>
    BY <1>2, <1>3, NothingAfter DEF Given
  <2>2. Parse(ScreenHash(s)) = Bare("dr")
    BY <2>1, ParseBare DEF BareNames
  <2>3. Resolve(Bare("dr")) = Home(s)
    BY <1>3, ResolveBare
  <2> QED BY <2>2, <2>3, OpeningBy DEF Bare
<1>4. CASE ValidId(v) /\ v # "links"
  <2>1. ScreenHash(s) = <<"dr", v>>
    BY <1>2, <1>4, NamesGiven, GivenWord, Glue2
  <2>2. Parse(ScreenHash(s)) = OfId("dr", v)
    BY <1>4, <2>1, ParseId
  <2>3. Resolve(OfId("dr", v)) = Home(s)
    BY <1>4, ResolveId
  <2> QED BY <2>2, <2>3, OpeningBy DEF OfId
<1> QED BY <1>3, <1>4

LEMMA HashAutomation ==
  ASSUME NEW s, IsTarget(s), NEW v \in DOMAIN AutomationPanes, NEW w \in Entries(AutomationPanes[v]),
         Anywhere(s) = AutomationOf(v, w), Home(s) = Anywhere(s)
  PROVE  Opening(s)
<1>1. s.tab = "automation" /\ s.automation = v /\ s.autoTab = w
  BY AnywhereNames, AutomationFields
<1>2. w # None
  BY WordsGiven
<1>3. ScreenHash(s) = <<"automation", v>> \o Given(w)
  BY <1>1, SectionTabsAre DEF ScreenHash
<1>4. ScreenHash(s) = <<"automation", v, w>>
  BY <1>2, <1>3, GivenWord, Glue3
<1>5. Parse(ScreenHash(s)) = OfTab("automation", None, v, w)
  BY <1>4, ParseAutomation
<1>6. Resolve(OfTab("automation", None, v, w)) = Home(s)
  BY <1>2, ResolveOfTab
<1> QED BY <1>5, <1>6, OpeningBy DEF OfTab

LEMMA HashActivity ==
  ASSUME NEW s, IsTarget(s), NEW v, NEW w,
         \/ w = NoFilter /\ (v = None \/ ValidId(v))
         \/ v = None /\ Filter(w),
         Anywhere(s) = ActivityOf(v, w), Home(s) = Anywhere(s)
  PROVE  Opening(s)
<1>1. s.tab = "activity" /\ s.activityAction = v /\ s.activityHost = w
  BY AnywhereNames, ActivityFields
<1>2. ScreenHash(s) = Format(IF v # None THEN OfId("activity", v)
                             ELSE IF w = NoFilter THEN Bare("activity")
                             ELSE OfHost("activity", w[1], w[2]))
  BY <1>1, SectionTabsAre DEF ScreenHash
<1>3. CASE w = NoFilter /\ ValidId(v)
  <2>1. FleetRoute(OfId("activity", v)) /\ v # None
    BY <1>3, RouteFields, NamesGiven DEF FleetRoute, OfId
  <2>2. Parse(ScreenHash(s)) = OfId("activity", v)
    BY <1>2, <2>1, FormatFleet
  <2>3. Resolve(OfId("activity", v)) = Home(s)
    BY <1>3, ResolveId
  <2> QED BY <2>2, <2>3, OpeningBy DEF OfId
<1>4. CASE w = NoFilter /\ v = None
  <2>1. FleetRoute(Bare("activity"))
    BY RouteFields DEF FleetRoute, Bare, BareNames
  <2>2. Parse(ScreenHash(s)) = Bare("activity")
    BY <1>2, <1>4, <2>1, FormatFleet
  <2>3. Resolve(Bare("activity")) = Home(s)
    BY <1>4, ResolveBare
  <2> QED BY <2>2, <2>3, OpeningBy DEF Bare
<1>5. CASE v = None /\ Filter(w)
  <2>1. w = <<w[1], w[2]>> /\ w[1] \in Kinds /\ ValidHost(w[2])
    BY <1>5 DEF Filter
  <2>2. w # NoFilter
    BY <2>1 DEF NoFilter
  <2>3. ScreenHash(s) = Format(OfHost("activity", w[1], w[2]))
    BY <1>2, <1>5, <2>2
  <2>4. FleetRoute(OfHost("activity", w[1], w[2]))
    BY <2>1, RouteFields DEF FleetRoute, OfHost
  <2>5. Parse(ScreenHash(s)) = OfHost("activity", w[1], w[2])
    BY <2>3, <2>4, FormatFleet
  <2>6. Resolve(OfHost("activity", w[1], w[2])) = Home(s)
    BY <1>5, <2>1, ResolveOfHost
  <2> QED BY <2>5, <2>6, OpeningBy DEF OfHost
<1> QED BY <1>3, <1>4, <1>5

(* The address the router writes for a screen opens that screen            *)
(* (screenHash, resolve).                                                  *)
LEMMA HashOpens == ASSUME NEW s, OnScreen(s) PROVE Opening(s)
<1>1. IsTarget(s)
  BY DEF OnScreen
<1>2. CASE OfCluster(s, {})
  <2>1. Home(s) = s /\ NamesCluster(s.tab)
    BY <1>2, TabOfCluster DEF Home
  <2>2. s.tab = "overview" \/ s.tab \in SectionTabs \/ s.tab \in ClusterTabs
    BY <2>1 DEF NamesCluster
  <2>3. PICK r : HarvesterRoute(r) /\ ScreenHash(s) = Format(r) /\ Resolve(r) = s
    BY <1>2, <2>2, HashOverview, HashSection, HashClusterTab
  <2>4. Parse(ScreenHash(s)) = r /\ r = UnderHost("harvester", r.host, r.sub, r.tab, r.pane)
    BY <2>3, FormatHarvester DEF HarvesterRoute
  <2> QED BY <2>1, <2>3, <2>4, OpeningBy DEF UnderHost
<1>3. CASE OfKvm(Anywhere(s))
  <2>1. Home(s) = Anywhere(s)
    BY <1>1, <1>3, TabElsewhere, AnywhereNames DEF Home, Elsewhere
  <2>2. PICK r : KvmRoute(r) /\ ScreenHash(s) = Format(r) /\ Resolve(r) = Anywhere(s)
    BY <1>1, <1>3, HashKvm
  <2>3. Parse(ScreenHash(s)) = r /\ r = UnderHost("kvm", r.host, r.sub, r.tab, None)
    BY <2>2, FormatKvm DEF KvmRoute
  <2> QED BY <2>1, <2>2, <2>3, OpeningBy DEF UnderHost
<1>4. CASE OfFleet(Anywhere(s))
  <2>1. Home(s) = Anywhere(s)
    BY <1>1, <1>4, TabElsewhere, AnywhereNames DEF Home, Elsewhere
  <2> QED BY <1>1, <1>4, <2>1, HashPlain, HashVms, HashFolder, HashHosts, HashPlan, HashAutomation,
             HashActivity DEF OfFleet
<1> QED BY <1>2, <1>3, <1>4 DEF OnScreen, Elsewhere

-----------------------------------------------------------------------------
(* An address and the screen it opens                                      *)

LEMMA MemoriesRemember ==
  ASSUME NEW t, NEW mem \in Memories(t) PROVE Remembers(t, mem)
<1>1. PICK c \in Clusters,
           p \in IF t.tab \in SectionTabs THEN SectionPanes(t.tab) ELSE {None},
           f \in IF t.tab = "activity" THEN {NoFilter} \cup ({"kvm"} \X KvmHosts) ELSE {NoFilter} :
        mem = [cluster |-> c, panes |-> [tab \in {t.tab} |-> p], filter |-> f]
  BY DEF Memories
<1>2. mem.panes[t.tab] = p /\ mem.filter = f
  BY <1>1
<1>3. \A h \in KvmHosts : Filter(<<"kvm", h>>)
  BY HostsAssumption DEF Filter, Kinds
<1> QED BY <1>2, <1>3 DEF Remembers

LEMMA ReadableReopens == ASSUME NEW route, Readable(route) PROVE Reopens(route)
<1> DEFINE t == Resolve(route)
           Seen(s) == IF t.cluster = None THEN [s EXCEPT !.cluster = None] ELSE s
<1> SUFFICES ASSUME NEW mem \in Memories(t)
             PROVE  LET s == Screen(t, mem)
                        again == Parse(ScreenHash(s))
                    IN /\ again # Unknown
                       /\ \A later \in Memories(t) :
                            Seen(Screen(Resolve(again), [later EXCEPT !.filter = mem.filter])) = Seen(s)
  BY DEF Reopens
<1> DEFINE s == Screen(t, mem)
<1>1. IsTarget(t) /\ (OfCluster(t, {None}) \/ Elsewhere(t))
  BY ResolveReadable
<1>2. OnScreen(s)
  BY MemoriesRemember, ShownScreen
<1>3. Parse(ScreenHash(s)) # Unknown /\ Resolve(Parse(ScreenHash(s))) = Home(s)
  BY <1>2, HashOpens DEF Opening
<1>4. ASSUME NEW later \in Memories(t)
      PROVE  Seen(Screen(Home(s), [later EXCEPT !.filter = mem.filter])) = Seen(s)
  <2> DEFINE memory == [later EXCEPT !.filter = mem.filter]
  <2>1. memory.filter = mem.filter
    BY DEF Memories
  <2>2. s.tab = t.tab
    BY <1>1, ScreenOfTarget
  <2>3. s.tab = "activity" /\ s.activityAction = None /\ s.activityHost = NoFilter
          => mem.filter = NoFilter
    BY <1>1 DEF IsTarget, Screen, Fields
  <2>4. Screen(Home(s), memory) = IF NamesCluster(s.tab) THEN s
                                  ELSE [s EXCEPT !.cluster = memory.cluster]
    <3> HIDE DEF s, memory
    <3> QED BY <1>2, <2>1, <2>3, HomeScreen
  <2>5. CASE NamesCluster(s.tab)
    BY <2>4, <2>5
  <2>6. CASE ~NamesCluster(s.tab)
    <3>1. t.cluster = None
      BY <1>1, <2>2, <2>6, TabOfCluster, TabElsewhere
    <3>2. IsTarget(s)
      BY <1>1, ScreenOfTarget
    <3>3. [[s EXCEPT !.cluster = memory.cluster] EXCEPT !.cluster = None] = [s EXCEPT !.cluster = None]
      BY <3>2 DEF IsTarget
    <3> QED BY <2>4, <2>6, <3>1, <3>3
  <2> QED BY <2>5, <2>6
<1> QED BY <1>3, <1>4

(* The addresses of the menu of 1.x                                        *)
LEMMA ClusterLegacy ==
  ASSUME NEW addr, IsLegacy(addr), NeedsHost(addr)
  PROVE  \E sub, tab, pane : \A c :
           ValidHost(c) => FromLegacy(addr, c) = UnderHost("harvester", c, sub, tab, pane)
<1> DEFINE rest == HarvesterLegacy[addr[1]]
<1>0. \A c : FromLegacy(addr, c) = Parse(<<"harvester", c>> \o rest)
  BY DEF FromLegacy
<1>1. \/ rest = <<>> \/ rest = <<"vms">> \/ rest = <<"dr">>
      \/ \E pane \in {"startup", "shutdown"} : rest = <<"params", "power", pane>>
      \/ \E tab \in {"vmimport", "forklift"} : rest = <<"imports", tab>>
      \/ \E tab \in HarvesterSections : rest = <<"params", tab>>
  <2>1. addr[1] \in DOMAIN HarvesterLegacy
    BY DEF NeedsHost
  <2>2. addr[1] \in {"overview", "cluster", "namespaces", "clusterdr", "startup", "shutdown",
                     "vmimport", "vmio", "forklift", "storage", "network", "addons", "security",
                     "monlog", "advanced"}
    BY <2>1 DEF HarvesterLegacy
  <2>3. CASE addr[1] \in {"overview", "cluster", "namespaces", "clusterdr"}
    BY <2>3 DEF HarvesterLegacy
  <2>4. CASE addr[1] \in {"startup", "shutdown"}
    BY <2>4 DEF HarvesterLegacy
  <2>5. CASE addr[1] \in {"vmimport", "vmio", "forklift"}
    BY <2>5 DEF HarvesterLegacy
  <2>6. CASE addr[1] \in {"storage", "network", "addons", "security", "monlog", "advanced"}
    BY <2>6, SectionTabsAre DEF HarvesterLegacy
  <2> QED BY <2>2, <2>3, <2>4, <2>5, <2>6
<1> HIDE DEF rest
<1>2. CASE rest = <<>>
  <2>1. \A c : ValidHost(c) => Parse(<<"harvester", c>> \o rest)
                                 = UnderHost("harvester", c, None, None, None)
    BY <1>2, NothingAfter, ParseHost DEF Kinds
  <2> QED BY <1>0, <2>1
<1>3. CASE \E sub \in {"vms", "dr"} : rest = <<sub>>
  <2>1. PICK sub \in {"vms", "dr"} : rest = <<sub>>
    BY <1>3
  <2>2. \A c : ValidHost(c) => Parse(<<"harvester", c>> \o rest)
                                 = UnderHost("harvester", c, sub, None, None)
    BY <2>1, Glue3, ParseHost DEF Kinds
  <2> QED BY <1>0, <2>2
<1>4. CASE \E pane \in {"startup", "shutdown"} : rest = <<"params", "power", pane>>
  <2>1. PICK pane \in {"startup", "shutdown"} : rest = <<"params", "power", pane>>
    BY <1>4
  <2>2. "power" \in DOMAIN HarvesterPanes /\ pane \in HarvesterPanes["power"]
    BY DEF HarvesterPanes
  <2>3. ASSUME NEW c, ValidHost(c)
        PROVE  Parse(<<"harvester", c>> \o rest) = UnderHost("harvester", c, "params", "power", pane)
    <3>1. <<"harvester", c>> \o rest = <<"harvester", c, "params", "power", pane>>
      BY <2>1, GluePairs
    <3>2. Parse(<<"harvester", c, "params", "power", pane>>)
            = UnderHost("harvester", c, "params", "power", pane)
      BY <2>3, <2>2, ParsePane
    <3> QED BY <3>1, <3>2
  <2> QED BY <1>0, <2>3
<1>5. CASE \E tab \in {"vmimport", "forklift"} : rest = <<"imports", tab>>
  <2>1. PICK tab \in {"vmimport", "forklift"} : rest = <<"imports", tab>>
    BY <1>5
  <2>2. ASSUME NEW c, ValidHost(c)
        PROVE  Parse(<<"harvester", c>> \o rest) = UnderHost("harvester", c, "imports", tab, None)
    <3>1. <<"harvester", c>> \o rest = <<"harvester", c, "imports", tab>>
      BY <2>1, GluePairs
    <3>2. Parse(<<"harvester", c, "imports", tab>>) = UnderHost("harvester", c, "imports", tab, None)
      BY <2>2, ParseTab, SectionTabsAre
    <3> QED BY <3>1, <3>2
  <2> QED BY <1>0, <2>2
<1>6. CASE \E tab \in HarvesterSections : rest = <<"params", tab>>
  <2>1. PICK tab \in HarvesterSections : rest = <<"params", tab>>
    BY <1>6
  <2>2. tab \in DOMAIN HarvesterPanes
    BY DEF HarvesterSections
  <2>3. ASSUME NEW c, ValidHost(c)
        PROVE  Parse(<<"harvester", c>> \o rest) = UnderHost("harvester", c, "params", tab, None)
    <3>1. <<"harvester", c>> \o rest = <<"harvester", c, "params", tab>>
      BY <2>1, GluePairs
    <3>2. Parse(<<"harvester", c, "params", tab>>) = UnderHost("harvester", c, "params", tab, None)
      BY <2>3, <2>2, ParseTab
    <3> QED BY <3>1, <3>2
  <2> QED BY <1>0, <2>3
<1> QED BY <1>1, <1>2, <1>3, <1>4, <1>5, <1>6

LEMMA OfAllHostsLegacy ==
  ASSUME NEW addr, IsLegacy(addr), ~NeedsHost(addr), NEW c
  PROVE  FromLegacy(addr, c) = Parse(FleetLegacy[addr[1]]) /\ FromLegacy(addr, c) # Unknown
<1>1. addr[1] \in DOMAIN FleetLegacy
  BY DEF IsLegacy, NeedsHost
<1>2. FromLegacy(addr, c) = Parse(FleetLegacy[addr[1]])
  BY DEF FromLegacy
<1>3. Unknown \notin {Bare("vms"), Bare("containers"), Bare("migrations"), Bare("dr"),
                      OfHost("hosts", "kvm", None), OfHost("vms", "kvm", None),
                      OfTab("hosts", "kvm", "pools", None), OfTab("hosts", "kvm", "networks", None),
                      OfTab("automation", None, "capi", None), OfTab("dr", None, "links", None)}
  BY RouteFields DEF Bare, OfHost, OfTab
<1>4. /\ Parse(<<"vms">>) # Unknown /\ Parse(<<"containers">>) # Unknown
      /\ Parse(<<"migrations">>) # Unknown /\ Parse(<<"dr">>) # Unknown
  BY <1>3, ParseBare DEF BareNames, Roots
<1>5. Parse(<<"hosts", "kvm">>) # Unknown /\ Parse(<<"vms", "host", "kvm">>) # Unknown
  BY <1>3, ParseFamily DEF Kinds
<1>6. Parse(<<"hosts", "kvm", "pools">>) # Unknown /\ Parse(<<"hosts", "kvm", "networks">>) # Unknown
  BY <1>3, ParseFleet DEF KvmFleet
<1>7. Parse(<<"automation", "capi">>) # Unknown /\ Parse(<<"dr", "links">>) # Unknown
  BY <1>3, ParseAutomation, ParseLinks DEF AutomationPanes
<1>8. FleetLegacy[addr[1]] \in {<<"vms">>, <<"containers">>, <<"migrations">>, <<"dr">>,
        <<"hosts", "kvm">>, <<"vms", "host", "kvm">>, <<"hosts", "kvm", "pools">>,
        <<"hosts", "kvm", "networks">>, <<"automation", "capi">>, <<"dr", "links">>}
  BY <1>1 DEF FleetLegacy
<1> QED BY <1>2, <1>4, <1>5, <1>6, <1>7, <1>8

LEMMA LegacyReadable ==
  ASSUME NEW addr, IsLegacy(addr), NEW c, NeedsHost(addr) => ValidHost(c)
  PROVE  FromLegacy(addr, c) # Unknown /\ Readable(FromLegacy(addr, c))
<1>1. FromLegacy(addr, c) # Unknown
  BY ClusterLegacy, OfAllHostsLegacy, RouteFields DEF UnderHost
<1>2. \E a : FromLegacy(addr, c) = Parse(a)
  BY DEF FromLegacy
<1> QED BY <1>1, <1>2, ParseReadable

(* Whatever a person types, an address of the grammar or one of the menu   *)
(* of 1.x, the address the router writes for the screen it opens opens it  *)
(* again (parse, resolve, screenHash).                                     *)
THEOREM EveryAddressReopens ==
  ASSUME NEW addr
  PROVE  /\ Opens(addr) => Reopens(Parse(addr))
         /\ IsLegacy(addr) =>
              \A c \in Clusters : FromLegacy(addr, c) # Unknown /\ Reopens(FromLegacy(addr, c))
BY ParseReadable, ReadableReopens, LegacyReadable, HostsAssumption DEF Opens

(* A reload gives the exact screen back, for every address that is typed,  *)
(* of any length and over any words, and every cluster.                    *)
THEOREM ReloadGivesTheScreen == Spec => []ReloadKeepsScreen
<1>1. ReloadKeepsScreen
  BY EveryAddressReopens DEF ReloadKeepsScreen, Typed
<1> QED BY <1>1, PTL

-----------------------------------------------------------------------------
(* A navigation and the screen it shows                                    *)

(* Agrees and Reopened, of a screen and of what the browser remembers      *)
AgreesWith(r, s) ==
  LET t == Resolve(r)
  IN Names(t) = Names(s) /\ (t.cluster # None => t.cluster = s.cluster)
ReopenedAs(addr, s, remembered) ==
  Screen(Resolve(Parse(addr)), [cluster |-> s.cluster, panes |-> remembered, filter |-> NoFilter])
GoodPanes(remembered) ==
  /\ DOMAIN remembered = SectionTabs
  /\ \A tab \in SectionTabs : remembered[tab] \in SectionPanes(tab)
AfterShow(t, remembered) == IF t.pane # None THEN [remembered EXCEPT ![t.tab] = t.pane] ELSE remembered

LEMMA AgreesIs == ASSUME NEW r PROVE Agrees(r) <=> AgreesWith(r, screen)
BY DEF Agrees, AgreesWith

LEMMA ReopenedIs == ASSUME NEW addr PROVE Reopened(addr) = ReopenedAs(addr, screen, panes)
BY DEF Reopened, ReopenedAs

LEMMA PaneOfTarget ==
  ASSUME NEW r, Readable(r), Resolve(r).pane # None
  PROVE  Resolve(r).tab \in SectionTabs /\ Resolve(r).pane \in SectionPanes(Resolve(r).tab)
BY ResolveReadable, TabOfCluster, TabElsewhere

LEMMA PanesAfterShow ==
  ASSUME NEW r, Readable(r), NEW remembered, GoodPanes(remembered)
  PROVE  GoodPanes(AfterShow(Resolve(r), remembered))
<1> DEFINE t == Resolve(r)
<1>1. CASE t.pane = None
  BY <1>1 DEF AfterShow
<1>2. CASE t.pane # None
  <2>1. t.tab \in SectionTabs /\ t.pane \in SectionPanes(t.tab)
    BY <1>2, PaneOfTarget
  <2> HIDE DEF t
  <2>2. GoodPanes(AfterShow(t, remembered))
    BY <1>2, <2>1 DEF AfterShow, GoodPanes
  <2> QED BY <2>2 DEF t
<1> QED BY <1>1, <1>2

(* What showRoute shows for a route                                        *)
LEMMA Shows ==
  ASSUME NEW r, Readable(r), NEW cluster, NEW remembered, GoodPanes(remembered)
  PROVE  LET t == Resolve(r)
             s == Screen(t, [cluster |-> cluster, panes |-> remembered, filter |-> NoFilter])
             after == AfterShow(t, remembered)
         IN /\ OnScreen(s) /\ AgreesWith(r, s)
            /\ Screen(t, [cluster |-> s.cluster, panes |-> after, filter |-> NoFilter]) = s
<1> DEFINE t == Resolve(r)
           mem == [cluster |-> cluster, panes |-> remembered, filter |-> NoFilter]
           s == Screen(t, mem)
           after == AfterShow(t, remembered)
           later == [cluster |-> s.cluster, panes |-> after, filter |-> NoFilter]
<1>0. /\ mem.cluster = cluster /\ mem.panes = remembered /\ mem.filter = NoFilter
      /\ later.cluster = s.cluster /\ later.panes = after /\ later.filter = NoFilter
  OBVIOUS
<1> HIDE DEF mem, later
<1>1. IsTarget(t)
  BY ResolveReadable
<1>2. Remembers(t, mem)
  BY <1>0 DEF Remembers, GoodPanes
<1>3. OnScreen(s)
  BY <1>2, ShownScreen
<1>4. /\ IsTarget(s) /\ s.tab = t.tab /\ s.kvm = t.kvm
      /\ s.cluster = IF t.cluster # None THEN t.cluster ELSE cluster
      /\ s.pane = IF t.tab \in SectionTabs /\ t.pane = None THEN remembered[t.tab] ELSE t.pane
  BY <1>0, <1>1, ScreenOfTarget
<1>5. AgreesWith(r, s)
  BY <1>4 DEF AgreesWith, Names
<1>6. t.pane # None => t.tab \in SectionTabs
  BY PaneOfTarget
<1>7. t.tab \in SectionTabs => after[t.tab] = IF t.pane = None THEN remembered[t.tab] ELSE t.pane
  <2> HIDE DEF t
  <2> QED BY DEF AfterShow, GoodPanes
<1>9. Screen(t, later) = s
  <2>2. Screen(t, later).cluster = s.cluster
    BY <1>0, <1>1, <1>4, ScreenOfTarget
  <2>3. Screen(t, later).pane = s.pane
    <3> HIDE DEF s, after, t
    <3> QED BY <1>0, <1>1, <1>4, <1>7, ScreenOfTarget
  <2>4. Screen(t, later).activityHost = s.activityHost
    <3> HIDE DEF t
    <3> QED BY <1>0, <1>1 DEF Screen, IsTarget, Fields
  <2>5. \A f \in Fields \ {"cluster", "pane", "activityHost"} :
          Screen(t, later)[f] = t[f] /\ s[f] = t[f]
    <3> HIDE DEF t
    <3> QED BY <1>1 DEF Screen, IsTarget, Fields
  <2>6. IsTarget(Screen(t, later))
    BY <1>1, ScreenOfTarget
  <2> HIDE DEF s, t, after
  <2> QED BY <1>4, <2>2, <2>3, <2>4, <2>5, <2>6, SameScreen DEF Fields
<1> QED BY <1>3, <1>5, <1>9 DEF mem, later

(* The address written for a screen                                        *)
LEMMA Rewritten ==
  ASSUME NEW s, OnScreen(s), NEW remembered
  PROVE  LET addr == ScreenHash(s)
         IN /\ Parse(addr) # Unknown /\ AgreesWith(Parse(addr), s)
            /\ ReopenedAs(addr, s, remembered) = s
<1> DEFINE addr == ScreenHash(s)
           mem == [cluster |-> s.cluster, panes |-> remembered, filter |-> NoFilter]
<1>1. Parse(addr) # Unknown /\ Resolve(Parse(addr)) = Home(s)
  BY HashOpens DEF Opening
<1>2. IsTarget(s)
  BY DEF OnScreen
<1>3. Names(Home(s)) = Names(s) /\ (Home(s).cluster # None => Home(s).cluster = s.cluster)
  BY <1>2, AnywhereFields, AnywhereNames DEF Home, Names
<1>4. AgreesWith(Parse(addr), s)
  BY <1>1, <1>3 DEF AgreesWith
<1>5. mem.cluster = s.cluster /\ mem.filter = NoFilter
  OBVIOUS
<1>6. [s EXCEPT !.cluster = s.cluster] = s
  BY <1>2 DEF IsTarget
<1>7. Screen(Home(s), mem) = s
  <2> HIDE DEF mem
  <2> QED BY <1>5, <1>6, HomeScreen
<1> QED BY <1>1, <1>4, <1>7 DEF ReopenedAs

(* An address of the menu of 1.x says the same as the route it opened.     *)
LEMMA LegacyNames ==
  ASSUME NEW addr, IsLegacy(addr), NEW c, NeedsHost(addr) => ValidHost(c),
         NEW s, AgreesWith(FromLegacy(addr, c), s)
  PROVE  Names(Resolve(FromLegacy(addr, s.cluster))) = Names(s)
<1>1. CASE NeedsHost(addr)
  <2>1. PICK sub, tab, pane : FromLegacy(addr, c) = UnderHost("harvester", c, sub, tab, pane)
    BY <1>1, ClusterLegacy
  <2>2. FromLegacy(addr, c).kind = "harvester" /\ FromLegacy(addr, c).host = c
        /\ FromLegacy(addr, c).name = "host"
    BY <2>1, UnderHostFields
  <2>3. Readable(FromLegacy(addr, c))
    BY <1>1, LegacyReadable
  <2>4. HarvesterRoute(FromLegacy(addr, c))
    BY <2>2, <2>3, HostRouteOnly
  <2>5. Resolve(FromLegacy(addr, c)).cluster = c /\ c # None
    BY <1>1, <2>2, <2>4, ResolveHarvester, NamesGiven
  <2> QED BY <2>5 DEF AgreesWith
<1>2. CASE ~NeedsHost(addr)
  BY <1>2, OfAllHostsLegacy DEF AgreesWith
<1> QED BY <1>1, <1>2

-----------------------------------------------------------------------------
(* The navigations that wait                                               *)

IsSeq(q) == \E S : q \in Seq(S)
Last(q) == q[Len(q)]

LEMMA Appended ==
  ASSUME NEW q, IsSeq(q), NEW e
  PROVE  IsSeq(Append(q, e)) /\ Append(q, e) # <<>> /\ Last(Append(q, e)) = e
<1>1. PICK S : q \in Seq(S)
  BY DEF IsSeq
<1>2. q \in Seq(S \cup {e})
  BY <1>1
<1>3. Append(q, e) \in Seq(S \cup {e}) /\ Len(Append(q, e)) = Len(q) + 1 /\ Len(q) \in Nat
  BY <1>2
<1>4. Append(q, e)[Len(q) + 1] = e
  BY <1>2
<1> QED BY <1>3, <1>4 DEF IsSeq, Last

LEMMA Dequeued ==
  ASSUME NEW q, IsSeq(q), q # <<>>
  PROVE  /\ IsSeq(Tail(q))
         /\ Tail(q) # <<>> => Last(Tail(q)) = Last(q)
         /\ Tail(q) = <<>> => Head(q) = Last(q)
<1>1. PICK S : q \in Seq(S)
  BY DEF IsSeq
<1>2. Tail(q) \in Seq(S) /\ Len(Tail(q)) = Len(q) - 1 /\ Len(q) \in Nat /\ Len(q) > 0
  BY <1>1
<1>3. \A i \in 1..Len(q) - 1 : Tail(q)[i] = q[i + 1]
  BY <1>1, <1>2
<1>4. Tail(q) # <<>> => Last(Tail(q)) = Last(q)
  BY <1>2, <1>3 DEF Last
<1>5. Tail(q) = <<>> => Head(q) = Last(q)
  BY <1>1, <1>2 DEF Last
<1> QED BY <1>2, <1>4, <1>5 DEF IsSeq

LEMMA OneInQueue == ASSUME NEW e PROVE IsSeq(<<e>>) /\ <<e>> # <<>> /\ Last(<<e>>) = e
<1>1. <<e>> \in Seq({e})
  OBVIOUS
<1> QED BY <1>1 DEF IsSeq, Last

-----------------------------------------------------------------------------
(* The invariant.  Two clicks can only be told apart by what waits, so it  *)
(* says for each stage of a navigation what will be true when it ends: of  *)
(* the last of the queue, of the one that waits for the list of hosts, of  *)
(* the one whose cluster loads behind the veil, and of the screen at rest. *)

(* What a navigation to addr opens: the address, an address of 1.x of some *)
(* cluster, or the index or the default screen it was sent back to.        *)
FromAsked(o, addr) ==
  \/ /\ ~o.rewrite /\ Parse(o.to) = o.route /\ o.route # Unknown
     /\ o.route \in Refused \/ o.to = addr
  \/ /\ o.rewrite /\ Parse(addr) = Unknown /\ IsLegacy(addr)
     /\ \E c : (NeedsHost(addr) => c \in Clusters) /\ o.route = FromLegacy(addr, c)

(* The route r shown on s answers what was asked.                          *)
AnswersTo(r, addr, s) ==
  \/ r \in Refused
  \/ Parse(addr) # Unknown /\ AgreesWith(Parse(addr), s)
  \/ /\ Parse(addr) = Unknown /\ IsLegacy(addr)
     /\ Names(Resolve(FromLegacy(addr, s.cluster))) = Names(s)

StateInv ==
  /\ known \subseteq Clusters /\ events \in Nat /\ IsSeq(queue) /\ GoodPanes(panes)
  /\ screen = Blank \/ OnScreen(screen)

JobInv(j) ==
  /\ j.at \in {"hosts", "load"} /\ FromAsked(j.reading, j.addr)
  /\ queue = <<>> => j.addr = asked
  /\ j.at = "load" => OnScreen(screen) /\ AgreesWith(j.reading.route, screen)
JobsInv == (\A j, k \in jobs : j = k) /\ \A j \in jobs : JobInv(j)

AskedInv ==
  /\ queue # <<>> => Last(queue) = asked
  /\ jobs = {} /\ queue = <<>> => AgreesWith(current, screen) /\ AnswersTo(current, asked, screen)

SameAddress == ReopenedAs(bar, screen, panes) = screen
JobBar(j) == queue = <<>> => \/ j.at = "hosts" /\ j.addr = bar
                             \/ j.at = "load" /\ (j.reading.rewrite \/ SameAddress)
BarInv ==
  events = 0 /\ drift = None =>
    /\ queue # <<>> => Last(queue) = bar
    /\ \A j \in jobs : JobBar(j)
    /\ jobs = {} /\ queue = <<>> => SameAddress

Inv == StateInv /\ JobsInv /\ AskedInv /\ BarInv

(* What apply asks for is what it was asked.                               *)
LEMMA IndexFrom == ASSUME NEW addr PROVE FromAsked(HostsIndex, addr) /\ FromAsked(DefaultScreen, addr)
<1>1. HostsIndex.route = Bare("hosts") /\ HostsIndex.to = <<"hosts">> /\ ~HostsIndex.rewrite
  BY DEF HostsIndex
<1>2. DefaultScreen.route = Bare("vms") /\ DefaultScreen.to = <<"vms">> /\ ~DefaultScreen.rewrite
  BY DEF DefaultScreen, DefaultHash
<1>3. Parse(<<"hosts">>) = Bare("hosts") /\ Parse(<<"vms">>) = Bare("vms")
  BY ParseBare DEF BareNames
<1>4. Bare("hosts") # Unknown /\ Bare("vms") # Unknown
  BY RouteFields DEF Bare
<1> QED BY <1>1, <1>2, <1>3, <1>4 DEF FromAsked, Refused

LEMMA LastClusterSeen ==
  ASSUME known \subseteq Clusters, known # {} PROVE LastCluster \in Clusters
<1>1. FirstOf(known) \in known
  BY DEF FirstOf
<1> QED BY <1>1 DEF LastCluster

LEMMA ReadingFrom ==
  ASSUME known \subseteq Clusters, NEW addr
  PROVE  FromAsked(Reading(IF addr = <<>> THEN DefaultHash ELSE addr), addr)
<1>1. CASE addr = <<>>
  <2>1. Parse(DefaultHash) = Bare("vms") /\ Bare("vms") # Unknown
    BY ParseBare, RouteFields DEF DefaultHash, BareNames, Bare
  <2>2. Reading(DefaultHash) = DefaultScreen
    BY <2>1 DEF Reading, DefaultScreen
  <2> QED BY <1>1, <2>2, IndexFrom
<1>2. CASE addr # <<>>
  <2> DEFINE o == Reading(addr)
  <2>1. CASE Parse(addr) # Unknown
    <3>1. o = [route |-> Parse(addr), to |-> addr, rewrite |-> FALSE]
      BY <2>1 DEF Reading
    <3> QED BY <1>2, <2>1, <3>1 DEF FromAsked
  <2>2. CASE Parse(addr) = Unknown /\ ~IsLegacy(addr)
    <3>1. o = DefaultScreen
      BY <2>2 DEF Reading
    <3> QED BY <1>2, <3>1, IndexFrom
  <2>3. CASE Parse(addr) = Unknown /\ IsLegacy(addr) /\ NeedsHost(addr) /\ known = {}
    <3>1. o = HostsIndex
      BY <2>3 DEF Reading
    <3> QED BY <1>2, <3>1, IndexFrom
  <2>4. CASE Parse(addr) = Unknown /\ IsLegacy(addr) /\ ~(NeedsHost(addr) /\ known = {})
    <3>1. o = [route |-> FromLegacy(addr, LastCluster), to |-> addr, rewrite |-> TRUE]
      BY <2>4 DEF Reading
    <3>2. NeedsHost(addr) => LastCluster \in Clusters
      BY <2>4, LastClusterSeen
    <3>3. o.route = FromLegacy(addr, LastCluster) /\ o.rewrite
      BY <3>1
    <3> HIDE DEF o
    <3>4. FromAsked(o, addr)
      BY <2>4, <3>2, <3>3 DEF FromAsked
    <3> QED BY <1>2, <3>4 DEF o
  <2> QED BY <2>1, <2>2, <2>3, <2>4
<1> QED BY <1>1, <1>2

LEMMA FromAskedReadable ==
  ASSUME NEW o, NEW addr, FromAsked(o, addr) PROVE Readable(o.route)
<1>1. CASE Parse(o.to) = o.route /\ o.route # Unknown
  BY <1>1, ParseReadable
<1>2. CASE IsLegacy(addr) /\ \E c : (NeedsHost(addr) => c \in Clusters) /\ o.route = FromLegacy(addr, c)
  BY <1>2, LegacyReadable, HostsAssumption
<1> QED BY <1>1, <1>2 DEF FromAsked

(* A navigation that has ended: the menus follow the screen, and the       *)
(* screen is the one that was asked.                                       *)
LEMMA Ended ==
  ASSUME NEW o, NEW addr, FromAsked(o, addr), NEW s, OnScreen(s), AgreesWith(o.route, s),
         NEW r, r = IF o.rewrite THEN Parse(ScreenHash(s)) ELSE o.route
  PROVE  AgreesWith(r, s) /\ AnswersTo(r, addr, s)
<1>1. CASE ~o.rewrite
  BY <1>1 DEF FromAsked, AnswersTo
<1>2. CASE o.rewrite
  <2>1. PICK c : (NeedsHost(addr) => c \in Clusters) /\ o.route = FromLegacy(addr, c)
    BY <1>2 DEF FromAsked
  <2>2. Parse(addr) = Unknown /\ IsLegacy(addr)
    BY <1>2 DEF FromAsked
  <2>3. Names(Resolve(FromLegacy(addr, s.cluster))) = Names(s)
    BY <2>1, <2>2, LegacyNames, HostsAssumption
  <2> QED BY <1>2, <2>2, <2>3, Rewritten DEF AnswersTo
<1> QED BY <1>1, <1>2

-----------------------------------------------------------------------------
(* Each step keeps the invariant                                           *)

LEMMA FirstPanesGood == GoodPanes(FirstPanes)
<1>1. DOMAIN FirstPanes = SectionTabs
  BY SectionTabsAre DEF FirstPanes
<1>2. \A tab \in SectionTabs : FirstPanes[tab] \in SectionPanes(tab)
  BY SectionTabsAre DEF FirstPanes, SectionPanes, ImportPanes, HarvesterPanes
<1> QED BY <1>1, <1>2 DEF GoodPanes

LEMMA InitInv == Init => Inv
<1> SUFFICES ASSUME Init PROVE Inv
  OBVIOUS
<1>1. StateInv
  BY FirstPanesGood, OneInQueue DEF Init, StateInv
<1>2. JobsInv
  BY DEF Init, JobsInv
<1>3. AskedInv
  BY OneInQueue DEF Init, AskedInv
<1>4. BarInv
  BY OneInQueue DEF Init, BarInv
<1> QED BY <1>1, <1>2, <1>3, <1>4 DEF Inv

(* showRoute and the end of apply: of a navigation that begins as of one   *)
(* that waited for the list of hosts                                       *)
LEMMA ShowStep ==
  ASSUME Inv, NEW job, NEW o, FromAsked(o, job.addr), jobs \subseteq {job},
         Show(job, o, queue'), IsSeq(queue'), UNCHANGED <<events, known, asked>>,
         queue' # <<>> => Last(queue') = asked,
         queue' = <<>> => job.addr = asked,
         events = 0 /\ drift = None => IF queue' # <<>> THEN Last(queue') = bar ELSE job.addr = bar
  PROVE  Inv'
<1> DEFINE t == Resolve(o.route)
           mine == IF screen.cluster # None THEN screen.cluster
                   ELSE IF known # {} THEN LastCluster ELSE None
           shown == Screen(t, [cluster |-> mine, panes |-> panes, filter |-> NoFilter])
           waits == shown.cluster # screen.cluster /\ screen.cluster # None
           final == IF o.rewrite THEN ScreenHash(shown) ELSE o.to
           written == job.addr = <<>> \/ o.to # job.addr \/ o.rewrite
           loading == [addr |-> job.addr, at |-> "load", reading |-> o]
<1>1. Readable(o.route) /\ GoodPanes(panes)
  BY FromAskedReadable DEF Inv, StateInv
<1>2. Shown(t) = shown
  BY DEF Shown
<1>3. /\ screen' = shown /\ panes' = AfterShow(t, panes)
      /\ jobs' = IF waits THEN {loading} ELSE {}
      /\ current' = IF waits THEN current ELSE IF o.rewrite THEN Parse(final) ELSE o.route
      /\ IF written /\ ~(waits /\ o.rewrite)
         THEN bar' = final /\ drift' = IF queue' # <<>> THEN "overtaken" ELSE drift
         ELSE bar' = bar /\ drift' = drift
  BY <1>2 DEF Show, AfterShow
<1>4. /\ OnScreen(shown) /\ AgreesWith(o.route, shown)
      /\ Screen(t, [cluster |-> shown.cluster, panes |-> AfterShow(t, panes), filter |-> NoFilter]) = shown
  BY <1>1, Shows
<1>5. GoodPanes(AfterShow(t, panes))
  BY <1>1, PanesAfterShow
<1>6. ~o.rewrite => ReopenedAs(o.to, shown, AfterShow(t, panes)) = shown
  BY <1>4 DEF ReopenedAs, FromAsked
<1>7. o.rewrite => ReopenedAs(ScreenHash(shown), shown, AfterShow(t, panes)) = shown
  BY <1>4, Rewritten
<1>8. loading.addr = job.addr /\ loading.at = "load" /\ loading.reading = o
  OBVIOUS
<1> HIDE DEF shown, waits, final, written, loading, t, mine
<1>11. StateInv'
  BY <1>3, <1>4, <1>5 DEF Inv, StateInv
<1>12. JobsInv'
  BY <1>3, <1>4, <1>8 DEF JobsInv, JobInv
<1>13. AskedInv'
  <2>1. CASE waits
    BY <1>3, <2>1 DEF AskedInv
  <2>2. CASE ~waits
    <3>1. AgreesWith(current', shown) /\ AnswersTo(current', job.addr, shown)
      BY <1>3, <1>4, <2>2, Ended DEF final
    <3> QED BY <1>3, <3>1 DEF AskedInv
  <2> QED BY <2>1, <2>2
<1>14. BarInv'
  <2> SUFFICES ASSUME events = 0, drift' = None
               PROVE  /\ queue' # <<>> => Last(queue') = bar'
                      /\ \A j \in jobs' : JobBar(j)'
                      /\ jobs' = {} /\ queue' = <<>> => SameAddress'
    BY DEF BarInv
  <2>1. drift = None
    BY <1>3 DEF None
  <2>2. CASE queue' # <<>>
    <3>1. bar' = bar
      BY <1>3, <2>2 DEF None
    <3> QED BY <2>1, <2>2, <3>1 DEF JobBar
  <2>3. CASE queue' = <<>> /\ waits /\ o.rewrite
    BY <1>3, <1>8, <2>3 DEF JobBar
  <2>4. CASE queue' = <<>> /\ ~(waits /\ o.rewrite)
    <3>1. CASE written
      <4>1. bar' = final
        BY <1>3, <2>4, <3>1
      <4>2. SameAddress'
        BY <1>3, <1>6, <1>7, <4>1 DEF SameAddress, final
      <4> QED BY <1>3, <1>8, <2>4, <4>2 DEF JobBar
    <3>2. CASE ~written
      <4>1. bar' = o.to /\ ~o.rewrite
        BY <1>3, <2>1, <2>4, <3>2 DEF written
      <4>2. SameAddress'
        BY <1>3, <1>6, <4>1 DEF SameAddress
      <4> QED BY <1>3, <1>8, <2>4, <4>2 DEF JobBar
    <3> QED BY <3>1, <3>2
  <2> QED BY <2>2, <2>3, <2>4
<1> QED BY <1>11, <1>12, <1>13, <1>14 DEF Inv

LEMMA BeginInv == ASSUME Inv, Begin PROVE Inv'
<1> DEFINE addr == Head(queue)
           o == Reading(IF addr = <<>> THEN DefaultHash ELSE addr)
           job == [addr |-> addr, at |-> "hosts", reading |-> o]
<1>1. /\ jobs = {} /\ queue # <<>> /\ queue' = Tail(queue)
      /\ UNCHANGED <<events, known, answered, there, asked>>
      /\ \/ Show(job, o, queue')
         \/ jobs' = {job} /\ UNCHANGED <<bar, screen, panes, saved, current, drift>>
  BY DEF Begin, MayBegin
<1>2. IsSeq(queue) /\ known \subseteq Clusters
  BY DEF Inv, StateInv
<1>3. /\ IsSeq(queue')
      /\ queue' # <<>> => Last(queue') = Last(queue)
      /\ queue' = <<>> => addr = Last(queue)
  BY <1>1, <1>2, Dequeued
<1>4. FromAsked(o, addr)
  BY <1>2, ReadingFrom
<1>5. job.addr = addr /\ job.at = "hosts" /\ job.reading = o
  OBVIOUS
<1>6. Last(queue) = asked /\ (events = 0 /\ drift = None => Last(queue) = bar)
  BY <1>1 DEF Inv, AskedInv, BarInv
<1> HIDE DEF addr, o, job
<1>7. CASE Show(job, o, queue')
  BY <1>1, <1>3, <1>4, <1>5, <1>6, <1>7, ShowStep
<1>8. CASE jobs' = {job} /\ UNCHANGED <<bar, screen, panes, saved, current, drift>>
  <2>1. StateInv'
    BY <1>1, <1>3, <1>8 DEF Inv, StateInv
  <2>2. JobsInv'
    BY <1>1, <1>3, <1>4, <1>5, <1>6, <1>8 DEF JobsInv, JobInv
  <2>3. AskedInv'
    BY <1>1, <1>3, <1>6, <1>8 DEF AskedInv
  <2>4. BarInv'
    BY <1>1, <1>3, <1>5, <1>6, <1>8 DEF BarInv, JobBar
  <2> QED BY <2>1, <2>2, <2>3, <2>4 DEF Inv
<1> QED BY <1>1, <1>7, <1>8

LEMMA HostsReadInv == ASSUME Inv, HostsRead PROVE Inv'
<1>1. PICK job \in jobs :
        /\ job.at = "hosts"
        /\ Show(job, IF Visible(job.reading.route.host) THEN job.reading ELSE HostsIndex, queue)
        /\ UNCHANGED <<events, queue, known, answered, there, asked>>
  BY DEF HostsRead
<1> DEFINE o == IF Visible(job.reading.route.host) THEN job.reading ELSE HostsIndex
<1>2. jobs \subseteq {job} /\ JobInv(job) /\ IsSeq(queue)
  BY <1>1 DEF Inv, JobsInv, StateInv
<1>3. FromAsked(o, job.addr)
  BY <1>2, IndexFrom DEF JobInv
<1>4. /\ queue # <<>> => Last(queue) = asked
      /\ queue = <<>> => job.addr = asked
      /\ events = 0 /\ drift = None => IF queue # <<>> THEN Last(queue) = bar ELSE job.addr = bar
  BY <1>1, <1>2 DEF Inv, AskedInv, BarInv, JobInv, JobBar
<1>5. Show(job, o, queue') /\ queue' = queue
  BY <1>1
<1> HIDE DEF o
<1> QED BY <1>1, <1>2, <1>3, <1>4, <1>5, ShowStep

LEMMA LoadDoneInv == ASSUME Inv, LoadDone PROVE Inv'
<1>1. PICK job \in jobs :
        /\ job.at = "load"
        /\ jobs' = jobs \ {job}
        /\ IF job.reading.rewrite
           THEN /\ bar' = ScreenHash(screen) /\ current' = Parse(ScreenHash(screen))
                /\ drift' = IF queue # <<>> THEN "overtaken" ELSE drift
           ELSE current' = job.reading.route /\ UNCHANGED <<bar, drift>>
        /\ UNCHANGED <<events, queue, screen, panes, saved, known, answered, there, asked>>
  BY DEF LoadDone
<1>2. jobs' = {} /\ JobInv(job)
  BY <1>1 DEF Inv, JobsInv
<1>3. OnScreen(screen) /\ AgreesWith(job.reading.route, screen) /\ FromAsked(job.reading, job.addr)
      /\ (queue = <<>> => job.addr = asked)
  BY <1>1, <1>2 DEF JobInv
<1>4. AgreesWith(current', screen) /\ AnswersTo(current', job.addr, screen)
  BY <1>1, <1>3, Ended
<1>5. StateInv'
  BY <1>1 DEF Inv, StateInv
<1>6. JobsInv'
  BY <1>2 DEF JobsInv
<1>7. AskedInv'
  BY <1>1, <1>3, <1>4 DEF Inv, AskedInv
<1>8. BarInv'
  <2> SUFFICES ASSUME events = 0, drift' = None
               PROVE  /\ queue # <<>> => Last(queue) = bar'
                      /\ queue = <<>> => SameAddress'
    BY <1>1, <1>2 DEF BarInv
  <2>1. drift = None /\ (queue # <<>> => bar' = bar)
    BY <1>1 DEF None
  <2>2. /\ queue # <<>> => Last(queue) = bar
        /\ queue = <<>> => job.reading.rewrite \/ SameAddress
    BY <1>1, <2>1 DEF Inv, BarInv, JobBar
  <2>3. CASE job.reading.rewrite
    <3>1. ReopenedAs(ScreenHash(screen), screen, panes) = screen
      BY <1>3, Rewritten
    <3> QED BY <1>1, <2>1, <2>2, <2>3, <3>1 DEF SameAddress
  <2>4. CASE ~job.reading.rewrite
    BY <1>1, <2>1, <2>2, <2>4 DEF SameAddress
  <2> QED BY <2>3, <2>4
<1> QED BY <1>5, <1>6, <1>7, <1>8 DEF Inv

LEMMA AskInv ==
  ASSUME Inv, IsSeq(queue'), queue' # <<>>, Last(queue') = asked', Last(queue') = bar',
         UNCHANGED <<jobs, screen, panes, known>>, events' \in Nat
  PROVE  Inv'
<1>1. StateInv'
  BY DEF Inv, StateInv
<1>2. JobsInv'
  BY DEF Inv, JobsInv, JobInv
<1>3. AskedInv'
  BY DEF AskedInv
<1>4. BarInv'
  BY DEF BarInv, JobBar
<1> QED BY <1>1, <1>2, <1>3, <1>4 DEF Inv

LEMMA HashChangeInv == ASSUME Inv, HashChange PROVE Inv'
<1>1. IsSeq(queue) /\ events \in Nat
  BY DEF Inv, StateInv
<1>2. /\ events > 0 /\ events' = events - 1 /\ queue' = Append(queue, bar) /\ asked' = bar
      /\ UNCHANGED <<bar, jobs, screen, panes, known>>
  BY DEF HashChange
<1>3. events' \in Nat
  BY <1>1, <1>2
<1>4. IsSeq(queue') /\ queue' # <<>> /\ Last(queue') = bar
  BY <1>1, <1>2, Appended
<1> QED BY <1>2, <1>3, <1>4, AskInv

LEMMA GoInv == ASSUME Inv, NEW addr, Go(addr) PROVE Inv'
<1>1. IsSeq(queue) /\ events \in Nat
  BY DEF Inv, StateInv
<1>2. /\ bar' = addr /\ queue' = Append(queue, addr) /\ asked' = addr
      /\ UNCHANGED <<events, jobs, screen, panes, known>>
  BY DEF Go
<1>3. IsSeq(queue') /\ queue' # <<>> /\ Last(queue') = addr
  BY <1>1, <1>2, Appended
<1> QED BY <1>1, <1>2, <1>3, AskInv

LEMMA VisitInv == ASSUME Inv, NEW addr, Visit(addr) PROVE Inv'
<1>1. /\ events' = events + 1
      /\ UNCHANGED <<queue, jobs, screen, panes, current, known, asked>>
  BY DEF Visit
<1>2. StateInv'
  BY <1>1 DEF Inv, StateInv
<1>3. JobsInv'
  BY <1>1 DEF Inv, JobsInv, JobInv
<1>4. AskedInv'
  BY <1>1 DEF Inv, AskedInv
<1>5. BarInv'
  <2>1. events \in Nat
    BY DEF Inv, StateInv
  <2>2. events' # 0
    BY <1>1, <2>1
  <2> QED BY <2>2 DEF BarInv
<1> QED BY <1>2, <1>3, <1>4, <1>5 DEF Inv

(* A tab of the section is pressed: the same screen, on another tab        *)
LEMMA PressedScreen ==
  ASSUME NEW s, OnScreen(s), s.tab \in SectionTabs, NEW p \in SectionPanes(s.tab)
  PROVE  LET pressed == [s EXCEPT !.pane = p]
         IN OnScreen(pressed) /\ Names(pressed) = Names(s) /\ pressed.cluster = s.cluster
<1> DEFINE pressed == [s EXCEPT !.pane = p]
<1>1. IsTarget(s)
  BY DEF OnScreen
<1>2. IsTarget(pressed) /\ pressed.tab = s.tab /\ pressed.kvm = s.kvm /\ pressed.cluster = s.cluster
      /\ pressed.pane = p
  BY <1>1 DEF IsTarget, Fields
<1>3. OfCluster(s, {})
  BY <1>1, TabElsewhere, AnywhereNames DEF OnScreen, NamesCluster
<1>4. ValidHost(s.cluster) /\ s = OnCluster(s.tab, s.cluster, s.pane)
  BY <1>3, OverviewFields, OnClusterFields, ClusterTabsApart DEF OfCluster
<1>5. [OnCluster(s.tab, s.cluster, s.pane) EXCEPT !.pane = p] = OnCluster(s.tab, s.cluster, p)
  BY DEF OnCluster, Target
<1>6. pressed = OnCluster(s.tab, s.cluster, p)
  BY <1>4, <1>5
<1> HIDE DEF pressed
<1>7. OfCluster(pressed, {})
  BY <1>2, <1>4, <1>6 DEF OfCluster
<1>8. OnScreen(pressed) /\ Names(pressed) = Names(s) /\ pressed.cluster = s.cluster
  BY <1>2, <1>7 DEF OnScreen, Names
<1> QED BY <1>8 DEF pressed

LEMMA BlankFields == Blank.tab = None /\ Blank.tab \notin SectionTabs
BY PlainFields, SectionPanesGiven DEF Blank

LEMMA AgreesPressed ==
  ASSUME NEW r, NEW s, AgreesWith(r, s), NEW pressed, Names(pressed) = Names(s),
         pressed.cluster = s.cluster
  PROVE  AgreesWith(r, pressed)
BY DEF AgreesWith

LEMMA PressTabInv == ASSUME Inv, NEW p, PressTab(p) PROVE Inv'
<1>1. /\ TurnOver /\ screen.tab \in SectionTabs /\ p \in SectionPanes(screen.tab)
      /\ panes' = [panes EXCEPT ![screen.tab] = p] /\ screen' = [screen EXCEPT !.pane = p]
      /\ IF jobs = {}
         THEN /\ bar' = ScreenHash(screen') /\ asked' = bar' /\ drift' = None
              /\ current' = IF bar' = bar THEN current ELSE Parse(bar')
         ELSE drift' = "ignored" /\ UNCHANGED <<bar, current, asked>>
      /\ UNCHANGED <<events, queue, jobs, known>>
  BY DEF PressTab
<1>2. OnScreen(screen) /\ GoodPanes(panes)
  BY <1>1, BlankFields DEF Inv, StateInv
<1>3. OnScreen(screen') /\ Names(screen') = Names(screen) /\ screen'.cluster = screen.cluster
  BY <1>1, <1>2, PressedScreen
<1>4. GoodPanes(panes')
  BY <1>1, <1>2 DEF GoodPanes
<1>5. StateInv'
  BY <1>1, <1>3, <1>4 DEF Inv, StateInv
<1>6. CASE jobs = {}
  <2>1. queue = <<>>
    BY <1>1, <1>6 DEF TurnOver
  <2>2. /\ Parse(bar') # Unknown /\ AgreesWith(Parse(bar'), screen')
        /\ ReopenedAs(bar', screen', panes') = screen'
    BY <1>1, <1>3, <1>6, Rewritten
  <2>3. AgreesWith(current', screen')
    <3>1. AgreesWith(current, screen)
      BY <1>6, <2>1 DEF Inv, AskedInv
    <3>2. AgreesWith(current, screen')
      BY <1>3, <3>1, AgreesPressed
    <3> QED BY <1>1, <1>6, <2>2, <3>2
  <2>4. JobsInv'
    BY <1>1, <1>6 DEF JobsInv
  <2>5. AskedInv'
    BY <1>1, <1>6, <2>1, <2>2, <2>3 DEF AskedInv, AnswersTo
  <2>6. BarInv'
    BY <1>1, <1>6, <2>1, <2>2 DEF BarInv, SameAddress
  <2> QED BY <1>5, <2>4, <2>5, <2>6 DEF Inv
<1>7. CASE jobs # {}
  <2>1. ASSUME NEW j \in jobs PROVE JobInv(j)'
    <3>1. JobInv(j)
      BY DEF Inv, JobsInv
    <3>2. j.at = "load" => AgreesWith(j.reading.route, screen')
      BY <1>3, <3>1, AgreesPressed DEF JobInv
    <3> QED BY <1>1, <1>3, <1>7, <3>1, <3>2 DEF JobInv
  <2>2. JobsInv'
    BY <1>1, <2>1 DEF Inv, JobsInv
  <2>3. AskedInv'
    BY <1>1, <1>7 DEF Inv, AskedInv
  <2>4. drift' # None
    BY <1>1, <1>7 DEF None
  <2>5. BarInv'
    BY <2>4 DEF BarInv
  <2> QED BY <1>5, <2>2, <2>3, <2>5 DEF Inv
<1> QED BY <1>6, <1>7

LEMMA ReloadInv == ASSUME Inv, Reload PROVE Inv'
<1>1. /\ jobs' = {} /\ events' = 0 /\ queue' = <<bar>> /\ asked' = bar /\ screen' = Blank
      /\ known' = there \cap Clusters /\ UNCHANGED <<bar, panes>>
  BY DEF Reload
<1>2. IsSeq(queue') /\ queue' # <<>> /\ Last(queue') = bar
  BY <1>1, OneInQueue
<1>3. StateInv'
  BY <1>1, <1>2 DEF Inv, StateInv, Blank
<1>4. JobsInv'
  BY <1>1 DEF JobsInv
<1>5. AskedInv'
  BY <1>1, <1>2 DEF AskedInv
<1>6. BarInv'
  BY <1>1, <1>2 DEF BarInv
<1> QED BY <1>3, <1>4, <1>5, <1>6 DEF Inv

(* The list of clusters, the hosts of the server and the steps that change *)
(* nothing                                                                 *)
LEMMA ElsewhereInv ==
  ASSUME Inv, known' \subseteq Clusters,
         UNCHANGED <<bar, events, queue, jobs, screen, panes, current, asked, drift>>
  PROVE  Inv'
<1>1. StateInv'
  BY DEF Inv, StateInv
<1>2. JobsInv'
  BY DEF Inv, JobsInv, JobInv
<1>3. AskedInv'
  BY DEF Inv, AskedInv
<1>4. BarInv'
  BY DEF Inv, BarInv, JobBar, SameAddress
<1> QED BY <1>1, <1>2, <1>3, <1>4 DEF Inv

LEMMA NextInv == Inv /\ [Next]_vars => Inv'
<1> SUFFICES ASSUME Inv, [Next]_vars PROVE Inv'
  OBVIOUS
<1>0. known \subseteq Clusters
  BY DEF Inv, StateInv
<1>1. CASE Begin
  BY <1>1, BeginInv
<1>2. CASE HostsRead
  BY <1>2, HostsReadInv
<1>3. CASE LoadDone
  BY <1>3, LoadDoneInv
<1>4. CASE HashChange
  BY <1>4, HashChangeInv
<1>5. CASE ClustersAnswer
  BY <1>5, ElsewhereInv DEF ClustersAnswer
<1>6. CASE Reload
  BY <1>6, ReloadInv
<1>7. ASSUME NEW addr, Visit(addr) \/ Go(addr) PROVE Inv'
  BY <1>7, VisitInv, GoInv
<1>8. ASSUME NEW p, PressTab(p) PROVE Inv'
  BY <1>8, PressTabInv
<1>9. ASSUME NEW h, HostChange(h) PROVE Inv'
  BY <1>0, <1>9, ElsewhereInv DEF HostChange
<1>10. CASE UNCHANGED vars
  BY <1>0, <1>10, ElsewhereInv DEF vars
<1> QED BY <1>1, <1>2, <1>3, <1>4, <1>5, <1>6, <1>7, <1>8, <1>9, <1>10 DEF Next, Router, People

LEMMA Invariant == Spec => []Inv
BY InitInv, NextInv, PTL DEF Spec

(* F5 gives the exact screen: at rest, the address in the bar opens the    *)
(* screen that is shown (apply, enqueue, syncFromScreen), however the      *)
(* navigations interleaved with the clicks, the answers and the reloads    *)
(* before, unless the bar was rewritten under a navigation that waited or  *)
(* a tab was pressed during one.                                           *)
THEOREM AddressGivesTheScreen == Spec => []AddressIsScreen
<1>1. Inv => AddressIsScreen
  BY ReopenedIs DEF Inv, BarInv, AddressIsScreen, Settled, SameAddress
<1> QED BY <1>1, Invariant, PTL

(* Two quick clicks do not mix their clusters (enqueue): once navigations  *)
(* have ended, the screen and the menus are of the last address asked, or  *)
(* of the index or the default screen it was sent back to.                 *)
THEOREM LastAskedIsShown == Spec => []LastAskedShown
<1>1. ASSUME Inv PROVE LastAskedShown
  <2> SUFFICES ASSUME Settled
               PROVE  /\ Agrees(current)
                      /\ current \in Refused
                         \/ IF Parse(asked) # Unknown THEN Agrees(Parse(asked))
                            ELSE /\ IsLegacy(asked)
                                 /\ Names(Resolve(FromLegacy(asked, screen.cluster))) = Names(screen)
    BY DEF LastAskedShown
  <2>1. AgreesWith(current, screen) /\ AnswersTo(current, asked, screen)
    BY <1>1 DEF Inv, AskedInv, Settled
  <2>2. Agrees(current)
    BY <2>1, AgreesIs
  <2>3. AgreesWith(Parse(asked), screen) => Agrees(Parse(asked))
    BY AgreesIs
  <2> QED BY <2>1, <2>2, <2>3 DEF AnswersTo
<1> QED BY <1>1, Invariant, PTL
=====
