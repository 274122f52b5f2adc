---------------------------- MODULE MCNavigation ----------------------------
(***************************************************************************)
(* The router, with one address of each kind, and the grammar of addresses *)
(* over every sequence of Words a person may type.                         *)
(***************************************************************************)
EXTENDS Navigation

CONSTANTS
  Words,      \* segments that are typed
  Depth       \* bound: longest address typed, one more under a host

MCAddresses == {<<"harvester", "c1", "params", "network">>,
                <<"harvester", "c2", "params", "network", "pools">>,
                <<"harvester", "c1", "params", "storage", "images">>,
                <<"network">>, <<"kvm", "k1">>, <<"nowhere">>}

(* Does P hold for every address typed?  Under a host, one segment more.   *)
Typed(P(_)) ==
  /\ \A n \in 0..Depth : \A addr \in [1..n -> Words] : P(addr)
  /\ \A kind \in Kinds, rest \in [1..Depth -> Words] : P(<<kind>> \o rest)

(* A page that has just been opened, in a browser that remembers nothing:  *)
(* the two properties of the grammar are judged once, there.               *)
FirstVisit == /\ queue = <<bar>> /\ bar = <<>> /\ saved = None /\ panes = FirstPanes
              /\ screen.tab = None /\ there = Clusters \cup KvmHosts

Opens(addr) == Parse(addr) # Unknown

(* What a browser may remember when it opens a screen: a pane of its       *)
(* section (the only one it may then be on), a host of the list of actions *)
Memories(t) ==
  {[cluster |-> c, panes |-> [tab \in {t.tab} |-> p], filter |-> f] :
     c \in Clusters,
     p \in IF t.tab \in SectionTabs THEN SectionPanes(t.tab) ELSE {None},
     f \in IF t.tab = "activity" THEN {NoFilter} \cup ({"kvm"} \X KvmHosts) ELSE {NoFilter}}

(* The address of the screen an address opens opens it again.              *)
Reopens(route) ==
  LET t == Resolve(route)
      Seen(s) == IF t.cluster = None THEN [s EXCEPT !.cluster = None] ELSE s
  IN \A mem \in Memories(t) :
       LET s == Screen(t, mem)
           again == Parse(ScreenHash(s))
       IN /\ again # Unknown
          /\ \A later \in Memories(t) :
               Seen(Screen(Resolve(again), [later EXCEPT !.filter = mem.filter])) = Seen(s)

(* Whatever the page of login accepts to put back in the address bar, the   *)
(* addresses of the menu of 1.x included (acceptable, fromLegacy), opens a  *)
(* screen; and the address the router writes for that screen reopens it,    *)
(* its pane, its host and its scope included, in a browser that remembers   *)
(* another cluster and another pane (router.js: "pour que F5 rende l'ecran  *)
(* exact").  The filter of the list of actions is saved; the cluster of a   *)
(* screen of the fleet is not shown.                                        *)
ReloadKeepsScreen ==
  FirstVisit =>
    Typed(LAMBDA addr :
            /\ Opens(addr) => Reopens(Parse(addr))
            /\ ~Opens(addr) /\ IsLegacy(addr) =>
                 \A c \in Clusters : FromLegacy(addr, c) # Unknown /\ Reopens(FromLegacy(addr, c)))
=============================================================================
