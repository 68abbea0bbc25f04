----------------------------- MODULE RuntimePlan -----------------------------
(* The planner of the sing-box runtime (engines/singbox/runtime_planner.py): *)
(* what it makes of the user's document, the chosen server and the ports of  *)
(* this computer, pass by pass, and again while the session it made runs.    *)
EXTENDS Naturals, Sequences, FiniteSets
LOCAL INSTANCE SequencesExt

CONSTANTS
  Document,   \* what the active config may hold: [rules, outs, dns, refs, ends, holds, inb]
  PlanNode,   \* servers: [kind, addr, builds]
  World,      \* ports nobody may bind and names whose address was remembered
  MaxPlans    \* plans made one after another

VARIABLES
  asked,   \* the request: document, server, pool, TUN or proxy, a replacement beside the running one
  world,   \* ports no one may bind, names whose address is remembered
  cfg,     \* the document being patched
  ports,   \* ports given out by this plan
  planAt,  \* the pass that comes next
  live,    \* the session that runs: its ports and its kind
  plans    \* plans begun

planVars == <<asked, world, cfg, ports, planAt, live, plans>>

(* A rule matches where each list it has holds the value; "sniff", "dns" and *)
(* "resolve" let the connection go on to the next rule.                      *)
Rule(inb, dom, proc, does) == [inb |-> inb, dom |-> dom, proc |-> proc, does |-> does]
Fits(list, v) == list = {} \/ v \in list
Matches(r, f) == Fits(r.inb, f.inb) /\ Fits(r.dom, f.dom) /\ Fits(r.proc, f.proc)
Settles(r) == r.does \notin {"sniff", "dns", "resolve"}
Carried(rules, f) ==
  LET hits == {i \in DOMAIN rules : Settles(rules[i]) /\ Matches(rules[i], f)}
  IN  IF hits = {} THEN "final" ELSE rules[CHOOSE i \in hits : \A j \in hits : i <= j].does

Replaced(rules, named(_), rule, at) ==
  LET there == {i \in DOMAIN rules : named(rules[i])}
  IN  IF there # {} THEN [rules EXCEPT ![CHOOSE i \in there : \A j \in there : i <= j] = rule]
      ELSE InsertAt(rules, at, rule)
(* After the sniff and DNS rules the list begins with.                       *)
AfterLeading(rules) ==
  CHOOSE i \in 1..Len(rules) + 1 :
    /\ \A j \in 1..i - 1 : rules[j].does \in {"sniff", "dns"}
    /\ i <= Len(rules) => rules[i].does \notin {"sniff", "dns"}

(* --- Ports ------------------------------------------------------------------ *)

ProxyPairs   == <<<<1, 2>>, <<3, 4>>, <<5, 6>>>>
ApiPorts     == 11..13
ClashPorts   == 12..15
ProtectPorts == 14..16
RelayPorts   == 21..23
DnsPorts     == 22..24
AnyPort      == 31..33   \* what Windows gives for port 0

Held == IF live.holds THEN {live.ports[k] : k \in DOMAIN live.ports} ELSE {}
Bindable(p) == p \notin world.reserved \cup Held
(* The first of the range that binds, else whatever Windows gives.           *)
FreeOf(range, excluded) ==
  LET good == {p \in range : Bindable(p) /\ p \notin excluded}
  IN  IF good # {} THEN {CHOOSE p \in good : \A q \in good : p <= q} ELSE {p \in AnyPort : Bindable(p) /\ p \notin excluded}
Relay == IF asked.keeps.relay # 0 THEN {asked.keeps.relay} ELSE FreeOf(RelayPorts, {})
Give(k, p) == [j \in DOMAIN ports \cup {k} |-> IF j = k THEN p ELSE ports[j]]
Give2(k, p, l, q) == [j \in DOMAIN ports \cup {k, l} |-> IF j = k THEN p ELSE IF j = l THEN q ELSE ports[j]]

(* --- Passes over the document ----------------------------------------------- *)

NoCfg == [rules |-> <<>>, outs |-> {}, resolver |-> "", dns |-> {}, default |-> "", lkg |-> {}, ends |-> 0, inb |-> {}, kind |-> "", pool |-> {}]
NoSession == [up |-> FALSE, holds |-> FALSE, ports |-> [none |-> 0], kind |-> ""]
NoKept == [relay |-> 0, protect |-> 0]

Request(d, n, pool, tun, keeps, replaces) ==
  [doc |-> d, node |-> n, pool |-> pool, tun |-> tun, keeps |-> keeps, replaces |-> replaces]
PlanInit ==
  /\ \E d \in Document, n \in PlanNode, pool \in {{}, PlanNode}, tun \in BOOLEAN : asked = Request(d, n, pool, tun, NoKept, FALSE)
  /\ world \in World
  /\ cfg = NoCfg /\ ports = [none |-> 0] /\ planAt = "strip" /\ live = NoSession /\ plans = 1

Moves(next) == planAt' = next /\ UNCHANGED <<asked, world, live, plans>>
Refuse == planAt' = "refused" /\ UNCHANGED <<asked, world, cfg, ports, live, plans>>

(* Proxy inbounds of the document go, its TUN too where the mode is proxy.   *)
StripInbounds ==
  /\ planAt = "strip"
  /\ cfg' = [NoCfg EXCEPT !.rules = asked.doc.rules, !.outs = asked.doc.outs, !.dns = asked.doc.dns, !.ends = asked.doc.ends,
                          !.inb = IF asked.tun THEN asked.doc.inb ELSE asked.doc.inb \ {"tun"}]
  /\ Moves("proxy") /\ UNCHANGED ports

(* _ensure_singbox_proxy_runtime_contract: ports of the own running session  *)
(* count as free, ports of other inbounds never do.                          *)
OpenProxy ==
  LET own == IF live.up THEN {live.ports.socks, live.ports.http} ELSE {}
      free(p) == p \notin asked.doc.holds /\ (p \in own \/ Bindable(p))
      good == {i \in DOMAIN ProxyPairs : free(ProxyPairs[i][1]) /\ free(ProxyPairs[i][2])}
      pair == ProxyPairs[CHOOSE i \in good : \A j \in good : i <= j]
  IN  /\ planAt = "proxy"
      /\ \/ good = {} /\ Refuse
         \/ /\ good # {} /\ ports' = [socks |-> pair[1], http |-> pair[2]]
            /\ cfg' = [cfg EXCEPT !.inb = @ \cup {"socks-in", "http-in"}] /\ Moves("metrics")
OpenMetrics ==
  LET good == {p \in ClashPorts : Bindable(p)} IN
  /\ planAt = "metrics"
  /\ ports' = IF good = {} THEN ports ELSE Give("clash", CHOOSE p \in good : \A q \in good : p <= q)
  /\ Moves("tun") /\ UNCHANGED cfg

(* The cores of the speed test go past the TUN, where there is a direct way. *)
PatchTun ==
  /\ planAt = "tun"
  /\ cfg' = IF asked.tun /\ cfg.inb \cap {"tun"} # {} /\ "direct" \in cfg.outs
            THEN [cfg EXCEPT !.rules = Replaced(@, LAMBDA r : "tester" \in r.proc, Rule({}, {}, {"tester"}, "direct"), AfterLeading(@))]
            ELSE cfg
  /\ Moves("outbound") /\ UNCHANGED ports

IsName(a) == a \in {"server", "pooled"}
(* _server_bootstrap_resolver: with a remembered address the server has a    *)
(* chain of its own; the system resolver is not in it.                       *)
OwnChain(c, a) == a \in world.known /\ "direct-doh" \in c.dns
Resolver(c, a) == IF OwnChain(c, a) THEN "app-node-bootstrap" ELSE "bootstrap-dns"
Remembered(c, a) ==
  IF OwnChain(c, a) THEN [c EXCEPT !.dns = @ \cup {"app-bootstrap-lkg", "app-node-bootstrap"}, !.lkg = @ \cup {a}] ELSE c
RouteOfServer(rules, a) == Replaced(rules, LAMBDA r : a \in r.dom, Rule({}, {a}, {}, "direct"), AfterLeading(rules))
Bootstrap(c, a, mine) ==
  IF ~IsName(a) THEN c
  ELSE [Remembered(c, a) EXCEPT !.rules = RouteOfServer(@, a), !.resolver = IF mine THEN Resolver(c, a) ELSE @]

(* A WireGuard endpoint of the document is the only way out; with `proxy`    *)
(* beside it, or a second one, the document is refused.                      *)
PlanDocument ==
  /\ planAt = "outbound" /\ (cfg.ends # 0 \/ "proxy" \notin cfg.outs \/ asked.node.kind = "none")
  /\ \/ /\ cfg.ends # 0 /\ (cfg.ends # 1 \/ "proxy" \in cfg.outs) /\ Refuse
     \/ /\ cfg.ends = 0 /\ "proxy" \in cfg.outs /\ asked.node.kind = "none" /\ Refuse
     \/ /\ cfg.ends = 0 /\ "proxy" \notin cfg.outs /\ cfg' = [cfg EXCEPT !.kind = "document"] /\ Moves("dns") /\ UNCHANGED ports
Chosen(kind) == planAt = "outbound" /\ cfg.ends = 0 /\ "proxy" \in cfg.outs /\ asked.node.kind = kind

(* The relay of WG/AWG asks sing-box for names on a port of its own.         *)
PlanAmnezia ==
  /\ Chosen("wg") \/ (planAt = "outbound" /\ cfg.ends = 1 /\ "proxy" \notin cfg.outs)
  /\ \E relay \in Relay, first \in FreeOf(DnsPorts, {}) :
       \E dns \in IF first = relay THEN FreeOf((first + 1)..(first + 3), {}) ELSE {first} :
         /\ ports' = Give2("relay", relay, "dns", dns)
         /\ cfg' = [cfg EXCEPT !.kind = "wg", !.inb = @ \cup {"dns"}, !.ends = 0, !.rules = <<Rule({"dns"}, {}, {}, "hijack")>> \o @]
  /\ Moves("dns")

PlanHysteriaInPlace(rules) == Replaced(rules, LAMBDA r : "hysteria" \in r.proc, Rule({}, {}, {"hysteria"}, "direct"), Len(rules) + 1)
PlanHysteriaRoute(rules) == Replaced(rules, LAMBDA r : "hysteria" \in r.proc, Rule({}, {}, {"hysteria"}, "direct"), 1)
PlanHysteria ==
  /\ Chosen("hysteria")
  /\ asked.node.builds /\ \E relay \in Relay : ports' = Give("relay", relay)
  /\ cfg' = [cfg EXCEPT !.kind = "hysteria", !.rules = PlanHysteriaRoute(@)] /\ Moves("dns")

(* Xray beside sing-box: its traffic comes back through the protect inbound  *)
(* and leaves directly; names with a remembered address are resolved first.  *)
SidecarPool(pool, node) == {n \in pool \cup {node} : n.kind = "xray" /\ n.builds}
PlanHybrid ==
  LET names == {n.addr : n \in asked.pool \cup {asked.node}}
      kept == {a \in names : IsName(a) /\ OwnChain(cfg, a)}
      guard == <<Rule({"protect"}, {}, {}, "direct")>> \o cfg.rules
      rules == IF kept = {} THEN guard ELSE <<Rule({"protect"}, kept, {}, "resolve")>> \o guard
      dns == IF kept = {} THEN cfg.dns ELSE cfg.dns \cup {"app-bootstrap-lkg", "app-node-bootstrap"}
  IN  /\ Chosen("xray")
      /\ asked.node.builds
      /\ \E relay \in Relay :
         \E protect \in IF asked.keeps.protect # 0 THEN {asked.keeps.protect} ELSE FreeOf(ProtectPorts, {relay}) :
         \E api \in FreeOf(ApiPorts, {relay, protect}) :
           LET p == Give2("relay", relay, "protect", protect)
           IN  ports' = [k \in DOMAIN p \cup {"api"} |-> IF k = "api" THEN api ELSE p[k]]
      /\ cfg' = [cfg EXCEPT !.kind = "xray", !.inb = @ \cup {"protect"}, !.rules = rules, !.dns = dns, !.lkg = @ \cup kept,
                            !.pool = SidecarPool(asked.pool, asked.node)]
      /\ Moves("dns")

(* A link no core takes: the plan is refused, nothing of it runs.            *)
NodeRefused == (\E k \in {"native", "hysteria", "xray"} : Chosen(k)) /\ ~asked.node.builds /\ Refuse

(* Servers sing-box runs itself share one selector, unless the chosen one    *)
(* is not among them.                                                        *)
PlanNative ==
  LET pooled == {n \in asked.pool : n.kind = "native" /\ n.builds}
      order == SetToSeq({n.addr : n \in pooled})
      withPool == FoldLeft(LAMBDA c, a : Bootstrap(c, a, a = asked.node.addr), cfg, order)
  IN  /\ Chosen("native")
      /\ asked.node.builds /\ Moves("dns") /\ UNCHANGED ports
      /\ cfg' = IF asked.node \in pooled THEN [withPool EXCEPT !.kind = "selector", !.pool = pooled]
                ELSE [Bootstrap(withPool, asked.node.addr, TRUE) EXCEPT !.kind = "native"]

(* Every name server a rule or an outbound names is there, or the plan is    *)
(* refused; a document without a default gets one.  Servers that share a     *)
(* selector stand in a file of their own, which is not looked at.            *)
NamedIn(c) == (asked.doc.refs \cup IF c.kind = "selector" THEN {} ELSE {c.resolver}) \ {""}
CheckDns ==
  /\ planAt = "dns"
  /\ IF NamedIn(cfg) \subseteq cfg.dns
     THEN /\ cfg' = [cfg EXCEPT !.default = CASE cfg.dns = {} -> "" [] "proxy-dns" \in cfg.dns -> "proxy-dns"
                                              [] "bootstrap-dns" \in cfg.dns -> "bootstrap-dns" [] OTHER -> CHOOSE t \in cfg.dns : TRUE]
          /\ Moves("done") /\ UNCHANGED ports
     ELSE Refuse

(* --- The session and the next plan ------------------------------------------ *)

PlanServes ==
  /\ planAt = "done" /\ live' = [up |-> TRUE, holds |-> TRUE, ports |-> ports, kind |-> cfg.kind] /\ planAt' = "runs"
  /\ UNCHANGED <<asked, world, cfg, ports, plans>>
(* A reconnect keeps the relay of the running session, whatever core needs   *)
(* one next, and its protect port; a replacement beside it has its own.      *)
Keeps(replaces) ==
  IF replaces \/ live.kind \notin {"xray", "hysteria"} THEN NoKept
  ELSE [relay |-> live.ports.relay, protect |-> IF live.kind = "xray" THEN live.ports.protect ELSE 0]
PlanAgain ==
  /\ planAt = "runs" /\ plans < MaxPlans
  /\ \E n \in PlanNode, replaces \in BOOLEAN, holds \in BOOLEAN :
       /\ replaces => holds
       /\ live' = [live EXCEPT !.holds = holds]
       /\ asked' = [asked EXCEPT !.node = n, !.replaces = replaces,
            !.keeps = Keeps(replaces)]
  /\ cfg' = NoCfg /\ ports' = [none |-> 0] /\ planAt' = "strip" /\ plans' = plans + 1 /\ UNCHANGED world

PlanNext ==
  \/ StripInbounds \/ OpenProxy \/ OpenMetrics \/ PatchTun \/ PlanDocument \/ PlanAmnezia \/ PlanHysteria \/ PlanHybrid
  \/ PlanNative \/ NodeRefused \/ CheckDns \/ PlanServes \/ PlanAgain
PlanSpec == PlanInit /\ [][PlanNext]_planVars

(* --- What must hold -------------------------------------------------------- *)

Planned == planAt = "done"
Flows == [inb : {"tun", "socks-in", "protect", "dns"}, dom : {"server", "pooled", "other"}, proc : {"user", "hysteria", "tester"}]
(* The document itself says something of what the app adds rules for.        *)
Speaks(test(_)) == \E i \in DOMAIN asked.doc.rules : test(asked.doc.rules[i])

(* Traffic of the app's own cores never comes back into the tunnel: what     *)
(* Xray sends through the protect inbound, Hysteria's own packets, the cores *)
(* of the speed test, whatever rules the user has - unless one of them names *)
(* the program itself.                                                       *)
OwnGoesDirect ==
  Planned => \A f \in Flows :
    /\ (cfg.kind = "xray" /\ f.inb = "protect") => Carried(cfg.rules, f) = "direct"
    /\ (cfg.kind = "hysteria" /\ f.proc = "hysteria" /\ f.inb = "tun" /\ ~Speaks(LAMBDA r : "hysteria" \in r.proc))
         => Carried(cfg.rules, f) = "direct"
    /\ (cfg.kind # "" /\ f.proc = "tester" /\ f.inb = "tun" /\ "tun" \in cfg.inb /\ "direct" \in cfg.outs
        /\ ~Speaks(LAMBDA r : "tester" \in r.proc)) => Carried(cfg.rules, f) = "direct"

(* What the user's rules say of the user's programs is what happens: no      *)
(* added or replaced rule changes where other traffic goes.                  *)
OthersAsWritten ==
  (Planned /\ ~Speaks(LAMBDA r : r.dom \cap {"server", "pooled"} # {} /\ "other" \in r.dom)) =>
    \A f \in Flows : (f.proc = "user" /\ f.dom = "other" /\ f.inb \in {"tun", "socks-in"})
      => Carried(cfg.rules, f) = Carried(asked.doc.rules, f)

(* The address of the chosen server is found without the proxy it is for,    *)
(* and every name server the config speaks of is in it.                      *)
ServerIsFound ==
  Planned => /\ (cfg.kind \in {"native", "selector"} /\ IsName(asked.node.addr)) => cfg.resolver \in {"bootstrap-dns", "app-node-bootstrap"}
             /\ (asked.doc.refs \cup {cfg.default}) \ {""} \subseteq cfg.dns
             /\ cfg.kind # "selector" => {cfg.resolver} \ {""} \subseteq cfg.dns
             /\ ("app-node-bootstrap" \in cfg.dns) => (cfg.lkg # {} /\ {"direct-doh", "app-bootstrap-lkg"} \subseteq cfg.dns)
             /\ (cfg.resolver = "app-node-bootstrap") => asked.node.addr \in cfg.lkg

(* A server of the pool asks a name server that is there.  Not so: the names *)
(* in the file of the pool are not checked, and a document without           *)
(* bootstrap-dns is taken for a pool where it is refused for one server.     *)
PoolIsFound == (Planned /\ cfg.kind = "selector") => {cfg.resolver} \ {""} \subseteq cfg.dns

Of(k) == IF k \in DOMAIN ports THEN {ports[k]} ELSE {}
OfLive(k) == IF k \in DOMAIN live.ports THEN {live.ports[k]} ELSE {}
(* Inbounds of one plan never ask for one port, nor for the user's.          *)
PortsApart ==
  Planned => /\ Of("relay") \cap (Of("protect") \cup Of("api") \cup Of("dns")) = {} /\ Of("protect") \cap Of("api") = {}
             /\ {ports.socks, ports.http} \cap asked.doc.holds = {}

(* Programs that were given the local proxy keep it over a reconnect, and a  *)
(* replacement never takes a port of the core that still runs beside it.     *)
KeepsItsPorts ==
  (Planned /\ live.up) =>
    /\ ports.socks = live.ports.socks /\ ports.http = live.ports.http
    /\ asked.replaces => (Of("relay") \cup Of("protect")) \cap (OfLive("relay") \cup OfLive("protect")) = {}

(* All listeners of a plan apart, the metrics of sing-box with them.         *)
AllPortsApart == Planned => \A k, l \in DOMAIN ports : k # l => ports[k] # ports[l]

PlanSafe == OwnGoesDirect /\ OthersAsWritten /\ ServerIsFound /\ PortsApart /\ KeepsItsPorts

-----------------------------------------------------------------------------
(* What is made of the user's Xray config before a start                     *)
(* (application/xray_runtime_service.py, port_allocator.py,                  *)
(* outbound_pool_service.py): metrics, local proxy ports, the servers of the *)
(* pool in place of `proxy`, and under a TUN the way round it.               *)

CONSTANTS
  XrayConfig,  \* configs: [inbs, outs, api, rules]
  XrayWish,    \* requests: [tun, pool, chosen, fits, card, taken]
  MaxXrayPlans \* plans made one after another, the last one's ports still held

VARIABLES
  xasked,   \* config and request
  xcfg,     \* the config being patched
  xrayAt,   \* the pass that comes next
  xlive,    \* ports of the session that runs
  xplans    \* plans begun

xrayPlanVars == <<xasked, xcfg, xrayAt, xlive, xplans>>

MetricsIn == "__app_metrics_api_in"
MetricsTag == "__app_metrics_api"
Balancer == "balancer"
Inb(proto, tag, port) == [proto |-> proto, tag |-> tag, port |-> port]
Out(tag, proto, bound) == [tag |-> tag, proto |-> proto, bound |-> bound]
NoPorts == [socks |-> 0, http |-> 0]
EndApiPorts == 11..13
PortOf(inbs, proto) ==
  LET at == {i \in DOMAIN inbs : inbs[i].proto = proto /\ inbs[i].port > 0}
  IN  IF at = {} THEN 0 ELSE inbs[CHOOSE i \in at : \A j \in at : i <= j].port
Least(s) == CHOOSE p \in s : \A q \in s : p <= q

XrayPlanInit ==
  /\ xasked \in [config : XrayConfig, wish : XrayWish]
  /\ xcfg = [xasked.config EXCEPT !.inbs = <<>>] /\ xrayAt = "tun" /\ xlive = NoPorts /\ xplans = 1

Wish == xasked.wish
XrayGoes(at) == xrayAt' = at /\ UNCHANGED <<xasked, xlive, xplans>>
Refused == xrayAt' = "refused" /\ UNCHANGED <<xasked, xcfg, xlive, xplans>>
Tunnels(inbs) == \E i \in DOMAIN inbs : inbs[i].proto = "tun"

(* A TUN of its own where the config has none; local proxies go then.        *)
TunContract ==
  LET given == xasked.config.inbs
      with == IF Tunnels(given) THEN given ELSE Append(given, Inb("tun", "__app_tun_in", 0))
  IN  /\ xrayAt = "tun" /\ XrayGoes("metrics")
      /\ xcfg' = [xcfg EXCEPT !.inbs = IF Wish.tun THEN SelectSeq(with, LAMBDA i : i.proto \notin {"socks", "http", "mixed"}) ELSE given]

(* ensure_xray_metrics_contract: the api tag of the config stays where an    *)
(* outbound that can carry it has it.                                        *)
ApiTag(c) ==
  LET has == {i \in DOMAIN c.outs : c.outs[i].tag = c.api}
  IN  IF c.api # "" /\ has # {} /\ c.outs[Least(has)].proto \in {"freedom", "loopback"} THEN c.api ELSE MetricsTag
IsMetrics(i) == i.tag = MetricsIn
OnMetrics(r) == MetricsIn \in r.inb
WithMetrics(c, port) ==
  LET tag == ApiTag(c)
      rule == [inb |-> {MetricsIn}, does |-> tag]
      inb == Inb("dokodemo", MetricsIn, port)
      inbAt == {i \in DOMAIN c.inbs : IsMetrics(c.inbs[i])}
      ruleAt == {i \in DOMAIN c.rules : OnMetrics(c.rules[i])}
  IN  [c EXCEPT !.api = tag,
        !.inbs = IF inbAt = {} THEN Append(@, inb) ELSE [@ EXCEPT ![Least(inbAt)] = inb],
        !.outs = IF \E i \in DOMAIN c.outs : c.outs[i].tag = tag THEN @ ELSE Append(@, Out(tag, "freedom", "")),
        !.rules = IF ruleAt = {} THEN <<rule>> \o @ ELSE [@ EXCEPT ![Least(ruleAt)] = rule]]
MetricsPorts(c) ==
  LET held == {c.inbs[i].port : i \in {j \in DOMAIN c.inbs : IsMetrics(c.inbs[j])}} \ {0}
      others == {c.inbs[i].port : i \in DOMAIN c.inbs}
  IN  IF held # {} THEN held ELSE {p \in EndApiPorts : p \notin others \cup Wish.taken}
MetricsContract ==
  /\ xrayAt = "metrics"
  /\ IF MetricsPorts(xcfg) = {} THEN Refused ELSE xcfg' = WithMetrics(xcfg, Least(MetricsPorts(xcfg))) /\ XrayGoes("ports")

(* apply_proxy_port_auto_selection: the first pair where both are free; the  *)
(* running session's own count as free.                                      *)
ProxyPairPorts ==
  LET at(proto) == {i \in DOMAIN xcfg.inbs : xcfg.inbs[i].proto = proto}
      ask == IF at("socks") = {} \/ at("http") = {} THEN {} ELSE {Least(at("socks")), Least(at("http"))}
      socks == xcfg.inbs[Least(at("socks"))].port
      http == xcfg.inbs[Least(at("http"))].port
      step == IF socks = http + 1 \/ http = socks + 1 THEN 2 ELSE 1
      rest == {xcfg.inbs[i].port : i \in DOMAIN xcfg.inbs \ ask}
      free(p) == p \notin rest /\ (p \in {xlive.socks, xlive.http} \/ p \notin Wish.taken)
      good == {n \in 0..3 : free(socks + n * step) /\ free(http + n * step) /\ socks # http}
      moved == [i \in DOMAIN xcfg.inbs |-> IF i \in ask THEN [xcfg.inbs[i] EXCEPT !.port = @ + Least(good) * step] ELSE xcfg.inbs[i]]
      asks == ask # {} /\ socks > 0 /\ http > 0
  IN  /\ xrayAt = "ports"
      /\ \/ ~asks /\ UNCHANGED xcfg /\ XrayGoes("servers")
         \/ asks /\ good = {} /\ Refused
         \/ asks /\ good # {} /\ xcfg' = [xcfg EXCEPT !.inbs = moved] /\ XrayGoes("servers")

(* The servers of the pool take the place of `proxy`, and rules that name it *)
(* name the balancer; a server outside the pool stands alone.                *)
PoolOuts == [i \in DOMAIN Wish.pool |-> Out(Wish.pool[i], "vless", "")]
ServersIn ==
  LET at == {i \in DOMAIN xcfg.outs : xcfg.outs[i].tag = "proxy"}
      k == Least(at)
      spread == SubSeq(xcfg.outs, 1, k - 1) \o PoolOuts \o SubSeq(xcfg.outs, k + 1, Len(xcfg.outs))
      routed == [i \in DOMAIN xcfg.rules |-> IF xcfg.rules[i].does = "proxy" THEN [xcfg.rules[i] EXCEPT !.does = Balancer] ELSE xcfg.rules[i]]
  IN  /\ xrayAt = "servers"
      /\ \/ at = {} /\ UNCHANGED xcfg /\ XrayGoes("loop")
         \/ at # {} /\ (Wish.chosen = "" \/ ~Wish.fits) /\ Refused
         \/ /\ at # {} /\ Wish.chosen # "" /\ Wish.fits /\ XrayGoes("loop")
            /\ xcfg' = IF Contains(Wish.pool, Wish.chosen) THEN [xcfg EXCEPT !.outs = spread, !.rules = routed]
                       ELSE [xcfg EXCEPT !.outs[k] = Out("proxy", "vmess", "")]

(* Under a TUN what dials is bound to the network card, unless bound by the  *)
(* config itself; without a card there is no start.                          *)
Dials(o) == o.tag \notin {MetricsTag, "api"} /\ o.proto \notin {"blackhole", "loopback", "dns"}
LoopOpen(outs) == \E i \in DOMAIN outs : Dials(outs[i]) /\ outs[i].bound = ""
LoopOfConfig ==
  /\ xrayAt = "loop" /\ XrayGoes("done")
  /\ xcfg' = [xcfg EXCEPT !.outs = [i \in DOMAIN @ |-> IF Wish.tun /\ i <= Len(xasked.config.outs) /\ Dials(@[i]) /\ @[i].bound = "" THEN [@[i] EXCEPT !.bound = Wish.card] ELSE @[i]]]
LoopPrevention ==
  /\ xrayAt = "loop"
  /\ \/ (~Wish.tun \/ ~LoopOpen(xcfg.outs)) /\ UNCHANGED xcfg /\ XrayGoes("done")
     \/ Wish.tun /\ LoopOpen(xcfg.outs) /\ Wish.card = "" /\ Refused
     \/ /\ Wish.tun /\ LoopOpen(xcfg.outs) /\ Wish.card # "" /\ XrayGoes("done")
        /\ xcfg' = [xcfg EXCEPT !.outs = [i \in DOMAIN @ |-> IF Dials(@[i]) /\ @[i].bound = "" THEN [@[i] EXCEPT !.bound = Wish.card] ELSE @[i]]]

(* The session runs; the next plan is made while its ports are held.         *)
XrayRuns ==
  /\ xrayAt = "done" /\ xplans < MaxXrayPlans /\ xplans' = xplans + 1 /\ xrayAt' = "tun"
  /\ xlive' = [socks |-> PortOf(xcfg.inbs, "socks"), http |-> PortOf(xcfg.inbs, "http")]
  /\ \E w \in XrayWish :
       xasked' = [xasked EXCEPT !.wish = [w EXCEPT !.taken = Wish.taken \cup {xcfg.inbs[i].port : i \in DOMAIN xcfg.inbs}]]
  /\ xcfg' = [xasked.config EXCEPT !.inbs = <<>>]

XrayPlanNext ==
  TunContract \/ MetricsContract \/ ProxyPairPorts \/ ServersIn \/ LoopPrevention \/ XrayRuns
XrayPlanSpec == XrayPlanInit /\ [][XrayPlanNext]_xrayPlanVars

(* --- What must hold -------------------------------------------------------- *)

XrayDone == xrayAt = "done"
(* Under a TUN no outbound dials through the tunnel it feeds: those of the   *)
(* config and every server of the pool that came in its place.               *)
NoXrayLoop == (XrayDone /\ Wish.tun) => Tunnels(xcfg.inbs) /\ ~LoopOpen(xcfg.outs)

(* The counters answer: one port apart from all others, a first rule of      *)
(* their own unless the config has one, and an outbound that exists.         *)
MetricsAnswer ==
  XrayDone =>
    /\ Cardinality({i \in DOMAIN xcfg.inbs : IsMetrics(xcfg.inbs[i])}) = 1
    /\ \A i, j \in DOMAIN xcfg.inbs : (i # j /\ IsMetrics(xcfg.inbs[i])) => xcfg.inbs[i].port # xcfg.inbs[j].port
    /\ \E i \in DOMAIN xcfg.rules : OnMetrics(xcfg.rules[i]) /\ xcfg.rules[i].does = xcfg.api
    /\ \E i \in DOMAIN xcfg.outs : xcfg.outs[i].tag = xcfg.api

(* What was asked of the chosen server reaches a balancer that has it; no    *)
(* rule still names the outbound that was taken out.                         *)
RulesReachChosen ==
  XrayDone => \A i \in DOMAIN xcfg.rules :
    /\ xcfg.rules[i].does = Balancer => \E o \in DOMAIN xcfg.outs : xcfg.outs[o].tag = Wish.chosen
    /\ (xcfg.rules[i].does = "proxy" /\ \E o \in DOMAIN xasked.config.outs : xasked.config.outs[o].tag = "proxy")
         => \E o \in DOMAIN xcfg.outs : xcfg.outs[o].tag = "proxy"

(* A plan repeated while its session runs keeps the local proxy where it is. *)
XrayKeepsProxy ==
  (XrayDone /\ xlive.socks > 0 /\ ~Wish.tun)
    => PortOf(xcfg.inbs, "socks") = xlive.socks /\ PortOf(xcfg.inbs, "http") = xlive.http

(* A config the app already patched is left as it is by the second patch.    *)
MetricsOnce == xrayAt = "ports" => WithMetrics(xcfg, PortOf(SelectSeq(xcfg.inbs, IsMetrics), "dokodemo")) = xcfg

XrayPlanSafe == NoXrayLoop /\ MetricsAnswer /\ RulesReachChosen /\ XrayKeepsProxy /\ MetricsOnce
=============================================================================
