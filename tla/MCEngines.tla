------------------------------ MODULE MCEngines ------------------------------
(* The engines' processes, what is made of their failures, the plans they    *)
(* are started from and the page of Zapret, side by side: they share no      *)
(* state, so each behaviour moves the one `focus` names.                     *)
EXTENDS HysteriaProcess, HysteriaRecovery, AmneziaProcess, AmneziaRelay, SingboxProcess, RuntimePlan, ZapretControl

CONSTANT Engines   \* those a run is about
VARIABLE focus

planningVars == <<planVars, xrayPlanVars, zapretVars>>
enginesVars == <<focus, hyVars, rescueVars, awgVars, relayVars, boxVars, planningVars>>
processVars == <<hyVars, rescueVars, awgVars, relayVars, boxVars>>

EnginesInit ==
  /\ focus \in Engines
  /\ HyInit /\ RecoveryInit /\ AwgInit /\ RelayInit /\ BoxInit
  (* what stands still starts in one way only *)
  /\ focus # "rescue" => picked = CHOOSE s \in Server : TRUE
  /\ IF focus = "plan" THEN PlanInit ELSE
       /\ asked = <<>> /\ world = <<>> /\ cfg = NoCfg /\ ports = [none |-> 0]
       /\ planAt = "none" /\ live = NoSession /\ plans = 0
  /\ IF focus = "xray" THEN XrayPlanInit ELSE
       xasked = <<>> /\ xcfg = <<>> /\ xrayAt = "none" /\ xlive = NoPorts /\ xplans = 0
  /\ ZapretInit
  /\ focus # "zapret" => disk = ZapPreset /\ saved.preset = (CHOOSE p \in ZapPreset : TRUE) /\ link.server = "plain"

EnginesNext ==
  \/ focus = "hysteria" /\ HyNext /\ UNCHANGED <<focus, rescueVars, awgVars, relayVars, boxVars, planningVars>>
  \/ focus = "rescue" /\ RecoveryNext /\ UNCHANGED <<focus, hyVars, awgVars, relayVars, boxVars, planningVars>>
  \/ focus = "amnezia" /\ AwgNext /\ UNCHANGED <<focus, hyVars, rescueVars, relayVars, boxVars, planningVars>>
  \/ focus = "relay" /\ RelayNext /\ UNCHANGED <<focus, hyVars, rescueVars, awgVars, boxVars, planningVars>>
  \/ focus = "singbox" /\ BoxNext /\ UNCHANGED <<focus, hyVars, rescueVars, awgVars, relayVars, planningVars>>
  \/ focus = "plan" /\ PlanNext /\ UNCHANGED <<focus, processVars, xrayPlanVars, zapretVars>>
  \/ focus = "xray" /\ XrayPlanNext /\ UNCHANGED <<focus, processVars, planVars, zapretVars>>
  \/ focus = "zapret" /\ ZapretNext /\ UNCHANGED <<focus, processVars, planVars, xrayPlanVars>>

(* The fairness each module states: of an action that only moves the         *)
(* component in focus, all the others stand still with nothing begun.        *)
EnginesFairness ==
  /\ \A a \in Actor : WF_hyVars(focus = "hysteria" /\ StartStep(a))
  /\ WF_hyVars(focus = "hysteria" /\ ProcessEnds /\ process = "dying")
  /\ WF_hyVars(focus = "hysteria" /\ RetryClosed) /\ WF_hyVars(focus = "hysteria" /\ TimerFires)
  /\ WF_rescueVars(focus = "rescue" /\ BeginMove)
  /\ WF_rescueVars(focus = "rescue" /\ (MoveStops \/ MoveServes \/ MoveDropped))
  /\ WF_awgVars(focus = "amnezia" /\ AwgStep) /\ WF_awgVars(focus = "amnezia" /\ CloseOwned)
  /\ WF_awgVars(focus = "amnezia" /\ KillIfRunning) /\ WF_awgVars(focus = "amnezia" /\ PollCheck)
  /\ WF_awgVars(focus = "amnezia" /\ AwgExits /\ core = "dying")
  /\ WF_relayVars(focus = "relay" /\ ServeReturns)
  /\ \A c \in Peer :
       /\ WF_relayVars(focus = "relay" /\ Ask(c)) /\ WF_relayVars(focus = "relay" /\ Dial(c))
       /\ WF_relayVars(focus = "relay" /\ StreamEnds(c))
       /\ WF_relayVars(focus = "relay" /\ \E w \in Way : CopyFails(c, w) /\ ~remote[c])
       /\ WF_relayVars(focus = "relay" /\ ControlClosed(c))
       /\ WF_relayVars(focus = "relay" /\ ReadEnds(c) /\ ~udp[c])
       /\ WF_relayVars(focus = "relay" /\ Joined(c))
       /\ WF_relayVars(focus = "relay" /\ ReaderLeaves(c) /\ \E r \in reader[c] : ~r.open /\ r \notin reader'[c])
  /\ WF_boxVars(focus = "singbox" /\ BoxStep) /\ WF_boxVars(focus = "singbox" /\ GapPasses)
  /\ WF_boxVars(focus = "singbox" /\ BoxEnds /\ box.proc = "dying")

EnginesSpec == EnginesInit /\ [][EnginesNext]_enginesVars /\ EnginesFairness

(* --- Values --------------------------------------------------------------- *)

HySome  == [f \in HyFaults |-> IF f = "parrot" THEN 2 ELSE 1]
AwgSome == [f \in AwgFaults |-> IF f = "cut" THEN 2 ELSE 1]

RulesOf(r) ==
  CASE r = "none"  -> <<>>
    [] r = "sniff" -> <<Rule({}, {}, {}, "sniff"), Rule({"tun"}, {}, {}, "proxy")>>
    [] r = "late"  -> <<Rule({"tun"}, {}, {}, "proxy"), Rule({}, {}, {}, "sniff")>>
    [] r = "own"   -> <<Rule({}, {"server"}, {}, "proxy"), Rule({}, {"other"}, {}, "block")>>
    [] r = "mixed" -> <<Rule({}, {"other"}, {}, "block"), Rule({}, {"server", "other"}, {}, "block")>>
    [] r = "core"  -> <<Rule({"tun"}, {}, {}, "proxy"), Rule({}, {}, {"hysteria"}, "proxy")>>
    [] r = "test"  -> <<Rule({}, {}, {}, "sniff"), Rule({}, {}, {"tester"}, "proxy"), Rule({}, {"other"}, {}, "block")>>
    [] r = "three" -> <<Rule({}, {}, {}, "sniff"), Rule({}, {"other"}, {}, "block"), Rule({"tun"}, {}, {}, "proxy")>>
    [] r = "tun"   -> <<Rule({"tun"}, {}, {}, "proxy")>>
    [] r = "block" -> <<Rule({}, {"other"}, {}, "block")>>
Doc(r, o, d, f, e, h, i) == [rules |-> RulesOf(r), outs |-> o, dns |-> d, refs |-> f, ends |-> e, holds |-> h, inb |-> i]
Documents ==
  {Doc(r, {"proxy", "direct"}, {"bootstrap-dns", "proxy-dns", "direct-doh"}, {"proxy-dns"}, 0, {}, {"tun"}) :
     r \in {"none", "sniff", "late", "own", "mixed", "core", "test", "three"}}
  \cup {Doc("none", {"direct"}, {}, {}, 1, {1}, {"tun"}), Doc("tun", {"direct"}, {"x"}, {}, 0, {}, {"tun"}),
        Doc("none", {"direct", "proxy"}, {"proxy-dns"}, {}, 0, {}, {}),
        Doc("block", {"proxy"}, {"bootstrap-dns"}, {"proxy-dns"}, 0, {}, {"tun"}),
        Doc("none", {"proxy"}, {}, {}, 1, {}, {"tun"})}
NodeOf(k, a, b) == [kind |-> k, addr |-> a, builds |-> b]
PlanNodes == {NodeOf("native", "server", TRUE), NodeOf("native", "pooled", TRUE), NodeOf("xray", "server", TRUE),
              NodeOf("xray", "ip", FALSE), NodeOf("hysteria", "server", TRUE), NodeOf("wg", "ip", TRUE), NodeOf("none", "", TRUE)}
Worlds == {[reserved |-> {}, known |-> {"server"}], [reserved |-> {1, 11, 12}, known |-> {}],
           [reserved |-> (11..16) \cup (21..24), known |-> {"server", "pooled"}]}
InbsOf(n) ==
  LET socks == Inb("socks", "socks-in", 1)  http == Inb("http", "http-in", 2) IN
  CASE n = "two"   -> <<socks, http>>
    [] n = "door"  -> <<socks, http, Inb("dokodemo", "u", 3)>>
    [] n = "taken" -> <<socks, Inb("http", "http-in", 11)>>
    [] n = "ours"  -> <<Inb("dokodemo", MetricsIn, 12), socks, http>>
    [] n = "tun"   -> <<Inb("tun", "t", 0), Inb("dokodemo", "u", 3)>>
    [] n = "mixed" -> <<Inb("mixed", "m", 1)>>
OutsOf(n) ==
  LET proxy == Out("proxy", "vless", "")  direct == Out("direct", "freedom", "")
      bound == Out("direct", "freedom", "eth")  block == Out("block", "blackhole", "") IN
  CASE n = "three" -> <<proxy, direct, block>>
    [] n = "api"   -> <<bound, proxy, Out("api", "freedom", "")>>
    [] n = "bare"  -> <<direct, block>>
    [] n = "hole"  -> <<Out("api", "blackhole", ""), bound>>
XrayConfigs ==
  {[inbs |-> InbsOf(i), outs |-> OutsOf(o), api |-> a, rules |-> r] :
     i \in {"two", "door", "taken", "ours", "tun", "mixed"}, o \in {"three", "api", "bare", "hole"}, a \in {"", "api"},
     r \in {<<[inb |-> {}, does |-> "direct"], [inb |-> {}, does |-> "proxy"]>>,
            <<[inb |-> {}, does |-> "proxy"], [inb |-> {MetricsIn, "u"}, does |-> "direct"]>>}}
WishOf(t, p, c, f, k, x) == [tun |-> t, pool |-> p, chosen |-> c, fits |-> f, card |-> k, taken |-> x]
XrayWishes ==
  {WishOf(t, p, c, TRUE, k, x) :
     t \in BOOLEAN, p \in {<<"a", "b">>, <<>>}, c \in {"a", ""}, k \in {"eth", ""}, x \in {{}, {2, 11}}}
  \cup {WishOf(FALSE, <<"a">>, "a", FALSE, "eth", {}), WishOf(FALSE, <<"a">>, "a", TRUE, "eth", {11, 12, 13})}

(* What was asked for is what runs: the plans for both cores, and winws2.    *)
PlansSafe ==
  /\ focus = "plan" => PlanSafe
  /\ focus = "xray" => XrayPlanSafe
  /\ ZapretSafe

(* No start, stop, recovery, check or association hangs.                     *)
EnginesProgress ==
  /\ StartEnds /\ RecoveryEnds /\ AwgStartEnds /\ FailedLeaves /\ ChecksAnswered
  /\ CancelEnds /\ ControlEndsIt /\ BoxStartEnds
=============================================================================
