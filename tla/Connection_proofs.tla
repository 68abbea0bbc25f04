-------------------------- MODULE Connection_proofs --------------------------
(* What is proved of the connection coordinator for any list of servers, any *)
(* protocols, any clicks and any failures: its types, the gate of the queue, *)
(* the sessions the user never asked for, one process per core; the work     *)
(* that is never forgotten and the selection that follows the session, for   *)
(* the lists of servers where the program keeps them.                        *)
EXTENDS Connection, TLAPS

-----------------------------------------------------------------------------
(* Types.  TypeOK alone is not inductive: a step that names the server of    *)
(* the run, or of the hot switch, needs to know that there is one.           *)

(* Program points at which the run serves a server.                          *)
Manned == {"release", "plan", "sidecar", "front", "front_abort", "pin", "started",
           "ready", "capture", "commit", "swap_stop", "swap_stopped", "candidate",
           "swap_old", "swap_amnezia"}

RunBegun ==
  /\ run.pc \in Manned => run.node \in Node
  /\ run.pc = "proxy" /\ run.act # "proxy_update" => run.node \in Node
  /\ run.act \in Prestops => run.node \in Node
  /\ run.pc = "rollback" => run.old \in Node
  /\ run.pc = "candidate" => run.act \in Swaps
  /\ run.act \notin Swaps => run.cand = None
  /\ ~Active => run = NoRun

HotBegun ==
  /\ hot.pc # "idle" => hot.node \in Node /\ hot.prev \in Node
  /\ hot.pc = "idle" => hot = NoHot

Typed == TypeOK /\ RunBegun /\ HotBegun

(* What a segment of a transition may change, with its type.                 *)
StepTypes ==
  /\ desired \in BOOLEAN /\ committed \in Node /\ target \in MaybeNode
  /\ connected \in BOOLEAN /\ session \in Session \cup {None} /\ plan \in MaybeNode
  /\ front \in MaybeNode /\ side \in [SideKinds -> MaybeNode] /\ sysproxy \in BOOLEAN
  /\ faults \in 0..MaxFaults

LEMMA Awake == ASSUME Typed, run.pc # "idle" PROVE Active
BY DEF Typed, RunBegun, Active, NoRun

LEMMA SegmentTyped ==
  ASSUME Typed, stepFrame, run' \in RunRecord, StepTypes', RunBegun' PROVE Typed'
BY DEF Typed, TypeOK, HotBegun, StepTypes, stepFrame, settingVars, queueVars, hotVars, bypassVars

-----------------------------------------------------------------------------
(* The moves of a run: what each of them keeps of it.                        *)

(* What the run keeps when only its place changes: what it does, for whom,   *)
(* and since when.                                                           *)
SameRun == /\ run' \in RunRecord
           /\ run'.act = run.act /\ run'.gen = run.gen /\ run'.base = run.base
           /\ run'.plan = run.plan /\ run'.node = run.node /\ run'.tun = run.tun
           /\ run'.old = run.old /\ run'.cand = run.cand /\ run'.drop = run.drop

LEMMA EnterDoes ==
  ASSUME run \in RunRecord, NEW p \in Inline \cup Waiting, NEW b \in BOOLEAN, Enter(p, b)
  PROVE  SameRun /\ run'.pc = p /\ run'.now = b /\ run'.ok = run.ok
<1>1. run' \in RunRecord BY Zenon DEF Enter, RunRecord
<1>2. /\ run'.act = run.act /\ run'.gen = run.gen /\ run'.base = run.base
      /\ run'.plan = run.plan /\ run'.node = run.node /\ run'.tun = run.tun
      /\ run'.old = run.old /\ run'.cand = run.cand /\ run'.drop = run.drop
      /\ run'.pc = p /\ run'.now = b /\ run'.ok = run.ok
  BY SMT DEF Enter, RunRecord
<1> QED BY <1>1, <1>2 DEF SameRun

LEMMA GotoDoes ==
  ASSUME run \in RunRecord, NEW p \in Inline \cup Waiting, Goto(p)
  PROVE  SameRun /\ run'.pc = p /\ run'.now = FALSE /\ run'.ok = run.ok
BY EnterDoes, Zenon DEF Goto

LEMMA ExitDoes ==
  ASSUME run \in RunRecord, NEW v \in BOOLEAN, Exit(v)
  PROVE  SameRun /\ run'.pc = ExitTo /\ run'.ok = v
<1>1. ExitTo \in Inline \cup Waiting BY SMT DEF ExitTo, Inline, Waiting
<1>0. NothingToGive(v) \in BOOLEAN BY DEF NothingToGive
<1>2. run' \in RunRecord BY <1>0, <1>1, Zenon DEF Exit, RunRecord
<1>3. /\ run'.act = run.act /\ run'.gen = run.gen /\ run'.base = run.base
      /\ run'.plan = run.plan /\ run'.node = run.node /\ run'.tun = run.tun
      /\ run'.old = run.old /\ run'.cand = run.cand /\ run'.drop = run.drop
      /\ run'.pc = ExitTo /\ run'.ok = v
  BY SMT DEF Exit, RunRecord
<1> QED BY <1>2, <1>3 DEF SameRun

LEMMA StartedDoes ==
  ASSUME run \in RunRecord, NEW v \in BOOLEAN, run' = Started(v)
  PROVE  SameRun /\ run'.pc = "started" /\ run'.now = FALSE /\ run'.ok = v
<1>1. run' \in RunRecord BY Zenon DEF Started, RunRecord, Inline
<1>2. /\ run'.act = run.act /\ run'.gen = run.gen /\ run'.base = run.base
      /\ run'.plan = run.plan /\ run'.node = run.node /\ run'.tun = run.tun
      /\ run'.old = run.old /\ run'.cand = run.cand /\ run'.drop = run.drop
      /\ run'.pc = "started" /\ run'.now = FALSE /\ run'.ok = v
  BY SMT DEF Started, RunRecord
<1> QED BY <1>1, <1>2 DEF SameRun

(* ... and when it gives up a server it had prepared.                        *)
SameGoal == /\ run' \in RunRecord
            /\ run'.act = run.act /\ run'.gen = run.gen /\ run'.base = run.base
            /\ run'.plan = run.plan /\ run'.node = run.node /\ run'.tun = run.tun
            /\ run'.old = run.old

LEMMA UndoneDoes ==
  ASSUME run \in RunRecord, run' = Undone
  PROVE  SameGoal /\ run'.cand = None /\ run'.pc = "started" /\ run'.now = FALSE /\ run'.ok = FALSE
<1>1. None \in MaybeNode BY DEF MaybeNode
<1>2. Started(FALSE) \in RunRecord BY Zenon DEF Started, RunRecord, Inline
<1>3. run' \in RunRecord BY <1>1, <1>2, Zenon DEF Undone, RunRecord
<1>4. /\ run'.act = run.act /\ run'.gen = run.gen /\ run'.base = run.base
      /\ run'.plan = run.plan /\ run'.node = run.node /\ run'.tun = run.tun
      /\ run'.old = run.old /\ run'.cand = None
      /\ run'.pc = "started" /\ run'.now = FALSE /\ run'.ok = FALSE
  BY SMT DEF Undone, Started, RunRecord
<1> QED BY <1>3, <1>4 DEF SameGoal

-----------------------------------------------------------------------------
(* The run after each segment.                                               *)

LEMMA BeginStopMoves ==
  ASSUME Typed, BeginStop
  PROVE  /\ SameGoal /\ run'.cand = run.cand /\ run'.pc = "stop" /\ run'.ok = run.ok
         /\ run'.now = (front = None)
         /\ run.act \in Prestops => run'.drop = run.drop
<1>1. run \in RunRecord /\ run.drop \in BOOLEAN BY DEF Typed, TypeOK, RunRecord
<1>2. PICK d \in BOOLEAN : run' = [run EXCEPT !.pc = "stop", !.now = (front = None), !.drop = d]
  BY <1>1, Zenon DEF BeginStop
<1>3. run' \in RunRecord BY <1>1, <1>2, Zenon DEF RunRecord, Waiting
<1>4. /\ run'.act = run.act /\ run'.gen = run.gen /\ run'.base = run.base
      /\ run'.plan = run.plan /\ run'.node = run.node /\ run'.tun = run.tun
      /\ run'.old = run.old /\ run'.cand = run.cand /\ run'.ok = run.ok
      /\ run'.pc = "stop" /\ run'.now = (front = None)
  BY <1>1, <1>2, SMT DEF RunRecord
<1>5. run.act \in Prestops => run'.drop = run.drop
  BY <1>1, SMT DEF BeginStop, RunRecord
<1> QED BY <1>3, <1>4, <1>5 DEF SameGoal

LEMMA BeginConnectMoves ==
  ASSUME Typed, BeginConnect PROVE SameRun /\ run'.pc = "connect" /\ run'.ok = run.ok
<1>1. run \in RunRecord /\ "connect" \in Inline BY DEF Typed, TypeOK, Inline
<1> QED BY <1>1, GotoDoes DEF BeginConnect

LEMMA BeginProxyUpdateMoves ==
  ASSUME Typed, BeginProxyUpdate PROVE SameRun /\ run'.pc = "proxy" /\ run'.ok = run.ok
<1>1. run \in RunRecord /\ "proxy" \in Waiting BY DEF Typed, TypeOK, Waiting
<1> QED BY <1>1, GotoDoes DEF BeginProxyUpdate

LEMMA ProxyReleasedMoves ==
  ASSUME Typed, ProxyReleased PROVE SameRun /\ run'.pc = "plan" /\ run'.ok = run.ok
<1>1. run \in RunRecord /\ "plan" \in Inline BY DEF Typed, TypeOK, Inline
<1> QED BY <1>1, GotoDoes DEF ProxyReleased

LEMMA BeginSwapMoves ==
  ASSUME Typed, BeginSwap
  PROVE  /\ run' \in RunRecord /\ run'.act = run.act /\ run'.gen = run.gen
         /\ run'.cand = run.cand /\ run'.base = gen /\ run'.node = Target
         /\ run'.drop = run.drop
         /\ \/ /\ run'.pc = IF Pooled(Target) THEN "swap_stop" ELSE "candidate"
               /\ run'.old = plan
            \/ run'.pc = "swap_exit" /\ run'.ok = FALSE /\ run'.old = run.old
<1>1. run \in RunRecord /\ gen \in Nat /\ Target \in MaybeNode /\ plan \in MaybeNode
  BY DEF Typed, TypeOK, Target, TargetOf, MaybeNode
<1>2. ASSUME run' = [run EXCEPT !.base = gen, !.node = Target, !.ok = FALSE, !.pc = "swap_exit"]
      PROVE  /\ run' \in RunRecord /\ run'.act = run.act /\ run'.gen = run.gen
             /\ run'.cand = run.cand /\ run'.base = gen /\ run'.node = Target
             /\ run'.drop = run.drop
             /\ run'.pc = "swap_exit" /\ run'.ok = FALSE /\ run'.old = run.old
  <2>1. run' \in RunRecord BY <1>1, <1>2, Zenon DEF RunRecord, Inline
  <2>2. /\ run'.act = run.act /\ run'.gen = run.gen /\ run'.cand = run.cand
        /\ run'.base = gen /\ run'.node = Target /\ run'.drop = run.drop
        /\ run'.pc = "swap_exit" /\ run'.ok = FALSE /\ run'.old = run.old
    BY <1>1, <1>2, SMT DEF RunRecord
  <2> QED BY <2>1, <2>2
<1>3. ASSUME NEW t \in BOOLEAN, NEW w \in BOOLEAN, NEW p \in {"swap_stop", "candidate"},
             run' = [run EXCEPT !.base = gen, !.node = Target, !.old = plan, !.tun = t,
                                !.pc = p, !.now = w]
      PROVE  /\ run' \in RunRecord /\ run'.act = run.act /\ run'.gen = run.gen
             /\ run'.cand = run.cand /\ run'.base = gen /\ run'.node = Target
             /\ run'.drop = run.drop /\ run'.pc = p /\ run'.old = plan
  <2>1. p \in Waiting BY <1>3 DEF Waiting
  <2>2. run' \in RunRecord BY <1>1, <1>3, <2>1, Zenon DEF RunRecord
  <2>3. /\ run'.act = run.act /\ run'.gen = run.gen /\ run'.cand = run.cand
        /\ run'.base = gen /\ run'.node = Target /\ run'.drop = run.drop
        /\ run'.old = plan /\ run'.pc = p
    BY <1>1, <1>3, SMT DEF RunRecord
  <2> QED BY <2>2, <2>3
<1>4. ((run.act = "tun_hot_swap") \in BOOLEAN) /\ ((Pooled(Target) /\ NoFrontToSwap) \in BOOLEAN)
  OBVIOUS
<1>5. (IF Pooled(Target) THEN "swap_stop" ELSE "candidate") \in {"swap_stop", "candidate"}
  OBVIOUS
<1> QED BY <1>2, <1>3, <1>4, <1>5, Zenon DEF BeginSwap

LEMMA StopFrontMoves ==
  ASSUME Typed, StopFront PROVE SameRun /\ run'.pc = "stop_sides" /\ run'.ok = run.ok
<1>1. run \in RunRecord /\ "stop_sides" \in Waiting BY DEF Typed, TypeOK, Waiting
<1>2. PICK b \in BOOLEAN : Enter("stop_sides", b) BY Zenon DEF StopFront, NoSidesToStop
<1> QED BY <1>1, <1>2, EnterDoes

LEMMA StopSidesMoves ==
  ASSUME Typed, StopSides
  PROVE  /\ SameRun
         /\ \/ /\ run.act \in Prestops \cup {"disconnect"} /\ run'.pc = ExitTo
               /\ run'.ok = TRUE /\ session' = None
            \/ /\ run.act = "cleanup" /\ run'.pc = ExitTo /\ run'.ok = TRUE
               /\ session' = IF connected' THEN session ELSE None
            \/ /\ run.act = "reconnect" /\ run.base = 0 /\ run'.pc = "connect"
               /\ run'.ok = run.ok /\ session' = None
            \/ /\ run.act = "connect" \/ (run.act = "reconnect" /\ run.base # 0)
               /\ run'.pc = ExitTo /\ run'.ok = FALSE /\ session' = session
<1>1. run \in RunRecord /\ "connect" \in Inline BY DEF Typed, TypeOK, Inline
<1>2. CASE run.act \in Prestops \cup {"disconnect"} /\ session' = None /\ Exit(TRUE)
  BY <1>1, <1>2, ExitDoes
<1>3. CASE run.act = "cleanup" /\ Exit(TRUE) /\ session' = IF connected' THEN session ELSE None
  BY <1>1, <1>3, ExitDoes
<1>4. CASE run.act = "reconnect" /\ run.base = 0 /\ session' = None /\ Goto("connect")
  BY <1>1, <1>4, GotoDoes
<1>5. CASE /\ run.act = "connect" \/ (run.act = "reconnect" /\ run.base # 0)
           /\ UNCHANGED session /\ Exit(FALSE)
  BY <1>1, <1>5, ExitDoes
<1> QED BY <1>2, <1>3, <1>4, <1>5, Zenon DEF StopSides

LEMMA ConnectMoves ==
  ASSUME Typed, Connect
  PROVE  /\ run' \in RunRecord /\ run'.act = run.act /\ run'.gen = run.gen
         /\ run'.cand = run.cand /\ run'.base = gen /\ run'.node = Target
         /\ run'.old = run.old /\ run'.pc \in {"release", "plan"} /\ run'.ok = run.ok
<1>1. run \in RunRecord /\ gen \in Nat /\ Target \in MaybeNode /\ tunSetting \in BOOLEAN
  BY DEF Typed, TypeOK, Target, TargetOf, MaybeNode
<1>2. PICK p \in {"release", "plan"} :
        run' = [run EXCEPT !.base = gen, !.node = Target, !.tun = tunSetting, !.tries = 1, !.pc = p]
  BY Zenon DEF Connect
<1>3. p \in Inline \cup Waiting BY DEF Inline, Waiting
<1>4. run' \in RunRecord BY <1>1, <1>2, <1>3, Zenon DEF RunRecord
<1>5. /\ run'.act = run.act /\ run'.gen = run.gen /\ run'.cand = run.cand /\ run'.base = gen
      /\ run'.node = Target /\ run'.old = run.old /\ run'.pc = p /\ run'.ok = run.ok
  BY <1>1, <1>2, SMT DEF RunRecord
<1> QED BY <1>2, <1>4, <1>5

LEMMA PlanFailsMoves ==
  ASSUME Typed, PlanFails PROVE SameRun /\ run'.pc = ExitTo /\ run'.ok = FALSE
<1>1. run \in RunRecord BY DEF Typed, TypeOK
<1> QED BY <1>1, ExitDoes DEF PlanFails

LEMMA StartPlanMoves ==
  ASSUME Typed, StartPlan
  PROVE  /\ run' \in RunRecord /\ run'.act = run.act /\ run'.gen = run.gen
         /\ run'.cand = run.cand /\ run'.base = run.base /\ run'.node = run.node
         /\ run'.old = run.old
         /\ \/ run'.pc = "started" /\ run'.ok = FALSE
            \/ /\ run'.pc = IF run.cand # None THEN "front" ELSE "sidecar"
               /\ desired /\ run'.plan = gen
<1>1. run \in RunRecord /\ gen \in Nat BY DEF Typed, TypeOK
<1>2. ASSUME run' = [run EXCEPT !.pc = "started", !.ok = FALSE]
      PROVE  /\ run' \in RunRecord /\ run'.act = run.act /\ run'.gen = run.gen
             /\ run'.cand = run.cand /\ run'.base = run.base /\ run'.node = run.node
             /\ run'.old = run.old /\ run'.pc = "started" /\ run'.ok = FALSE
  <2>1. run' \in RunRecord BY <1>1, <1>2, Zenon DEF RunRecord, Inline
  <2> QED BY <1>1, <1>2, <2>1, SMT DEF RunRecord
<1>3. ASSUME NEW p \in {"front", "sidecar"},
             run' = [run EXCEPT !.plan = gen, !.tries = 1, !.pc = p]
      PROVE  /\ run' \in RunRecord /\ run'.act = run.act /\ run'.gen = run.gen
             /\ run'.cand = run.cand /\ run'.base = run.base /\ run'.node = run.node
             /\ run'.old = run.old /\ run'.pc = p /\ run'.plan = gen
  <2>1. p \in Waiting BY <1>3 DEF Waiting
  <2>2. run' \in RunRecord BY <1>1, <1>3, <2>1, Zenon DEF RunRecord
  <2> QED BY <1>1, <1>3, <2>2, SMT DEF RunRecord
<1>4. (IF run.cand # None THEN "front" ELSE "sidecar") \in {"front", "sidecar"}
  OBVIOUS
<1> QED BY <1>2, <1>3, <1>4, Zenon DEF StartPlan


LEMMA SidecarUpMoves ==
  ASSUME Typed, SidecarUp
  PROVE  /\ SameRun /\ run'.now = FALSE
         /\ \/ run'.pc = "started" /\ run'.ok = FALSE /\ side' = side
            \/ /\ run'.pc = "front" /\ run'.ok = run.ok /\ ~Cancelled
               /\ side' = IF Relayed(run.node) THEN [side EXCEPT ![Kind[run.node]] = run.node]
                                               ELSE side
<1>1. run \in RunRecord /\ "front" \in Waiting BY DEF Typed, TypeOK, Waiting
<1>2. CASE run' = Started(FALSE) /\ UNCHANGED side BY <1>1, <1>2, StartedDoes
<1>3. CASE /\ Goto("front") /\ ~Cancelled
           /\ side' = IF Relayed(run.node) THEN [side EXCEPT ![Kind[run.node]] = run.node]
                                           ELSE side
  BY <1>1, <1>3, GotoDoes
<1> QED BY <1>2, <1>3, Zenon DEF SidecarUp

LEMMA SidecarFailsMoves ==
  ASSUME Typed, SidecarFails PROVE SameRun /\ run'.pc = "started" /\ run'.ok = FALSE
<1>1. run \in RunRecord BY DEF Typed, TypeOK
<1> QED BY <1>1, StartedDoes DEF SidecarFails

LEMMA FrontUpMoves ==
  ASSUME Typed, FrontUp
  PROVE  /\ SameRun
         /\ \/ run'.pc = "front_abort" /\ plan' = plan /\ run'.ok = run.ok
            \/ /\ run'.pc = "pin" /\ plan' = plan /\ run'.ok = run.ok
               /\ ~Cancelled /\ Pooled(run.node)
            \/ /\ run'.pc = "started" /\ run'.ok = TRUE /\ plan' = run.node
               /\ ~Cancelled /\ ~Pooled(run.node)
<1>1. run \in RunRecord /\ "front_abort" \in Waiting /\ "pin" \in Waiting
  BY DEF Typed, TypeOK, Waiting
<1>2. CASE Goto("front_abort") /\ UNCHANGED plan BY <1>1, <1>2, GotoDoes
<1>3. CASE ~Cancelled /\ Pooled(run.node) /\ Goto("pin") /\ UNCHANGED plan
  BY <1>1, <1>3, GotoDoes
<1>4. CASE ~Cancelled /\ ~Pooled(run.node) /\ run' = Started(TRUE) /\ plan' = run.node
  BY <1>1, <1>4, StartedDoes
<1> QED BY <1>2, <1>3, <1>4, Zenon DEF FrontUp

LEMMA FrontGivenUpMoves ==
  ASSUME Typed, FrontGivenUp
  PROVE  SameGoal /\ run'.cand = None /\ run'.pc = "started" /\ run'.ok = FALSE
<1>1. run \in RunRecord BY DEF Typed, TypeOK
<1> QED BY <1>1, UndoneDoes DEF FrontGivenUp

LEMMA FrontFailsMoves ==
  ASSUME Typed, FrontFails
  PROVE  /\ SameGoal
         /\ \/ run'.pc = "front" /\ run'.cand = run.cand /\ run'.ok = run.ok /\ side' = side
            \/ /\ run'.pc = "started" /\ run'.cand = None /\ run'.ok = FALSE
               /\ side' = UndoneSides
<1>1. run \in RunRecord BY DEF Typed, TypeOK
<1>2. CASE run' = [run EXCEPT !.tries = 2] /\ UNCHANGED side
  <2>1. run' \in RunRecord BY <1>1, <1>2, Zenon DEF RunRecord
  <2>2. run.pc = "front" BY DEF FrontFails, At
  <2>3. /\ run'.act = run.act /\ run'.gen = run.gen /\ run'.base = run.base
        /\ run'.plan = run.plan /\ run'.node = run.node /\ run'.tun = run.tun
        /\ run'.old = run.old /\ run'.cand = run.cand /\ run'.ok = run.ok /\ run'.pc = run.pc
    BY <1>1, <1>2, SMT DEF RunRecord
  <2> QED BY <1>2, <2>1, <2>2, <2>3 DEF SameGoal
<1>3. CASE run' = Undone /\ side' = UndoneSides BY <1>1, <1>3, UndoneDoes
<1> QED BY <1>2, <1>3, Zenon DEF FrontFails

LEMMA PinnedMoves ==
  ASSUME Typed, Pinned
  PROVE  /\ SameRun
         /\ \/ run'.pc = "front_abort" /\ plan' = plan /\ run'.ok = run.ok
            \/ /\ run'.pc = "started" /\ run'.ok = TRUE /\ plan' = run.node
               /\ ~Cancelled
<1>1. run \in RunRecord /\ "front_abort" \in Waiting BY DEF Typed, TypeOK, Waiting
<1>2. CASE Enter("front_abort", front = None) /\ UNCHANGED plan
  <2>1. (front = None) \in BOOLEAN OBVIOUS
  <2> QED BY <1>1, <1>2, <2>1, EnterDoes
<1>3. CASE ~Cancelled /\ run' = Started(TRUE) /\ plan' = run.node
  BY <1>1, <1>3, StartedDoes
<1> QED BY <1>2, <1>3, Zenon DEF Pinned

LEMMA PinFailsMoves ==
  ASSUME Typed, PinFails PROVE SameRun /\ run'.pc = "front_abort" /\ run'.ok = run.ok
<1>1. run \in RunRecord /\ "front_abort" \in Waiting BY DEF Typed, TypeOK, Waiting
<1>2. (front = None) \in BOOLEAN OBVIOUS
<1> QED BY <1>1, <1>2, EnterDoes DEF PinFails

LEMMA FrontAbortedMoves ==
  ASSUME Typed, FrontAborted
  PROVE  /\ SameGoal
         /\ \/ /\ run'.pc = "front" /\ run'.cand = run.cand /\ run'.ok = run.ok
               /\ ~Cancelled /\ ~(front # None /\ connected /\ ~Switching)
               /\ FrontEnds(side)
            \/ /\ run'.pc = "started" /\ run'.cand = None /\ run'.ok = FALSE
               /\ FrontEnds(UndoneSides)
<1>1. run \in RunRecord /\ run.pc = "front_abort" BY DEF Typed, TypeOK, FrontAborted, At
<1>2. CASE /\ ~Cancelled /\ ~(front # None /\ connected /\ ~Switching) /\ FrontEnds(side)
           /\ run' = [run EXCEPT !.pc = "front", !.tries = 2, !.now = FALSE]
  <2>1. run' \in RunRecord BY <1>1, <1>2, Zenon DEF RunRecord, Waiting
  <2>2. /\ run'.act = run.act /\ run'.gen = run.gen /\ run'.base = run.base
        /\ run'.plan = run.plan /\ run'.node = run.node /\ run'.tun = run.tun
        /\ run'.old = run.old /\ run'.cand = run.cand /\ run'.ok = run.ok
        /\ run'.pc = "front"
    BY <1>1, <1>2, SMT DEF RunRecord
  <2> QED BY <1>2, <2>1, <2>2 DEF SameGoal
<1>3. CASE FrontEnds(UndoneSides) /\ run' = Undone BY <1>1, <1>3, UndoneDoes
<1> QED BY <1>2, <1>3, Zenon DEF FrontAborted

LEMMA AfterStartConnectMoves ==
  ASSUME Typed, AfterStartConnect
  PROVE  /\ SameRun /\ run'.ok = run.ok
         /\ \/ ~run.ok /\ run'.pc = ExitTo /\ sysproxy' = sysproxy
            \/ run.ok /\ run.tun /\ run'.pc = "ready" /\ sysproxy' = sysproxy
            \/ run.ok /\ ~run.tun /\ run'.pc = "proxy" /\ sysproxy' = proxySetting
<1>1. run \in RunRecord /\ run.ok \in BOOLEAN /\ "ready" \in Inline /\ "proxy" \in Waiting
  BY DEF Typed, TypeOK, RunRecord, Inline, Waiting
<1>2. CASE ~run.ok /\ Exit(FALSE) /\ UNCHANGED sysproxy BY <1>1, <1>2, ExitDoes
<1>3. CASE run.ok /\ run.tun /\ Goto("ready") /\ UNCHANGED sysproxy BY <1>1, <1>3, GotoDoes
<1>4. CASE run.ok /\ ~run.tun /\ Goto("proxy") /\ sysproxy' = proxySetting
  BY <1>1, <1>4, GotoDoes
<1> QED BY <1>2, <1>3, <1>4, Zenon DEF AfterStartConnect

(* A replacement that is discarded, whatever it leaves of the sidecars.      *)
LEMMA FallBackDoes ==
  ASSUME Typed, NEW sd, NEW c \in MaybeNode, FallBack(sd, c)
  PROVE  /\ SameGoal /\ run'.cand = c /\ run'.ok = FALSE
         /\ \/ /\ CanRollBack(sd) /\ run'.pc = "rollback"
               /\ front' = None /\ connected' = FALSE /\ plan' = plan
            \/ /\ ~CanRollBack(sd) /\ run'.pc = "unexpected" /\ run'.now = NothingToStop
               /\ plan' = None /\ front' = front /\ connected' = connected
<1>1. run \in RunRecord BY DEF Typed, TypeOK
<1>2. ASSUME run' = [run EXCEPT !.ok = FALSE, !.cand = c, !.pc = "rollback"]
      PROVE  SameGoal /\ run'.cand = c /\ run'.ok = FALSE /\ run'.pc = "rollback"
  <2>1. run' \in RunRecord BY <1>1, <1>2, Zenon DEF RunRecord, Waiting
  <2>2. /\ run'.act = run.act /\ run'.gen = run.gen /\ run'.base = run.base
        /\ run'.plan = run.plan /\ run'.node = run.node /\ run'.tun = run.tun
        /\ run'.old = run.old /\ run'.cand = c /\ run'.ok = FALSE /\ run'.pc = "rollback"
    BY <1>1, <1>2, SMT DEF RunRecord
  <2> QED BY <2>1, <2>2 DEF SameGoal
<1>3. ASSUME NEW b \in BOOLEAN,
             run' = [run EXCEPT !.ok = FALSE, !.cand = c, !.pc = "unexpected", !.now = b]
      PROVE  /\ SameGoal /\ run'.cand = c /\ run'.ok = FALSE /\ run'.pc = "unexpected"
             /\ run'.now = b
  <2>1. run' \in RunRecord BY <1>1, <1>3, Zenon DEF RunRecord, Waiting
  <2>2. /\ run'.act = run.act /\ run'.gen = run.gen /\ run'.base = run.base
        /\ run'.plan = run.plan /\ run'.node = run.node /\ run'.tun = run.tun
        /\ run'.old = run.old /\ run'.cand = c /\ run'.ok = FALSE /\ run'.pc = "unexpected"
        /\ run'.now = b
    BY <1>1, <1>3, SMT DEF RunRecord
  <2> QED BY <2>1, <2>2 DEF SameGoal
<1>4. NothingToStop \in BOOLEAN BY DEF NothingToStop
<1> QED BY <1>2, <1>3, <1>4, Zenon DEF FallBack

LEMMA AfterStartSwapBackMoves ==
  ASSUME Typed, AfterStartSwapBack
  PROVE  /\ SameGoal /\ run'.ok = FALSE /\ run'.cand \in {None, run.cand}
         /\ \/ CanRollBack(side) /\ run'.pc = "rollback"
            \/ run'.pc = "unexpected"
<1>1. run.cand \in MaybeNode /\ None \in MaybeNode BY DEF Typed, TypeOK, RunRecord, MaybeNode
<1>2. PICK c \in {None, run.cand} : FallBack(side, c)
  BY Zenon DEF AfterStartSwapBack, KeptCandidate
<1>3. c \in MaybeNode BY <1>1, <1>2
<1> QED BY <1>2, <1>3, FallBackDoes

LEMMA AfterStartSwapMoves ==
  ASSUME Typed, AfterStartSwap
  PROVE  /\ run' \in RunRecord /\ run'.act = run.act /\ run'.gen = run.gen
         /\ run'.base = run.base /\ run'.node = run.node /\ run'.old = run.old
         /\ run'.tun = run.tun /\ run'.ok = run.ok
         /\ run'.cand = IF Kind[run.node] = "hysteria" THEN None ELSE run.cand
         /\ run'.pc = "swap_old" /\ run'.now = (side["hysteria"] = None)
<1>1. run \in RunRecord /\ run.cand \in MaybeNode /\ None \in MaybeNode
  BY DEF Typed, TypeOK, RunRecord, MaybeNode
<1>2. PICK c \in MaybeNode, b \in BOOLEAN :
        /\ run' = [run EXCEPT !.cand = c, !.pc = "swap_old", !.now = b]
        /\ c = IF Kind[run.node] = "hysteria" THEN None ELSE run.cand
        /\ b = (side["hysteria"] = None)
  BY <1>1, Zenon DEF AfterStartSwap
<1>3. run' \in RunRecord BY <1>1, <1>2, Zenon DEF RunRecord, Waiting
<1>4. /\ run'.act = run.act /\ run'.gen = run.gen /\ run'.base = run.base
      /\ run'.node = run.node /\ run'.old = run.old /\ run'.tun = run.tun
      /\ run'.ok = run.ok /\ run'.cand = c /\ run'.pc = "swap_old" /\ run'.now = b
  BY <1>1, <1>2, SMT DEF RunRecord
<1> QED BY <1>2, <1>3, <1>4

LEMMA SwapOldMoves ==
  ASSUME Typed, SwapOld
  PROVE  /\ SameRun /\ run'.ok = run.ok
         /\ \/ run.tun /\ run'.pc = "capture" /\ sysproxy' = sysproxy
            \/ ~run.tun /\ run'.pc = "proxy" /\ sysproxy' = proxySetting
<1>1. run \in RunRecord /\ "capture" \in Inline /\ "proxy" \in Waiting
  BY DEF Typed, TypeOK, Inline, Waiting
<1>2. CASE run.tun /\ Goto("capture") /\ UNCHANGED sysproxy BY <1>1, <1>2, GotoDoes
<1>3. CASE ~run.tun /\ Goto("proxy") /\ sysproxy' = proxySetting BY <1>1, <1>3, GotoDoes
<1> QED BY <1>2, <1>3, Zenon DEF SwapOld

LEMMA ProxyDoneMoves ==
  ASSUME Typed, ProxyDone
  PROVE  /\ SameRun
         /\ \/ run.act \in Swaps /\ run'.pc = "capture" /\ run'.ok = run.ok /\ session' = session
            \/ /\ run.act = "proxy_update" /\ run'.pc = ExitTo /\ run'.ok = TRUE
               /\ session' = IF connected THEN Capture(committed, FALSE) ELSE session
            \/ /\ run.act \notin Swaps \cup {"proxy_update"} /\ run'.pc = "ready"
               /\ run'.ok = run.ok /\ session' = session
<1>1. run \in RunRecord /\ "capture" \in Inline /\ "ready" \in Inline
  BY DEF Typed, TypeOK, Inline
<1>2. CASE run.act \in Swaps /\ Goto("capture") /\ UNCHANGED session BY <1>1, <1>2, GotoDoes
<1>3. CASE /\ run.act = "proxy_update" /\ Exit(TRUE)
           /\ session' = IF connected THEN Capture(committed, FALSE) ELSE session
  BY <1>1, <1>3, ExitDoes
<1>4. CASE run.act \notin Swaps \cup {"proxy_update"} /\ Goto("ready") /\ UNCHANGED session
  BY <1>1, <1>4, GotoDoes
<1> QED BY <1>2, <1>3, <1>4 DEF ProxyDone, Swaps

LEMMA ProxyFailsMoves ==
  ASSUME Typed, ProxyFails
  PROVE  /\ SameGoal /\ run'.cand = run.cand
         /\ \/ /\ run.act \in Swaps /\ run'.pc = "unexpected" /\ run'.ok = run.ok
               /\ run'.now = NothingToStop /\ plan' = None
            \/ run.act = "proxy_update" /\ run'.pc = ExitTo /\ run'.ok = FALSE /\ plan' = plan
            \/ /\ run.act \notin Swaps \cup {"proxy_update"} /\ run'.pc = "stop"
               /\ run'.ok = run.ok /\ run'.now = (front = None) /\ plan' = plan
<1>1. run \in RunRecord /\ "unexpected" \in Waiting BY DEF Typed, TypeOK, Waiting
<1>2. CASE run.act \in Swaps /\ Enter("unexpected", NothingToStop) /\ plan' = None
  <2>1. NothingToStop \in BOOLEAN BY DEF NothingToStop
  <2> QED BY <1>1, <1>2, <2>1, EnterDoes DEF SameRun, SameGoal
<1>3. CASE run.act = "proxy_update" /\ Exit(FALSE) /\ UNCHANGED plan
  BY <1>1, <1>3, ExitDoes DEF SameRun, SameGoal
<1>4. CASE /\ run.act \notin Swaps \cup {"proxy_update"} /\ UNCHANGED plan
           /\ run' = [run EXCEPT !.pc = "stop", !.drop = FALSE, !.now = (front = None)]
  <2>1. PICK b \in BOOLEAN : run' = [run EXCEPT !.pc = "stop", !.drop = FALSE, !.now = b]
                             /\ b = (front = None)
    BY <1>4, Zenon
  <2>2. run' \in RunRecord BY <1>1, <2>1, Zenon DEF RunRecord, Waiting
  <2>3. /\ run'.act = run.act /\ run'.gen = run.gen /\ run'.base = run.base
        /\ run'.plan = run.plan /\ run'.node = run.node /\ run'.tun = run.tun
        /\ run'.old = run.old /\ run'.cand = run.cand /\ run'.ok = run.ok
        /\ run'.pc = "stop" /\ run'.now = b
    BY <1>1, <2>1, SMT DEF RunRecord
  <2> QED BY <1>4, <2>1, <2>2, <2>3 DEF SameGoal
<1> QED BY <1>2, <1>3, <1>4 DEF ProxyFails, Swaps

LEMMA ReadyMoves ==
  ASSUME Typed, Ready
  PROVE  /\ SameGoal /\ run'.cand = run.cand
         /\ \/ /\ Stale /\ run'.pc = "stop" /\ run'.ok = run.ok /\ run'.now = (front = None)
               /\ session' = session /\ UNCHANGED selectionVars /\ plan' = plan
            \/ /\ ~Stale /\ Mismatch(run.node) /\ run'.pc = "unexpected" /\ run'.ok = run.ok
               /\ run'.now = NothingToStop /\ session' = Capture(run.node, run.tun)
               /\ UNCHANGED selectionVars /\ plan' = None
            \/ /\ ~Stale /\ ~Mismatch(run.node) /\ run'.pc = ExitTo /\ run'.ok = TRUE
               /\ session' = Capture(run.node, run.tun) /\ Commit(run.node) /\ plan' = plan
<1>1. run \in RunRecord /\ desired \in BOOLEAN /\ "unexpected" \in Waiting
  BY DEF Typed, TypeOK, Waiting
<1>2. CASE /\ Stale /\ UNCHANGED <<session, selectionVars, plan>>
           /\ run' = [run EXCEPT !.pc = "stop", !.drop = ~desired, !.now = (front = None)]
  <2>1. PICK d \in BOOLEAN, b \in BOOLEAN :
          run' = [run EXCEPT !.pc = "stop", !.drop = d, !.now = b] /\ b = (front = None)
    BY <1>2, Zenon
  <2>2. run' \in RunRecord BY <1>1, <2>1, Zenon DEF RunRecord, Waiting
  <2>3. /\ run'.act = run.act /\ run'.gen = run.gen /\ run'.base = run.base
        /\ run'.plan = run.plan /\ run'.node = run.node /\ run'.tun = run.tun
        /\ run'.old = run.old /\ run'.cand = run.cand /\ run'.ok = run.ok
        /\ run'.pc = "stop" /\ run'.now = b
    BY <1>1, <2>1, SMT DEF RunRecord
  <2> QED BY <1>2, <2>1, <2>2, <2>3 DEF SameGoal, selectionVars
<1>3. CASE /\ ~Stale /\ Mismatch(run.node) /\ session' = Capture(run.node, run.tun)
           /\ Enter("unexpected", NothingToStop) /\ plan' = None /\ UNCHANGED selectionVars
  <2>1. NothingToStop \in BOOLEAN BY DEF NothingToStop
  <2> QED BY <1>1, <1>3, <2>1, EnterDoes DEF SameRun, SameGoal
<1>4. CASE /\ ~Stale /\ ~Mismatch(run.node) /\ session' = Capture(run.node, run.tun)
           /\ Exit(TRUE) /\ Commit(run.node) /\ UNCHANGED plan
  BY <1>1, <1>4, ExitDoes DEF SameRun, SameGoal
<1> QED BY <1>2, <1>3, <1>4, Zenon DEF Ready

LEMMA SwapCaptureMoves ==
  ASSUME Typed, SwapCapture
  PROVE  /\ SameGoal /\ run'.cand \in {None, run.cand}
         /\ \/ /\ Stale /\ run'.ok = FALSE /\ session' = session
               /\ side' = IF Kind[run.node] = "hysteria"
                          THEN [side EXCEPT !["hysteria"] = None] ELSE side
               /\ FallBack(side', run.cand) /\ run'.cand = run.cand
               /\ \/ CanRollBack(side') /\ run'.pc = "rollback"
                  \/ run'.pc = "unexpected"
            \/ /\ ~Stale /\ run'.pc = "swap_amnezia" /\ run'.cand = None /\ run'.ok = run.ok
               /\ run'.now = (side["amnezia"] = None)
               /\ session' = Capture(run.node, run.tun)
               /\ side' = IF Kind[run.node] = "amnezia"
                          THEN [side EXCEPT !["amnezia"] = run.node] ELSE side
               /\ UNCHANGED <<plan, front, connected>>
<1>1. run \in RunRecord /\ run.cand \in MaybeNode BY DEF Typed, TypeOK, RunRecord
<1>2. CASE /\ Stale /\ UNCHANGED session /\ FallBack(side', run.cand)
           /\ side' = IF Kind[run.node] = "hysteria"
                      THEN [side EXCEPT !["hysteria"] = None] ELSE side
  BY <1>1, <1>2, FallBackDoes
<1>3. CASE /\ ~Stale /\ UNCHANGED <<plan, front, connected>>
           /\ session' = Capture(run.node, run.tun)
           /\ side' = IF Kind[run.node] = "amnezia"
                      THEN [side EXCEPT !["amnezia"] = run.node] ELSE side
           /\ run' = [run EXCEPT !.cand = None, !.pc = "swap_amnezia",
                                 !.now = (side["amnezia"] = None)]
  <2>1. PICK b \in BOOLEAN : run' = [run EXCEPT !.cand = None, !.pc = "swap_amnezia", !.now = b]
                             /\ b = (side["amnezia"] = None)
    BY <1>3, Zenon
  <2>2. None \in MaybeNode BY DEF MaybeNode
  <2>3. run' \in RunRecord BY <1>1, <2>1, <2>2, Zenon DEF RunRecord, Waiting
  <2>4. /\ run'.act = run.act /\ run'.gen = run.gen /\ run'.base = run.base
        /\ run'.plan = run.plan /\ run'.node = run.node /\ run'.tun = run.tun
        /\ run'.old = run.old /\ run'.cand = None /\ run'.ok = run.ok
        /\ run'.pc = "swap_amnezia" /\ run'.now = b
    BY <1>1, <2>1, SMT DEF RunRecord
  <2> QED BY <1>3, <2>1, <2>3, <2>4 DEF SameGoal
<1>4. \/ /\ Stale /\ UNCHANGED session /\ FallBack(side', run.cand)
         /\ side' = IF Kind[run.node] = "hysteria"
                    THEN [side EXCEPT !["hysteria"] = None] ELSE side
      \/ /\ ~Stale /\ UNCHANGED <<plan, front, connected>>
         /\ session' = Capture(run.node, run.tun)
         /\ side' = IF Kind[run.node] = "amnezia"
                    THEN [side EXCEPT !["amnezia"] = run.node] ELSE side
         /\ run' = [run EXCEPT !.cand = None, !.pc = "swap_amnezia",
                               !.now = (side["amnezia"] = None)]
  BY Zenon DEF SwapCapture
<1> QED BY <1>2, <1>3, <1>4

LEMMA SwapAmneziaMoves ==
  ASSUME Typed, SwapAmnezia PROVE SameRun /\ run'.pc = "commit" /\ run'.ok = run.ok
<1>1. run \in RunRecord /\ "commit" \in Inline BY DEF Typed, TypeOK, Inline
<1> QED BY <1>1, GotoDoes DEF SwapAmnezia

LEMMA SwapCommitMoves ==
  ASSUME Typed, SwapCommit
  PROVE  /\ SameRun
         /\ \/ /\ Mismatch(run.node) /\ run'.pc = "unexpected" /\ run'.ok = run.ok
               /\ run'.now = NothingToStop /\ plan' = None /\ UNCHANGED selectionVars
            \/ /\ ~Mismatch(run.node) /\ run'.pc = ExitTo /\ run'.ok = TRUE
               /\ Commit(run.node) /\ plan' = plan
<1>1. run \in RunRecord /\ "unexpected" \in Waiting BY DEF Typed, TypeOK, Waiting
<1>2. CASE /\ Mismatch(run.node) /\ Enter("unexpected", NothingToStop) /\ plan' = None
           /\ UNCHANGED selectionVars
  <2>1. NothingToStop \in BOOLEAN BY DEF NothingToStop
  <2> QED BY <1>1, <1>2, <2>1, EnterDoes
<1>3. CASE ~Mismatch(run.node) /\ Exit(TRUE) /\ Commit(run.node) /\ UNCHANGED plan
  BY <1>1, <1>3, ExitDoes
<1> QED BY <1>2, <1>3, Zenon DEF SwapCommit

LEMMA CandidateUpMoves ==
  ASSUME Typed, CandidateUp
  PROVE  /\ SameGoal
         /\ \/ Stale /\ run'.pc = ExitTo /\ run'.ok = FALSE /\ run'.cand = run.cand
            \/ /\ ~Stale /\ run'.pc = "swap_stop" /\ run'.cand = run.node /\ run'.ok = run.ok
               /\ run'.now = NoFrontToSwap
<1>1. run \in RunRecord /\ run.node \in MaybeNode BY DEF Typed, TypeOK, RunRecord
<1>2. CASE Stale /\ Exit(FALSE) BY <1>1, <1>2, ExitDoes DEF SameRun, SameGoal
<1>3. CASE /\ ~Stale
           /\ run' = [run EXCEPT !.cand = run.node, !.pc = "swap_stop", !.now = NoFrontToSwap]
  <2>1. PICK c \in MaybeNode, b \in BOOLEAN :
          /\ run' = [run EXCEPT !.cand = c, !.pc = "swap_stop", !.now = b]
          /\ c = run.node /\ b = NoFrontToSwap
    BY <1>1, <1>3, Zenon DEF NoFrontToSwap
  <2>2. run' \in RunRecord BY <1>1, <2>1, Zenon DEF RunRecord, Waiting
  <2>3. /\ run'.act = run.act /\ run'.gen = run.gen /\ run'.base = run.base
        /\ run'.plan = run.plan /\ run'.node = run.node /\ run'.tun = run.tun
        /\ run'.old = run.old /\ run'.cand = c /\ run'.ok = run.ok
        /\ run'.pc = "swap_stop" /\ run'.now = b
    BY <1>1, <2>1, SMT DEF RunRecord
  <2> QED BY <1>3, <2>1, <2>2, <2>3 DEF SameGoal
<1> QED BY <1>2, <1>3, Zenon DEF CandidateUp

LEMMA CandidateFailsMoves ==
  ASSUME Typed, CandidateFails PROVE SameRun /\ run'.pc = ExitTo /\ run'.ok = FALSE
<1>1. run \in RunRecord BY DEF Typed, TypeOK
<1> QED BY <1>1, ExitDoes DEF CandidateFails

LEMMA SwapStopMoves ==
  ASSUME Typed, SwapStop PROVE SameRun /\ run'.pc = "swap_stopped" /\ run'.ok = run.ok
<1>1. run \in RunRecord /\ "swap_stopped" \in Inline BY DEF Typed, TypeOK, Inline
<1> QED BY <1>1, GotoDoes DEF SwapStop

LEMMA SwapStoppedMoves ==
  ASSUME Typed, SwapStopped
  PROVE  /\ SameGoal /\ run'.cand \in {None, run.cand}
         /\ \/ /\ Stale /\ FallBack(side, KeptCandidate) /\ run'.ok = FALSE
               /\ \/ CanRollBack(side) /\ run'.pc = "rollback"
                  \/ run'.pc = "unexpected"
            \/ /\ ~Stale /\ run'.pc = "plan" /\ run'.cand = run.cand /\ run'.ok = run.ok
               /\ UNCHANGED <<front, connected, plan>>
<1>1. run \in RunRecord /\ "plan" \in Inline /\ run.cand \in MaybeNode /\ None \in MaybeNode
  BY DEF Typed, TypeOK, Inline, RunRecord, MaybeNode
<1>2. CASE Stale /\ FallBack(side, KeptCandidate)
  <2>1. KeptCandidate \in {None, run.cand} BY DEF KeptCandidate
  <2>2. KeptCandidate \in MaybeNode BY <1>1, <2>1
  <2> QED BY <1>2, <2>1, <2>2, FallBackDoes
<1>3. CASE ~Stale /\ Goto("plan") /\ UNCHANGED <<front, connected, plan>>
  BY <1>1, <1>3, GotoDoes DEF SameRun, SameGoal
<1> QED BY <1>2, <1>3, Zenon DEF SwapStopped

LEMMA RolledBackMoves ==
  ASSUME Typed, RolledBack PROVE SameRun /\ run'.pc = ExitTo /\ run'.ok = FALSE
<1>1. run \in RunRecord BY DEF Typed, TypeOK
<1> QED BY <1>1, ExitDoes DEF RolledBack

LEMMA RollbackFailsMoves ==
  ASSUME Typed, RollbackFails
  PROVE  SameRun /\ run'.pc = "unexpected" /\ run'.ok = run.ok /\ run'.now = NothingToStop
<1>1. run \in RunRecord /\ "unexpected" \in Waiting BY DEF Typed, TypeOK, Waiting
<1>2. NothingToStop \in BOOLEAN BY DEF NothingToStop
<1> QED BY <1>1, <1>2, EnterDoes DEF RollbackFails

LEMMA UnexpectedMoves ==
  ASSUME Typed, Unexpected PROVE SameRun /\ run'.pc = ExitTo /\ run'.ok = FALSE
<1>1. run \in RunRecord BY DEF Typed, TypeOK
<1> QED BY <1>1, ExitDoes DEF Unexpected

LEMMA SwapExitMoves ==
  ASSUME Typed, SwapExit
  PROVE  SameGoal /\ run'.cand = None /\ run'.pc = "finish" /\ run'.ok = run.ok /\ run'.now = run.now
<1>1. run \in RunRecord /\ None \in MaybeNode BY DEF Typed, TypeOK, MaybeNode
<1>2. run' = [run EXCEPT !.cand = None, !.pc = "finish"] BY DEF SwapExit
<1>3. run' \in RunRecord BY <1>1, <1>2, Zenon DEF RunRecord, Inline
<1>4. /\ run'.act = run.act /\ run'.gen = run.gen /\ run'.base = run.base
      /\ run'.plan = run.plan /\ run'.node = run.node /\ run'.tun = run.tun
      /\ run'.old = run.old /\ run'.cand = None /\ run'.ok = run.ok
      /\ run'.pc = "finish" /\ run'.now = run.now
  BY <1>1, <1>2, SMT DEF RunRecord
<1> QED BY <1>3, <1>4 DEF SameGoal

LEMMA ReconnectExitMoves ==
  ASSUME Typed, ReconnectExit PROVE SameRun /\ run'.pc = "finish" /\ run'.ok = run.ok
<1>1. run \in RunRecord /\ "finish" \in Inline BY DEF Typed, TypeOK, Inline
<1> QED BY <1>1, GotoDoes DEF ReconnectExit

-----------------------------------------------------------------------------
(* Every segment keeps the run in order.                                     *)

Segment ==
  \/ BeginStop \/ BeginConnect \/ BeginProxyUpdate \/ BeginSwap
  \/ StopFront \/ StopSides \/ Connect \/ ProxyReleased \/ PlanFails \/ StartPlan
  \/ SidecarUp \/ SidecarFails \/ FrontUp \/ FrontGivenUp \/ FrontFails
  \/ Pinned \/ PinFails \/ FrontAborted
  \/ AfterStartConnect \/ AfterStartSwapBack \/ AfterStartSwap \/ SwapOld
  \/ ProxyDone \/ ProxyFails \/ Ready \/ SwapCapture \/ SwapAmnezia \/ SwapCommit
  \/ CandidateUp \/ CandidateFails \/ SwapStop \/ SwapStopped
  \/ RolledBack \/ RollbackFails \/ Unexpected \/ SwapExit \/ ReconnectExit

LEMMA StepsAreSegments ==
  ASSUME InlineStep \/ WaitStep PROVE Segment \/ FinishTransition \/ FinishPrestop
BY Zenon DEF InlineStep, WaitStep, Begin, Segment

LEMMA TargetIsNode == ASSUME Typed PROVE Target \in Node
BY DEF Typed, TypeOK, Target, TargetOf, MaybeNode

LEMMA BegunStep ==
  ASSUME Typed, run.pc # "idle", run' \in RunRecord, run'.act = run.act, run'.gen = run.gen,
         run'.node = run.node \/ run'.node \in Node,
         run'.pc \in Manned \cup {"proxy"} =>
           run'.node \in Node \/ (run'.pc = "proxy" /\ run.act = "proxy_update"),
         run'.pc = "rollback" => run'.old \in Node,
         run'.pc = "candidate" => run.act \in Swaps,
         run.act \notin Swaps => run'.cand \in {None, run.cand}
  PROVE  RunBegun'
<1>1. run.act # "none" BY Awake DEF Active
<1>2. run'.pc \in Manned => run'.node \in Node BY DEF Manned
<1>3. run'.pc = "proxy" /\ run'.act # "proxy_update" => run'.node \in Node OBVIOUS
<1>4. run'.act \in Prestops => run'.node \in Node BY DEF Typed, RunBegun
<1>5. run'.act \notin Swaps => run'.cand = None BY DEF Typed, RunBegun
<1>6. Active' BY <1>1 DEF Active
<1> QED BY <1>2, <1>3, <1>4, <1>5, <1>6 DEF RunBegun

LEMMA SegmentRun ==
  ASSUME Typed, Segment PROVE run' \in RunRecord /\ RunBegun'
<1>0. /\ run.pc \in Manned => run.node \in Node
      /\ run.pc = "proxy" /\ run.act # "proxy_update" => run.node \in Node
      /\ run.act \in Prestops => run.node \in Node
      /\ run.act \notin Swaps => run.cand = None
      /\ run.pc = "candidate" => run.act \in Swaps
      /\ run.old \in Node \cup {None} /\ None \notin Node
  BY ConnectionAssumption DEF Typed, TypeOK, RunRecord, RunBegun, MaybeNode
<1>1. CASE BeginStop
  BY <1>0, <1>1, BeginStopMoves, BegunStep
  DEF BeginStop, At, SameRun, SameGoal, Manned, ExitTo
<1>2. CASE BeginConnect
  BY <1>0, <1>2, BeginConnectMoves, BegunStep
  DEF BeginConnect, At, SameRun, SameGoal, Manned, ExitTo
<1>3. CASE BeginProxyUpdate
  BY <1>0, <1>3, BeginProxyUpdateMoves, BegunStep
  DEF BeginProxyUpdate, At, SameRun, SameGoal, Manned, ExitTo
<1>4. CASE BeginSwap
  BY <1>0, <1>4, BeginSwapMoves, BegunStep, TargetIsNode
  DEF BeginSwap, At, SameRun, SameGoal, Manned, ExitTo
<1>5. CASE StopFront
  BY <1>0, <1>5, StopFrontMoves, BegunStep
  DEF StopFront, At, SameRun, SameGoal, Manned, ExitTo
<1>6. CASE StopSides
  BY <1>0, <1>6, StopSidesMoves, BegunStep
  DEF StopSides, At, SameRun, SameGoal, Manned, ExitTo
<1>7. CASE Connect
  BY <1>0, <1>7, ConnectMoves, BegunStep, TargetIsNode
  DEF Connect, At, SameRun, SameGoal, Manned, ExitTo, Manned
<1>8. CASE ProxyReleased
  BY <1>0, <1>8, ProxyReleasedMoves, BegunStep
  DEF ProxyReleased, At, SameRun, SameGoal, Manned, ExitTo
<1>9. CASE PlanFails
  BY <1>0, <1>9, PlanFailsMoves, BegunStep
  DEF PlanFails, At, SameRun, SameGoal, Manned, ExitTo
<1>10. CASE StartPlan
  BY <1>0, <1>10, StartPlanMoves, BegunStep
  DEF StartPlan, At, SameRun, SameGoal, Manned, ExitTo
<1>11. CASE SidecarUp
  BY <1>0, <1>11, SidecarUpMoves, BegunStep
  DEF SidecarUp, At, SameRun, SameGoal, Manned, ExitTo
<1>12. CASE SidecarFails
  BY <1>0, <1>12, SidecarFailsMoves, BegunStep
  DEF SidecarFails, At, SameRun, SameGoal, Manned, ExitTo
<1>13. CASE FrontUp
  BY <1>0, <1>13, FrontUpMoves, BegunStep
  DEF FrontUp, At, SameRun, SameGoal, Manned, ExitTo
<1>14. CASE FrontGivenUp
  BY <1>0, <1>14, FrontGivenUpMoves, BegunStep
  DEF FrontGivenUp, At, SameRun, SameGoal, Manned, ExitTo
<1>15. CASE FrontFails
  BY <1>0, <1>15, FrontFailsMoves, BegunStep
  DEF FrontFails, At, SameRun, SameGoal, Manned, ExitTo
<1>16. CASE Pinned
  BY <1>0, <1>16, PinnedMoves, BegunStep
  DEF Pinned, At, SameRun, SameGoal, Manned, ExitTo
<1>17. CASE PinFails
  BY <1>0, <1>17, PinFailsMoves, BegunStep
  DEF PinFails, At, SameRun, SameGoal, Manned, ExitTo
<1>18. CASE FrontAborted
  BY <1>0, <1>18, FrontAbortedMoves, BegunStep
  DEF FrontAborted, At, SameRun, SameGoal, Manned, ExitTo
<1>19. CASE AfterStartConnect
  BY <1>0, <1>19, AfterStartConnectMoves, BegunStep
  DEF AfterStartConnect, At, SameRun, SameGoal, Manned, ExitTo
<1>20. CASE AfterStartSwapBack
  BY <1>0, <1>20, AfterStartSwapBackMoves, BegunStep
  DEF AfterStartSwapBack, At, SameRun, SameGoal, Manned, ExitTo, CanRollBack
<1>21. CASE AfterStartSwap
  BY <1>0, <1>21, AfterStartSwapMoves, BegunStep
  DEF AfterStartSwap, At, SameRun, SameGoal, Manned, ExitTo
<1>22. CASE SwapOld
  BY <1>0, <1>22, SwapOldMoves, BegunStep
  DEF SwapOld, At, SameRun, SameGoal, Manned, ExitTo
<1>23. CASE ProxyDone
  BY <1>0, <1>23, ProxyDoneMoves, BegunStep
  DEF ProxyDone, At, SameRun, SameGoal, Manned, ExitTo, Swaps
<1>24. CASE ProxyFails
  BY <1>0, <1>24, ProxyFailsMoves, BegunStep
  DEF ProxyFails, At, SameRun, SameGoal, Manned, ExitTo
<1>25. CASE Ready
  BY <1>0, <1>25, ReadyMoves, BegunStep
  DEF Ready, At, SameRun, SameGoal, Manned, ExitTo
<1>26. CASE SwapCapture
  BY <1>0, <1>26, SwapCaptureMoves, BegunStep
  DEF SwapCapture, At, SameRun, SameGoal, Manned, ExitTo, CanRollBack
<1>27. CASE SwapAmnezia
  BY <1>0, <1>27, SwapAmneziaMoves, BegunStep
  DEF SwapAmnezia, At, SameRun, SameGoal, Manned, ExitTo
<1>28. CASE SwapCommit
  BY <1>0, <1>28, SwapCommitMoves, BegunStep
  DEF SwapCommit, At, SameRun, SameGoal, Manned, ExitTo
<1>29. CASE CandidateUp
  BY <1>0, <1>29, CandidateUpMoves, BegunStep
  DEF CandidateUp, At, SameRun, SameGoal, Manned, ExitTo
<1>30. CASE CandidateFails
  BY <1>0, <1>30, CandidateFailsMoves, BegunStep
  DEF CandidateFails, At, SameRun, SameGoal, Manned, ExitTo
<1>31. CASE SwapStop
  BY <1>0, <1>31, SwapStopMoves, BegunStep
  DEF SwapStop, At, SameRun, SameGoal, Manned, ExitTo
<1>32. CASE SwapStopped
  BY <1>0, <1>32, SwapStoppedMoves, BegunStep
  DEF SwapStopped, At, SameRun, SameGoal, Manned, ExitTo, CanRollBack
<1>33. CASE RolledBack
  BY <1>0, <1>33, RolledBackMoves, BegunStep
  DEF RolledBack, At, SameRun, SameGoal, Manned, ExitTo
<1>34. CASE RollbackFails
  BY <1>0, <1>34, RollbackFailsMoves, BegunStep
  DEF RollbackFails, At, SameRun, SameGoal, Manned, ExitTo
<1>35. CASE Unexpected
  BY <1>0, <1>35, UnexpectedMoves, BegunStep
  DEF Unexpected, At, SameRun, SameGoal, Manned, ExitTo
<1>36. CASE SwapExit
  BY <1>0, <1>36, SwapExitMoves, BegunStep
  DEF SwapExit, At, SameRun, SameGoal, Manned, ExitTo
<1>37. CASE ReconnectExit
  BY <1>0, <1>37, ReconnectExitMoves, BegunStep
  DEF ReconnectExit, At, SameRun, SameGoal, Manned, ExitTo
<1> QED
  BY <1>1, <1>2, <1>3, <1>4, <1>5, <1>6, <1>7, <1>8, <1>9, <1>10, <1>11, <1>12, <1>13, <1>14, <1>15, <1>16,
      <1>17, <1>18, <1>19, <1>20, <1>21, <1>22, <1>23, <1>24, <1>25, <1>26, <1>27, <1>28, <1>29, <1>30,
      <1>31, <1>32, <1>33, <1>34, <1>35, <1>36, <1>37, Zenon DEF Segment

-----------------------------------------------------------------------------
(* Every segment keeps the types.                                            *)

LEMMA SigType == ASSUME Typed, NEW n \in Node PROVE Sig(n) \in Signature
BY DEF Typed, TypeOK, Sig, SigOf, Signature

LEMMA CaptureType ==
  ASSUME Typed, NEW n \in Node, NEW t \in BOOLEAN PROVE Capture(n, t) \in Session
BY SigType DEF Typed, TypeOK, Capture, Session

LEMMA FailsType == ASSUME Typed, NEW f, Fails(f) PROVE faults' \in 0..MaxFaults
BY ConnectionAssumption DEF Typed, TypeOK, Fails

LEMMA SideType ==
  ASSUME NEW sd \in [SideKinds -> MaybeNode], NEW k, NEW v \in MaybeNode
  PROVE  [sd EXCEPT ![k] = v] \in [SideKinds -> MaybeNode]
OBVIOUS

LEMMA NoSidesType == NoSides \in [SideKinds -> MaybeNode]
BY DEF NoSides, MaybeNode

LEMMA ConnectedType == \A f, sd, s : ConnectedWith(f, sd, s) \in BOOLEAN
BY DEF ConnectedWith

LEMMA ProxyOffType == ASSUME Typed, ProxyOff PROVE sysproxy' \in BOOLEAN
BY DEF Typed, TypeOK, ProxyOff

(* What a core that goes down may change, with its type.                     *)
DownTypes ==
  /\ desired \in BOOLEAN /\ connected \in BOOLEAN /\ session \in Session \cup {None}
  /\ plan \in MaybeNode /\ front \in MaybeNode /\ side \in [SideKinds -> MaybeNode]
  /\ sysproxy \in BOOLEAN

LEMMA DisconnectAllTypes == ASSUME Typed, DisconnectAll PROVE DownTypes'
<1>1. sysproxy' \in BOOLEAN BY ProxyOffType DEF Typed, TypeOK, DisconnectAll
<1> QED BY <1>1, NoSidesType DEF Typed, TypeOK, DisconnectAll, DownTypes, MaybeNode, Reconnecting

LEMMA CoreDownTypes ==
  ASSUME Typed, NEW f \in MaybeNode, NEW sd \in [SideKinds -> MaybeNode], CoreDown(f, sd)
  PROVE  DownTypes'
<1>1. CASE DisconnectAll BY <1>1, DisconnectAllTypes
<1>2. CASE /\ front' = f /\ side' = sd /\ connected' = ConnectedWith(f, sd, session)
           /\ ProxyOff \/ UNCHANGED sysproxy
           /\ UNCHANGED <<session, plan, desired>>
  BY <1>2, ProxyOffType, ConnectedType DEF Typed, TypeOK, DownTypes
<1> QED BY <1>1, <1>2, Zenon DEF CoreDown

LEMMA FrontEndsTypes ==
  ASSUME Typed, NEW sd \in [SideKinds -> MaybeNode], FrontEnds(sd) PROVE DownTypes'
<1>1. CASE CoreDown(None, sd) BY <1>1, CoreDownTypes DEF MaybeNode
<1>2. CASE side' = sd /\ UNCHANGED <<front, sysproxy, sessionVars, desired>>
  BY <1>2 DEF Typed, TypeOK, DownTypes, sessionVars
<1> QED BY <1>1, <1>2, Zenon DEF FrontEnds

LEMMA UndoneSidesType == ASSUME Typed PROVE UndoneSides \in [SideKinds -> MaybeNode]
BY SideType DEF Typed, TypeOK, UndoneSides, MaybeNode

LEMMA CommitTypes ==
  ASSUME NEW n \in Node, Commit(n) PROVE committed' \in Node /\ target' \in MaybeNode
BY DEF Commit, MaybeNode

LEMMA SettleTypes ==
  ASSUME Typed, NEW b, Settle(b) PROVE committed' \in Node /\ target' \in MaybeNode
BY DEF Typed, TypeOK, Settle, MaybeNode

LEMMA SegmentTypes == ASSUME Typed, Segment PROVE StepTypes'
<1>0. /\ desired \in BOOLEAN /\ committed \in Node /\ target \in MaybeNode
      /\ connected \in BOOLEAN /\ session \in Session \cup {None} /\ plan \in MaybeNode
      /\ front \in MaybeNode /\ side \in [SideKinds -> MaybeNode] /\ sysproxy \in BOOLEAN
      /\ faults \in 0..MaxFaults /\ None \in MaybeNode
      /\ proxySetting \in BOOLEAN /\ tunSetting \in BOOLEAN /\ run.tun \in BOOLEAN
      /\ run.pc \in Manned => run.node \in Node
      /\ run.pc = "rollback" => run.old \in Node
      /\ Node \subseteq MaybeNode
  BY DEF Typed, TypeOK, RunBegun, RunRecord, MaybeNode
<1>1. CASE BeginStop
  BY <1>0, <1>1
  DEF BeginStop, StepTypes, selectionVars, sessionVars, processVars
<1>2. CASE BeginConnect
  BY <1>0, <1>2
  DEF BeginConnect, StepTypes, selectionVars, sessionVars, processVars
<1>3. CASE BeginProxyUpdate
  BY <1>0, <1>3
  DEF BeginProxyUpdate, StepTypes, selectionVars, sessionVars, processVars
<1>4. CASE BeginSwap
  BY <1>0, <1>4, FailsType
  DEF BeginSwap, StepTypes, selectionVars, sessionVars, processVars
<1>5. CASE StopFront
  BY <1>0, <1>5, FrontEndsTypes
  DEF StopFront, DownTypes, StepTypes, selectionVars, sessionVars, processVars
<1>6. CASE StopSides
  BY <1>0, <1>6, StopSidesMoves, NoSidesType, ConnectedType, ProxyOffType
  DEF StopSides, StepTypes, selectionVars, sessionVars, processVars
<1>7. CASE Connect
  BY <1>0, <1>7
  DEF Connect, StepTypes, selectionVars, sessionVars, processVars
<1>8. CASE ProxyReleased
  BY <1>0, <1>8
  DEF ProxyReleased, StepTypes, selectionVars, sessionVars, processVars
<1>9. CASE PlanFails
  BY <1>0, <1>9, FailsType
  DEF PlanFails, StepTypes, selectionVars, sessionVars, processVars
<1>10. CASE StartPlan
  BY <1>0, <1>10
  DEF StartPlan, StepTypes, selectionVars, sessionVars, processVars
<1>11. CASE SidecarUp
  BY <1>0, <1>11, SidecarUpMoves, SideType
  DEF SidecarUp, At, Manned, StepTypes, selectionVars, sessionVars, processVars
<1>12. CASE SidecarFails
  BY <1>0, <1>12, FailsType
  DEF SidecarFails, StepTypes, selectionVars, sessionVars, processVars
<1>13. CASE FrontUp
  BY <1>0, <1>13, FrontUpMoves, ConnectedType
  DEF FrontUp, At, Manned, StepTypes, selectionVars, sessionVars, processVars
<1>14. CASE FrontGivenUp
  BY <1>0, <1>14, UndoneSidesType
  DEF FrontGivenUp, StepTypes, selectionVars, sessionVars, processVars
<1>15. CASE FrontFails
  BY <1>0, <1>15, FrontFailsMoves, UndoneSidesType, FailsType
  DEF FrontFails, StepTypes, selectionVars, sessionVars, processVars
<1>16. CASE Pinned
  BY <1>0, <1>16, PinnedMoves
  DEF Pinned, At, Manned, StepTypes, selectionVars, sessionVars, processVars
<1>17. CASE PinFails
  BY <1>0, <1>17, FailsType
  DEF PinFails, StepTypes, selectionVars, sessionVars, processVars
<1>18. CASE FrontAborted
  BY <1>0, <1>18, FrontAbortedMoves, FrontEndsTypes, UndoneSidesType
  DEF FrontAborted, DownTypes, StepTypes, selectionVars, sessionVars, processVars
<1>19. CASE AfterStartConnect
  BY <1>0, <1>19, AfterStartConnectMoves
  DEF AfterStartConnect, StepTypes, selectionVars, sessionVars, processVars
<1>20. CASE AfterStartSwapBack
  <2>1. PICK c \in {None, run.cand} : FallBack(side, c)
    BY <1>20, Zenon DEF AfterStartSwapBack, KeptCandidate
  <2>2. c \in MaybeNode BY <2>1 DEF Typed, TypeOK, RunRecord, MaybeNode
  <2> QED BY <1>0, <1>20, <2>1, <2>2, FallBackDoes
    DEF AfterStartSwapBack, StepTypes, selectionVars
<1>21. CASE AfterStartSwap
  BY <1>0, <1>21, SideType
  DEF AfterStartSwap, At, Manned, StepTypes, selectionVars, sessionVars, processVars
<1>22. CASE SwapOld
  BY <1>0, <1>22, SwapOldMoves, SideType, ConnectedType
  DEF SwapOld, StepTypes, selectionVars, sessionVars, processVars
<1>23. CASE ProxyDone
  BY <1>0, <1>23, ProxyDoneMoves, CaptureType
  DEF ProxyDone, StepTypes, selectionVars, sessionVars, processVars
<1>24. CASE ProxyFails
  BY <1>0, <1>24, ProxyFailsMoves, FailsType
  DEF ProxyFails, StepTypes, selectionVars, sessionVars, processVars
<1>25. CASE Ready
  BY <1>0, <1>25, ReadyMoves, CaptureType, CommitTypes
  DEF Ready, At, Manned, StepTypes, selectionVars, sessionVars, processVars
<1>26. CASE SwapCapture
  <2>1. run.cand \in MaybeNode /\ run.node \in Node
    BY <1>0, <1>26 DEF Typed, TypeOK, RunRecord, SwapCapture, At, Manned
  <2>2. UNCHANGED <<desired, committed, target, sysproxy, faults>>
    BY <1>26 DEF SwapCapture, selectionVars
  <2>3. CASE /\ FallBack(side', run.cand) /\ session' = session
             /\ side' = IF Kind[run.node] = "hysteria"
                        THEN [side EXCEPT !["hysteria"] = None] ELSE side
    <3>1. side' \in [SideKinds -> MaybeNode] BY <1>0, <2>3, SideType
    <3>2. front' \in MaybeNode /\ connected' \in BOOLEAN /\ plan' \in MaybeNode
      BY <1>0, <2>1, <2>3, FallBackDoes
    <3> QED BY <1>0, <2>2, <2>3, <3>1, <3>2 DEF StepTypes
  <2>4. CASE /\ session' = Capture(run.node, run.tun) /\ UNCHANGED <<plan, front, connected>>
             /\ side' = IF Kind[run.node] = "amnezia"
                        THEN [side EXCEPT !["amnezia"] = run.node] ELSE side
    <3>1. side' \in [SideKinds -> MaybeNode] BY <1>0, <2>1, <2>4, SideType
    <3> QED BY <1>0, <2>1, <2>2, <2>4, <3>1, CaptureType DEF StepTypes
  <2> QED BY <1>26, <2>3, <2>4, SwapCaptureMoves
<1>27. CASE SwapAmnezia
  BY <1>0, <1>27, SideType
  DEF SwapAmnezia, StepTypes, selectionVars, sessionVars, processVars
<1>28. CASE SwapCommit
  BY <1>0, <1>28, SwapCommitMoves, CommitTypes
  DEF SwapCommit, At, Manned, StepTypes, selectionVars, sessionVars, processVars
<1>29. CASE CandidateUp
  BY <1>0, <1>29
  DEF CandidateUp, StepTypes, selectionVars, sessionVars, processVars
<1>30. CASE CandidateFails
  BY <1>0, <1>30, FailsType
  DEF CandidateFails, StepTypes, selectionVars, sessionVars, processVars
<1>31. CASE SwapStop
  BY <1>0, <1>31, SideType
  DEF SwapStop, StepTypes, selectionVars, sessionVars, processVars
<1>32. CASE SwapStopped
  <2>1. KeptCandidate \in MaybeNode BY DEF Typed, TypeOK, RunRecord, KeptCandidate, MaybeNode
  <2> QED BY <1>0, <1>32, <2>1, SwapStoppedMoves, FallBackDoes
    DEF SwapStopped, StepTypes, selectionVars
<1>33. CASE RolledBack
  BY <1>0, <1>33, ConnectedType
  DEF RolledBack, At, StepTypes, selectionVars, sessionVars, processVars
<1>34. CASE RollbackFails
  BY <1>0, <1>34, FailsType
  DEF RollbackFails, StepTypes, selectionVars, sessionVars, processVars
<1>35. CASE Unexpected
  BY <1>0, <1>35, DisconnectAllTypes
  DEF Unexpected, DownTypes, StepTypes, selectionVars, sessionVars, processVars
<1>36. CASE SwapExit
  BY <1>0, <1>36, SettleTypes, ConnectedType
  DEF SwapExit, StepTypes, selectionVars, sessionVars, processVars
<1>37. CASE ReconnectExit
  BY <1>0, <1>37, ConnectedType, ProxyOffType
  DEF ReconnectExit, StepTypes, selectionVars, sessionVars, processVars
<1> QED
  BY <1>1, <1>2, <1>3, <1>4, <1>5, <1>6, <1>7, <1>8, <1>9, <1>10, <1>11, <1>12, <1>13, <1>14, <1>15, <1>16,
      <1>17, <1>18, <1>19, <1>20, <1>21, <1>22, <1>23, <1>24, <1>25, <1>26, <1>27, <1>28, <1>29, <1>30,
      <1>31, <1>32, <1>33, <1>34, <1>35, <1>36, <1>37, Zenon DEF Segment

LEMMA SegmentKeepsTypes == ASSUME Typed, Segment, stepFrame PROVE Typed'
BY SegmentRun, SegmentTypes, SegmentTyped

-----------------------------------------------------------------------------
(* The queue: what a request, a kick and a new run do.                       *)

LEMMA NewRunDoes ==
  ASSUME NEW a \in Acts, NEW g \in Nat, NEW n \in MaybeNode
  PROVE  /\ NewRun(a, g, n) \in RunRecord
         /\ NewRun(a, g, n).act = a /\ NewRun(a, g, n).pc = "begin"
         /\ NewRun(a, g, n).gen = g /\ NewRun(a, g, n).node = n
         /\ NewRun(a, g, n).cand = None /\ NewRun(a, g, n).old = None
         /\ NewRun(a, g, n).drop = FALSE /\ NewRun(a, g, n).base = 0
BY DEF NewRun, NoRun, RunRecord, Inline, MaybeNode

LEMMA NoRunDoes ==
  /\ NoRun \in RunRecord /\ NoRun.act = "none" /\ NoRun.pc = "idle" /\ NoRun.gen = 0
  /\ NoRun.node = None /\ NoRun.cand = None /\ NoRun.old = None
BY DEF NoRun, RunRecord, Waiting, MaybeNode, Acts

LEMMA NoRunBegun == ASSUME run' = NoRun PROVE run' \in RunRecord /\ RunBegun'
BY NoRunDoes DEF RunBegun, Manned, Prestops, Active

LEMMA NewRunBegun ==
  ASSUME NEW a \in Acts \ {"none"}, NEW g \in Nat, NEW n \in MaybeNode,
         a \in Prestops => n \in Node, run' = NewRun(a, g, n)
  PROVE  run' \in RunRecord /\ RunBegun'
<1>1. a \in Acts OBVIOUS
<1>2. /\ run' \in RunRecord /\ run'.act = a /\ run'.pc = "begin"
      /\ run'.gen = g /\ run'.node = n /\ run'.cand = None
  <2>1. NewRun(a, g, n) \in RunRecord BY <1>1, NewRunDoes
  <2>2. run' \in RunRecord BY <2>1
  <2> QED BY <1>1, <2>2, SMT DEF NewRun, NoRun, RunRecord
<1> QED BY <1>2 DEF RunBegun, Manned, Active

(* What a request may change, with its type.                                 *)
QueueTypes ==
  /\ gen \in Nat /\ prepared \in Nat /\ prepared <= gen
  /\ pending \in BOOLEAN /\ scheduled \in BOOLEAN
  /\ run \in RunRecord /\ RunBegun
  /\ wait \in WaitRecord

LEMMA NoWaitType == NoWait \in WaitRecord
BY DEF NoWait, WaitRecord, MaybeNode

LEMMA WaitType ==
  ASSUME NEW g \in Nat, NEW o \in {"none", "stop", "dns", "apply"}, NEW n \in MaybeNode
  PROVE  /\ [gen |-> g, on |-> o, node |-> n] \in WaitRecord
         /\ [gen |-> g, on |-> o, node |-> n].gen = g
         /\ [gen |-> g, on |-> o, node |-> n].on = o
         /\ [gen |-> g, on |-> o, node |-> n].node = n
BY DEF WaitRecord

(* A kick prepares the server of a generation once, then opens the queue.    *)
LEMMA KickDoes ==
  ASSUME NEW g \in Nat, NEW w \in WaitRecord, TargetAfter \in Node, Kick(g, w)
  PROVE  \/ /\ desired' /\ prepared # g /\ prepared' = g /\ scheduled' = FALSE
            /\ connected /\ ~ReadyFor(TargetAfter)
            /\ wait' \in WaitRecord /\ wait'.gen = g /\ wait'.on = "stop"
            /\ wait'.node = TargetAfter
            /\ run' = NewRun("prestop_dns", g, TargetAfter)
         \/ /\ desired' /\ prepared # g /\ prepared' = g /\ scheduled' = FALSE
            /\ ~(connected /\ ~ReadyFor(TargetAfter))
            /\ wait' \in WaitRecord /\ wait'.gen = g /\ wait'.on = "dns"
            /\ wait'.node = TargetAfter
            /\ run' = NoRun
         \/ /\ ~(desired' /\ prepared # g) /\ prepared' = prepared
            /\ run' = NoRun /\ wait' = w
            /\ scheduled' = (scheduled \/ w.gen = 0 \/ w.gen # g)
<1>1. TargetAfter \in MaybeNode BY DEF MaybeNode
<1>2. CASE desired' /\ prepared # g
  <2>1. prepared' = g /\ scheduled' = FALSE /\ Prepare(g, TargetAfter)
    BY <1>2 DEF Kick
  <2>2. CASE connected /\ ~ReadyFor(TargetAfter)
    BY <1>1, <1>2, <2>1, <2>2, WaitType, Zenon DEF Prepare
  <2>3. CASE ~(connected /\ ~ReadyFor(TargetAfter))
    BY <1>1, <1>2, <2>1, <2>3, WaitType, Zenon DEF Prepare
  <2> QED BY <2>2, <2>3
<1>3. CASE ~(desired' /\ prepared # g) BY <1>3 DEF Kick
<1> QED BY <1>2, <1>3

LEMMA KickTyped ==
  ASSUME Typed, gen' \in {gen, gen + 1}, NEW w \in WaitRecord, TargetAfter \in Node,
         Kick(gen', w)
  PROVE  /\ prepared' \in Nat /\ prepared' <= gen' /\ scheduled' \in BOOLEAN
         /\ run' \in RunRecord /\ RunBegun' /\ wait' \in WaitRecord
<1>1. gen' \in Nat /\ prepared \in Nat /\ prepared <= gen' /\ scheduled \in BOOLEAN
  BY DEF Typed, TypeOK
<1>2. CASE /\ prepared # gen' /\ prepared' = gen' /\ scheduled' = FALSE
           /\ wait' \in WaitRecord /\ run' = NewRun("prestop_dns", gen', TargetAfter)
  <2>1. "prestop_dns" \in Acts \ {"none"} /\ TargetAfter \in MaybeNode
    BY DEF Acts, Prestops, MaybeNode
  <2>2. run' \in RunRecord /\ RunBegun' BY <1>1, <1>2, <2>1, NewRunBegun
  <2>3. prepared' \in Nat /\ prepared' <= gen' BY <1>1, <1>2
  <2>4. scheduled' \in BOOLEAN BY <1>2
  <2> QED BY <1>2, <2>2, <2>3, <2>4
<1>3. CASE /\ prepared' \in {prepared, gen'} /\ run' = NoRun /\ wait' \in WaitRecord
           /\ scheduled' \in BOOLEAN
  BY <1>1, <1>3, NoRunBegun
<1> QED BY <1>1, <1>2, <1>3, KickDoes

LEMMA TargetAfterIsNode ==
  ASSUME committed' \in Node, target' \in MaybeNode PROVE TargetAfter \in Node
BY DEF TargetAfter, TargetOf, MaybeNode

(* A request: a newer generation, and a kick when nothing is in flight.      *)
LEMMA RequestTyped ==
  ASSUME Typed, NEW k, Request(k), committed' \in Node, target' \in MaybeNode
  PROVE  QueueTypes' /\ blocked' \in Signature \cup {None}
<1>1. TargetAfter \in Node BY TargetAfterIsNode
<1>2. gen' = gen + 1 /\ gen \in Nat /\ pending' = TRUE /\ blocked' \in Signature \cup {None}
  BY DEF Typed, TypeOK, Request
<1>3. CASE Active
  BY <1>2, <1>3, NoWaitType DEF Request, Typed, TypeOK, QueueTypes, RunBegun, Active
<1>4. CASE ~Active
  BY <1>1, <1>2, <1>4, NoWaitType, KickTyped DEF Request, QueueTypes
<1> QED BY <1>3, <1>4

-----------------------------------------------------------------------------
(* The hot switch.                                                           *)

HotPcs == {"idle", "verify", "core", "relay", "restore"}

(* What a hot switch may change, with its type.                              *)
HotTypes ==
  /\ hot \in HotRecord /\ HotBegun /\ hotGen \in Nat /\ hotPending \in BOOLEAN
  /\ front \in MaybeNode /\ side \in [SideKinds -> MaybeNode] /\ faults \in 0..MaxFaults

LEMMA NoHotDoes ==
  NoHot \in HotRecord /\ NoHot.pc = "idle" /\ NoHot.hgen = 0 /\ NoHot.tgen = 0 /\ ~NoHot.ok
BY DEF NoHot, HotRecord, MaybeNode

LEMMA NoHotBegun == ASSUME hot' = NoHot PROVE hot' \in HotRecord /\ HotBegun'
BY NoHotDoes DEF HotBegun

(* What is switched, since when and from where.                              *)
SameSwitch(h) ==
  /\ hot' \in HotRecord
  /\ hot'.node = h.node /\ hot'.hgen = h.hgen /\ hot'.tgen = h.tgen
  /\ hot'.prev = h.prev /\ hot'.tun = h.tun

LEMMA HotMoves ==
  ASSUME NEW h \in HotRecord, NEW p \in HotPcs, NEW b \in BOOLEAN,
         hot' = [h EXCEPT !.pc = p, !.ok = b]
  PROVE  SameSwitch(h) /\ hot'.pc = p /\ hot'.ok = b
<1>1. hot' \in HotRecord BY Zenon DEF HotRecord, HotPcs
<1>2. /\ hot'.node = h.node /\ hot'.hgen = h.hgen /\ hot'.tgen = h.tgen
      /\ hot'.prev = h.prev /\ hot'.tun = h.tun /\ hot'.pc = p /\ hot'.ok = b
  BY SMT DEF HotRecord
<1> QED BY <1>1, <1>2 DEF SameSwitch

LEMMA HotGoes ==
  ASSUME NEW h \in HotRecord, NEW p \in HotPcs, hot' = [h EXCEPT !.pc = p]
  PROVE  SameSwitch(h) /\ hot'.pc = p /\ hot'.ok = h.ok
<1>1. hot' \in HotRecord BY Zenon DEF HotRecord, HotPcs
<1>2. /\ hot'.node = h.node /\ hot'.hgen = h.hgen /\ hot'.tgen = h.tgen
      /\ hot'.prev = h.prev /\ hot'.tun = h.tun /\ hot'.pc = p /\ hot'.ok = h.ok
  BY SMT DEF HotRecord
<1> QED BY <1>1, <1>2 DEF SameSwitch

LEMMA CoreSelectsTypes ==
  ASSUME Typed, NEW n \in Node, CoreSelects(n)
  PROVE  front' \in MaybeNode /\ side' \in [SideKinds -> MaybeNode]
BY SideType DEF Typed, TypeOK, CoreSelects, MaybeNode

LEMMA CallCoreDoes ==
  ASSUME Typed, NEW h \in HotRecord, CallCore(h)
  PROVE  /\ SameSwitch(h) /\ hot'.pc = "core" /\ hot'.ok \in BOOLEAN
         /\ \/ hot'.ok /\ CoreSelects(h.node) /\ faults' = faults
            \/ ~hot'.ok /\ UNCHANGED <<front, side>> /\ Fails("switch")
<1>0. "core" \in HotPcs BY DEF HotPcs
<1>1. CASE /\ hot' = [h EXCEPT !.pc = "core", !.ok = TRUE] /\ CoreSelects(h.node)
           /\ UNCHANGED faults
  BY <1>0, <1>1, HotMoves
<1>2. CASE /\ hot' = [h EXCEPT !.pc = "core", !.ok = FALSE] /\ Fails("switch")
           /\ UNCHANGED <<front, side>>
  BY <1>0, <1>2, HotMoves
<1> QED BY <1>1, <1>2, Zenon DEF CallCore

LEMMA CallCoreTyped ==
  ASSUME Typed, NEW h \in HotRecord, h.node \in Node, h.prev \in Node, CallCore(h)
  PROVE  /\ hot' \in HotRecord /\ HotBegun' /\ faults' \in 0..MaxFaults
         /\ front' \in MaybeNode /\ side' \in [SideKinds -> MaybeNode]
<1>1. hot' \in HotRecord /\ HotBegun' BY CallCoreDoes DEF SameSwitch, HotBegun
<1>2. faults' \in 0..MaxFaults BY CallCoreDoes, FailsType DEF Typed, TypeOK
<1>3. front' \in MaybeNode /\ side' \in [SideKinds -> MaybeNode]
  BY CallCoreDoes, CoreSelectsTypes DEF Typed, TypeOK
<1> QED BY <1>1, <1>2, <1>3

LEMMA StartHotDoes ==
  ASSUME Typed, hotGen' \in Nat, NEW s \in Session, NEW n \in Node, StartHot(s, n)
  PROVE  /\ hot' \in HotRecord /\ hot'.pc \in {"verify", "core"} /\ HotBegun'
         /\ hot'.node = n /\ hot'.prev = s.node /\ hot'.hgen = hotGen' /\ hot'.tgen = gen
         /\ hot'.tun = s.tun
         /\ faults' \in 0..MaxFaults /\ front' \in MaybeNode
         /\ side' \in [SideKinds -> MaybeNode]
<1> DEFINE begun == [node |-> n, hgen |-> hotGen', tgen |-> gen, pc |-> "verify",
                     prev |-> s.node, tun |-> s.tun, ok |-> FALSE]
<1>1. /\ begun \in HotRecord /\ begun.node = n /\ begun.prev = s.node
      /\ begun.hgen = hotGen' /\ begun.tgen = gen /\ begun.tun = s.tun
      /\ begun.pc = "verify" /\ s.node \in Node
  BY DEF Typed, TypeOK, HotRecord, Session, MaybeNode
<1>2. CASE hot' = begun /\ UNCHANGED <<front, side, faults>>
  <2>1. /\ hot' \in HotRecord /\ hot'.node = n /\ hot'.prev = s.node
        /\ hot'.hgen = hotGen' /\ hot'.tgen = gen /\ hot'.tun = s.tun
        /\ hot'.pc = "verify"
    BY <1>1, <1>2
  <2> HIDE DEF begun
  <2> QED BY <1>1, <1>2, <2>1 DEF Typed, TypeOK, HotBegun
<1>3. CASE CallCore(begun)
  <2> HIDE DEF begun
  <2>1. /\ SameSwitch(begun) /\ hot'.pc = "core" BY <1>1, <1>3, CallCoreDoes
  <2>2. /\ hot' \in HotRecord /\ HotBegun' /\ faults' \in 0..MaxFaults
        /\ front' \in MaybeNode /\ side' \in [SideKinds -> MaybeNode]
    BY <1>1, <1>3, CallCoreTyped
  <2> QED BY <1>1, <2>1, <2>2 DEF SameSwitch
<1> QED BY <1>2, <1>3 DEF StartHot

LEMMA QueueKept ==
  ASSUME Typed, queueUntouched PROVE QueueTypes' /\ blocked' \in Signature \cup {None}
BY DEF Typed, TypeOK, queueUntouched, QueueTypes, RunBegun, Active

LEMMA DispatchTyped ==
  ASSUME Typed, NEW s \in Session \cup {None}, Dispatch(s), hotPending' = FALSE,
         committed' \in Node, target' \in MaybeNode
  PROVE  HotTypes' /\ QueueTypes' /\ blocked' \in Signature \cup {None}
<1> DEFINE n == TargetAfter
<1>1. n \in Node BY TargetAfterIsNode
<1>2. CASE hot' = NoHot /\ UNCHANGED <<hotGen, front, side, faults>> /\ queueUntouched
  BY <1>2, NoHotBegun, QueueKept DEF HotTypes, Typed, TypeOK
<1>3. CASE Precheck(s, n) /\ hotGen' = hotGen + 1 /\ StartHot(s, n) /\ queueUntouched
  <2>1. s \in Session /\ hotGen' \in Nat BY <1>3 DEF Precheck, Typed, TypeOK
  <2>2. HotTypes' BY <1>1, <1>3, <2>1, StartHotDoes DEF HotTypes
  <2> QED BY <1>3, <2>2, QueueKept
<1>4. CASE hot' = NoHot /\ UNCHANGED <<hotGen, front, side, faults>> /\ Request(FALSE)
  BY <1>4, NoHotBegun, RequestTyped DEF HotTypes, Typed, TypeOK
<1> QED BY <1>2, <1>3, <1>4 DEF Dispatch

LEMMA EndHotTyped ==
  ASSUME Typed, NEW s \in Session \cup {None}, EndHot(s),
         committed' \in Node, target' \in MaybeNode
  PROVE  HotTypes' /\ QueueTypes' /\ blocked' \in Signature \cup {None}
<1>1. CASE hotPending /\ hotPending' = FALSE /\ Dispatch(s) BY <1>1, DispatchTyped
<1>2. CASE /\ hotPending' = FALSE /\ hot' = NoHot /\ UNCHANGED <<hotGen, front, side, faults>>
           /\ queueUntouched
  BY <1>2, NoHotBegun, QueueKept DEF HotTypes, Typed, TypeOK
<1> QED BY <1>1, <1>2 DEF EndHot

-----------------------------------------------------------------------------
(* The remaining actions keep the types.                                     *)

LEMMA Together ==
  ASSUME QueueTypes', HotTypes', blocked' \in Signature \cup {None},
         desired' \in BOOLEAN, cleanup' \in BOOLEAN, committed' \in Node, target' \in MaybeNode,
         tunSetting' \in BOOLEAN, proxySetting' \in BOOLEAN, proxyBefore' \in BOOLEAN,
         connected' \in BOOLEAN, session' \in Session \cup {None}, plan' \in MaybeNode,
         sysproxy' \in BOOLEAN, zap' \in ZapRecord, clicks' \in 0..MaxClicks,
         wish' \in [on : BOOLEAN, node : Node]
  PROVE  Typed'
BY DEF Typed, TypeOK, QueueTypes, HotTypes

LEMMA TypesNow ==
  ASSUME Typed
  PROVE  /\ QueueTypes /\ HotTypes /\ blocked \in Signature \cup {None}
         /\ desired \in BOOLEAN /\ cleanup \in BOOLEAN
         /\ committed \in Node /\ target \in MaybeNode
         /\ tunSetting \in BOOLEAN /\ proxySetting \in BOOLEAN /\ proxyBefore \in BOOLEAN
         /\ connected \in BOOLEAN /\ session \in Session \cup {None} /\ plan \in MaybeNode
         /\ sysproxy \in BOOLEAN /\ zap \in ZapRecord /\ clicks \in 0..MaxClicks
         /\ wish \in [on : BOOLEAN, node : Node]
BY DEF Typed, TypeOK, QueueTypes, HotTypes

LEMMA HotKept == ASSUME Typed, UNCHANGED <<hotVars, front, side, faults>> PROVE HotTypes'
BY DEF Typed, TypeOK, HotTypes, HotBegun, hotVars

LEMMA QueueStays ==
  ASSUME Typed, UNCHANGED <<blocked, pending, gen, prepared, scheduled, wait, run>>
  PROVE  QueueTypes' /\ blocked' \in Signature \cup {None}
BY QueueKept DEF queueUntouched

LEMMA ClickedType == ASSUME Typed, NEW c, Clicked(c) PROVE clicks' \in 0..MaxClicks
BY ConnectionAssumption DEF Typed, TypeOK, Clicked

LEMMA ToggleTyped == ASSUME Typed, Toggle PROVE Typed'
<1>1. clicks' \in 0..MaxClicks BY ClickedType DEF Toggle
<1>2. desired' \in BOOLEAN BY TypesNow DEF Toggle
<1>3. committed' \in Node /\ target' \in MaybeNode
  BY TypesNow DEF Toggle, Drop, selectionVars, MaybeNode
<1>4. QueueTypes' /\ blocked' \in Signature \cup {None} BY <1>3, RequestTyped DEF Toggle
<1>5. wish' \in [on : BOOLEAN, node : Node] BY <1>2, <1>3, TargetAfterIsNode DEF Toggle
<1>6. HotTypes' BY HotKept DEF Toggle, serverVars, hotVars
<1> QED BY <1>1, <1>2, <1>3, <1>4, <1>5, <1>6, TypesNow, Together
  DEF Toggle, settingVars, userFrame, sessionVars

LEMMA SelectServingTyped == ASSUME Typed, NEW n \in Node, SelectServing(n) PROVE Typed'
<1>1. clicks' \in 0..MaxClicks BY ClickedType DEF SelectServing
<1>2. committed' \in Node /\ target' \in MaybeNode
  BY TypesNow DEF SelectServing, RequestServing, MaybeNode
<1>3. wish' \in [on : BOOLEAN, node : Node] BY DEF SelectServing
<1>4. QueueTypes' /\ blocked' \in Signature \cup {None} /\ HotTypes'
  <2>1. CASE TryHot(n) /\ UNCHANGED <<blocked, pending, gen, prepared, scheduled, wait, run>>
    <3>1. session \in Session /\ hotGen' \in Nat
      BY <2>1, TypesNow DEF SelectServing, Serving, TryHot, HotTypes
    <3>2. CASE hotPending' = TRUE /\ UNCHANGED <<hot, front, side, faults>>
      BY <2>1, <3>1, <3>2, TypesNow, QueueStays DEF HotTypes, HotBegun
    <3>3. CASE UNCHANGED hotPending /\ StartHot(session, n)
      BY <2>1, <3>1, <3>3, TypesNow, StartHotDoes, QueueStays DEF HotTypes
    <3> QED BY <2>1, <3>2, <3>3 DEF TryHot
  <2>2. CASE Request(FALSE) /\ UNCHANGED serverVars
    BY <1>2, <2>2, RequestTyped, HotKept DEF serverVars, hotVars
  <2> QED BY <2>1, <2>2 DEF SelectServing
<1> QED BY <1>1, <1>2, <1>3, <1>4, TypesNow, Together
  DEF SelectServing, settingVars, userFrame, sessionVars

LEMMA SelectIdleTyped == ASSUME Typed, NEW n \in Node, SelectIdle(n) PROVE Typed'
<1>1. clicks' \in 0..MaxClicks BY ClickedType DEF SelectIdle
<1>2. committed' \in Node /\ target' \in MaybeNode
  BY DEF SelectIdle, RequestIdle, MaybeNode
<1>3. wish' \in [on : BOOLEAN, node : Node]
  <2>1. wish' = [wish EXCEPT !.node = n] BY DEF SelectIdle
  <2> QED BY <2>1, TypesNow
<1>4. QueueTypes' /\ blocked' \in Signature \cup {None}
  BY <1>2, RequestTyped, QueueStays DEF SelectIdle
<1>5. HotTypes' BY HotKept DEF SelectIdle, serverVars, hotVars
<1> QED BY <1>1, <1>2, <1>3, <1>4, <1>5, TypesNow, Together
  DEF SelectIdle, settingVars, userFrame, sessionVars

LEMMA ApplySettingsTyped ==
  ASSUME Typed, ApplySettings
  PROVE  /\ QueueTypes' /\ blocked' \in Signature \cup {None} /\ HotTypes'
         /\ committed' \in Node /\ target' \in MaybeNode
         /\ cleanup' \in BOOLEAN /\ connected' \in BOOLEAN /\ plan' \in MaybeNode
         /\ session' \in Session \cup {None} /\ sysproxy' \in BOOLEAN /\ zap' \in ZapRecord
<1>1. committed' \in Node /\ target' \in MaybeNode
  BY TypesNow DEF ApplySettings, selectionVars
<1>2. QueueTypes' /\ blocked' \in Signature \cup {None}
  BY <1>1, RequestTyped, QueueStays DEF ApplySettings
<1>3. HotTypes' BY HotKept DEF ApplySettings, serverVars, hotVars
<1> QED BY <1>1, <1>2, <1>3, TypesNow DEF ApplySettings, userFrame, sessionVars

LEMMA ChangeProxyTyped == ASSUME Typed, ChangeProxy PROVE Typed'
<1>1. clicks' \in 0..MaxClicks BY ClickedType DEF ChangeProxy
<1>2. proxySetting' \in BOOLEAN BY DEF ChangeProxy
<1> QED BY <1>1, <1>2, ApplySettingsTyped, TypesNow, Together DEF ChangeProxy

LEMMA ChangeTunTyped == ASSUME Typed, ChangeTun PROVE Typed'
<1>1. clicks' \in 0..MaxClicks BY ClickedType DEF ChangeTun
<1>2. tunSetting' \in BOOLEAN /\ proxySetting' \in BOOLEAN /\ proxyBefore' \in BOOLEAN
  BY TypesNow DEF ChangeTun
<1>3. desired' \in BOOLEAN BY DEF ChangeTun
<1>4. wish' \in [on : BOOLEAN, node : Node]
  <2>1. wish' = [wish EXCEPT !.on = wish.on \/ desired'] BY DEF ChangeTun
  <2>2. (wish.on \/ desired') \in BOOLEAN OBVIOUS
  <2> QED BY <2>1, <2>2, TypesNow, Zenon
<1>5. ApplySettings BY DEF ChangeTun
<1> QED BY <1>1, <1>2, <1>3, <1>4, <1>5, ApplySettingsTyped, TypesNow, Together

(* Failures of a core.                                                       *)
LEMMA CrashTyped ==
  ASSUME Typed, crashFrame, DownTypes', faults' \in 0..MaxFaults PROVE Typed'
<1>1. QueueTypes' /\ blocked' \in Signature \cup {None}
  BY QueueStays DEF crashFrame, queueVars, bypassVars
<1>2. HotTypes' BY DEF Typed, TypeOK, HotTypes, HotBegun, hotVars, crashFrame, DownTypes
<1> QED BY <1>1, <1>2, TypesNow, Together
  DEF crashFrame, settingVars, selectionVars, queueVars, bypassVars, DownTypes

LEMMA CrashesTyped == ASSUME Typed, Crash PROVE Typed'
<1>0. side \in [SideKinds -> MaybeNode] /\ front \in MaybeNode /\ None \in MaybeNode
  BY DEF Typed, TypeOK, MaybeNode
<1>1. CASE FrontCrash
  BY <1>0, <1>1, CrashTyped, CoreDownTypes, FailsType DEF FrontCrash
<1>2. CASE XrayCrash
  BY <1>0, <1>2, CrashTyped, CoreDownTypes, SideType, FailsType DEF XrayCrash
<1>3. CASE AmneziaCrash
  <2>1. sysproxy' \in BOOLEAN BY <1>3, TypesNow, ProxyOffType DEF AmneziaCrash
  <2>2. DownTypes' BY <1>0, <1>3, <2>1, NoSidesType DEF AmneziaCrash, DownTypes
  <2> QED BY <1>3, <2>2, CrashTyped, FailsType DEF AmneziaCrash
<1> QED BY <1>1, <1>2, <1>3 DEF Crash

(* The rule of Zapret.                                                       *)
LEMMA ZapTypes ==
  ASSUME NEW z \in ZapRecord, NEW n \in MaybeNode
  PROVE  /\ Applied(z, n) \in ZapRecord /\ RuleDropped(z) \in ZapRecord
         /\ Released(z) \in ZapRecord /\ ZapOff \in ZapRecord
         /\ [rule |-> n, st |-> "starting"] \in ZapRecord
<1>1. /\ ZapOff \in ZapRecord /\ None \in MaybeNode
      /\ \A m \in MaybeNode : [rule |-> m, st |-> "starting"] \in ZapRecord
  BY DEF ZapOff, ZapRecord, MaybeNode
<1>2. \A m \in MaybeNode : Applied(z, m) \in ZapRecord BY <1>1 DEF Applied
<1> QED BY <1>1, <1>2 DEF RuleDropped, Released

LEMMA ZapGoes ==
  ASSUME NEW z \in ZapRecord, NEW s \in {"off", "starting", "on", "stale"}
  PROVE  [z EXCEPT !.st = s] \in ZapRecord
BY DEF ZapRecord

LEMMA NewRuleType ==
  ASSUME Typed, NEW m PROVE NewRule(m) \in ZapRecord
<1>1. wait.node \in MaybeNode BY DEF Typed, TypeOK, WaitRecord
<1> QED BY <1>1, TypesNow, ZapTypes DEF NewRule

LEMMA WaitsToApply ==
  ASSUME Typed, wait' = [wait EXCEPT !.on = "apply"]
  PROVE  wait' \in WaitRecord /\ wait'.gen = wait.gen /\ wait'.on = "apply"
         /\ wait'.node = wait.node
<1>1. wait \in WaitRecord BY DEF Typed, TypeOK
<1>2. wait' \in WaitRecord BY <1>1, Zenon DEF WaitRecord
<1>3. wait'.gen = wait.gen /\ wait'.on = "apply" /\ wait'.node = wait.node
  BY <1>1, SMT DEF WaitRecord
<1> QED BY <1>2, <1>3

LEMMA WaitsToStop ==
  ASSUME Typed, wait' = [wait EXCEPT !.on = "stop"]
  PROVE  wait' \in WaitRecord /\ wait'.gen = wait.gen /\ wait'.on = "stop"
         /\ wait'.node = wait.node
<1>1. wait \in WaitRecord BY DEF Typed, TypeOK
<1>2. wait' \in WaitRecord BY <1>1, Zenon DEF WaitRecord
<1>3. wait'.gen = wait.gen /\ wait'.on = "stop" /\ wait'.node = wait.node
  BY <1>1, SMT DEF WaitRecord
<1> QED BY <1>2, <1>3

(* What the answer of a lookup or of winws2 may change, with its type.       *)
AnswerTypes ==
  /\ QueueTypes /\ blocked \in Signature \cup {None} /\ desired \in BOOLEAN

LEMMA AnswersKeep ==
  ASSUME Typed, AnswerTypes', UNCHANGED <<settingVars, cleanup, sessionVars, processVars,
                                          hotVars, wish>>,
         committed' \in Node, target' \in MaybeNode, zap' \in ZapRecord,
         clicks' = clicks, faults' \in 0..MaxFaults
  PROVE  Typed'
<1>1. HotTypes' BY DEF Typed, TypeOK, HotTypes, HotBegun, hotVars, processVars
<1> QED BY <1>1, TypesNow, Together DEF AnswerTypes, settingVars, sessionVars, processVars

LEMMA AnswerKept ==
  ASSUME Typed,
         UNCHANGED <<desired, blocked, pending, gen, prepared, scheduled, wait, run>>
  PROVE  AnswerTypes'
BY QueueStays, TypesNow DEF AnswerTypes

LEMMA WaitOver ==
  ASSUME Typed, wait' = NoWait, scheduled' \in BOOLEAN,
         UNCHANGED <<desired, blocked, pending, gen, prepared, run>>
  PROVE  AnswerTypes'
BY NoWaitType DEF AnswerTypes, QueueTypes, Typed, TypeOK, RunBegun, Active

LEMMA DrainTypes == ASSUME Typed, NEW w, ScheduleDrain(w) PROVE scheduled' \in BOOLEAN
BY DEF ScheduleDrain

LEMMA ZapStoppedTyped ==
  ASSUME Typed, ZapStopped, UNCHANGED selectionVars PROVE AnswerTypes'
<1>1. committed' \in Node /\ target' \in MaybeNode BY TypesNow DEF selectionVars
<1>2. CASE desired' = FALSE /\ Request(TRUE) BY <1>1, <1>2, RequestTyped DEF AnswerTypes
<1> QED BY <1>2, AnswerKept DEF ZapStopped

LEMMA FailWaitTyped ==
  ASSUME Typed, FailWait, UNCHANGED selectionVars PROVE AnswerTypes'
<1>1. committed' \in Node /\ target' \in MaybeNode /\ TargetAfter \in Node
  BY TypesNow, TargetAfterIsNode DEF selectionVars
<1>2. desired' = FALSE /\ blocked' \in Signature \cup {None}
  BY SigType, TargetIsNode DEF FailWait
<1>3. CASE /\ pending' = TRUE /\ gen' = gen + 1 /\ Active
           /\ wait' = NoWait /\ UNCHANGED <<prepared, scheduled, run>>
  <2>1. gen \in Nat /\ prepared \in Nat /\ prepared <= gen /\ scheduled \in BOOLEAN
        /\ run \in RunRecord /\ RunBegun
    BY DEF Typed, TypeOK
  <2>2. run' \in RunRecord /\ RunBegun' BY <1>3, <2>1 DEF RunBegun, Active
  <2>3. gen' \in Nat /\ prepared' \in Nat /\ prepared' <= gen' BY <1>3, <2>1
  <2> QED BY <1>2, <1>3, <2>1, <2>2, <2>3, NoWaitType DEF AnswerTypes, QueueTypes
<1>4. CASE pending' = TRUE /\ gen' = gen + 1 /\ Kick(gen', NoWait)
  <2>1. gen' \in Nat BY <1>4 DEF Typed, TypeOK
  <2> QED BY <1>1, <1>2, <1>4, <2>1, NoWaitType, KickTyped DEF AnswerTypes, QueueTypes
<1>5. CASE /\ pending' = FALSE /\ wait' = NoWait /\ UNCHANGED <<gen, prepared, scheduled, run>>
  BY <1>2, <1>5, NoWaitType DEF AnswerTypes, QueueTypes, Typed, TypeOK, RunBegun, Active
<1> QED BY <1>3, <1>4, <1>5 DEF FailWait

LEMMA RenewTyped ==
  ASSUME Typed, NEW m \in BOOLEAN, Renew(m), wait.node \in Node
  PROVE  /\ run' \in RunRecord /\ RunBegun' /\ wait' \in WaitRecord /\ wait'.gen = wait.gen
         /\ zap' \in ZapRecord
<1>1. CASE /\ run' = [NewRun("prestop_apply", gen, wait.node) EXCEPT !.drop = m]
           /\ wait' = [wait EXCEPT !.on = "stop"] /\ UNCHANGED zap
  <2> DEFINE r == NewRun("prestop_apply", gen, wait.node)
  <2>1. "prestop_apply" \in Acts /\ gen \in Nat /\ wait.node \in MaybeNode
    BY DEF Acts, Prestops, Typed, TypeOK, MaybeNode
  <2>2. /\ r.act = "prestop_apply" /\ r.pc = "begin" /\ r.gen = gen
        /\ r.node = wait.node /\ r.cand = None
    BY SMT DEF NewRun, NoRun
  <2>6. r \in RunRecord BY <2>1, NewRunDoes
  <2> HIDE DEF r
  <2>3. run' = [r EXCEPT !.drop = m] BY <1>1 DEF r
  <2>4. run' \in RunRecord BY <2>6, <2>3, Zenon DEF RunRecord
  <2>5. /\ run'.act = "prestop_apply" /\ run'.pc = "begin" /\ run'.gen = gen
        /\ run'.node = wait.node /\ run'.cand = None
    BY <2>2, <2>3, <2>6, SMT DEF RunRecord
  <2>7. RunBegun' BY <2>5 DEF RunBegun, Manned, Active
  <2> QED BY <1>1, <2>4, <2>7, WaitsToStop, TypesNow
<1>2. CASE zap' = NewRule(m) /\ wait' = [wait EXCEPT !.on = "apply"] /\ UNCHANGED run
  <2>1. run' \in RunRecord /\ RunBegun' BY <1>2 DEF Typed, TypeOK, RunBegun, Active
  <2> QED BY <1>2, <2>1, WaitsToApply, NewRuleType
<1> QED BY <1>1, <1>2 DEF Renew

LEMMA LookupObsoleteTyped == ASSUME Typed, LookupObsolete PROVE Typed'
<1>1. AnswerTypes' BY TypesNow, WaitOver DEF LookupObsolete, queueVars, QueueTypes
<1> QED BY <1>1, AnswersKeep, TypesNow
  DEF LookupObsolete, boundVars, selectionVars, queueVars, HotTypes

LEMMA LookupFailedTyped == ASSUME Typed, LookupFailed PROVE Typed'
<1>1. faults' \in 0..MaxFaults BY FailsType DEF LookupFailed
<1>2. CASE CancelTarget
  <2>1. committed' \in Node /\ target' \in MaybeNode BY <1>2, SettleTypes DEF CancelTarget
  <2>2. TargetAfter \in Node BY <2>1, TargetAfterIsNode
  <2>3. blocked' \in Signature \cup {None} /\ desired' \in BOOLEAN
    BY <1>2, <2>2, SigType, TypesNow DEF CancelTarget
  <2>4. QueueTypes'
    BY <1>2, NoWaitType DEF CancelTarget, QueueTypes, Typed, TypeOK, RunBegun, Active
  <2> QED BY <1>1, <2>1, <2>3, <2>4, AnswersKeep, TypesNow DEF LookupFailed, AnswerTypes
<1>3. CASE /\ wait' = NoWait /\ ScheduleDrain(NoWait)
           /\ UNCHANGED <<desired, selectionVars, blocked, pending, gen, prepared, run>>
  <2>1. AnswerTypes' BY <1>3, WaitOver, DrainTypes
  <2> QED BY <1>1, <1>3, <2>1, AnswersKeep, TypesNow DEF LookupFailed, selectionVars
<1> QED BY <1>2, <1>3 DEF LookupFailed

LEMMA LookupUnprotectedTyped == ASSUME Typed, LookupUnprotected PROVE Typed'
<1>1. committed' \in Node /\ target' \in MaybeNode
  BY TypesNow DEF LookupUnprotected, selectionVars
<1>2. zap' \in ZapRecord
  <2>1. None \in MaybeNode BY DEF MaybeNode
  <2> QED BY <2>1, TypesNow, ZapTypes DEF LookupUnprotected
<1>3. CASE desired' = FALSE /\ Request(TRUE)
  <2>1. AnswerTypes' BY <1>1, <1>3, RequestTyped DEF AnswerTypes
  <2> QED BY <1>1, <1>2, <2>1, AnswersKeep, TypesNow
    DEF LookupUnprotected, boundVars, HotTypes
<1>4. CASE /\ wait' = NoWait /\ ScheduleDrain(NoWait)
           /\ UNCHANGED <<desired, blocked, pending, gen, prepared, run>>
  <2>1. AnswerTypes' BY <1>4, WaitOver, DrainTypes
  <2> QED BY <1>1, <1>2, <2>1, AnswersKeep, TypesNow
    DEF LookupUnprotected, boundVars, HotTypes
<1> QED BY <1>3, <1>4 DEF LookupUnprotected

LEMMA LookupProtectedTyped ==
  ASSUME Typed, NEW m \in BOOLEAN, LookupProtected(m) PROVE Typed'
<1>1. committed' \in Node /\ target' \in MaybeNode /\ wait.node \in Node
  BY TypesNow, TargetIsNode DEF LookupProtected, selectionVars
<1>2. CASE wait' = NoWait /\ ScheduleDrain(NoWait) /\ UNCHANGED <<run, zap, faults>>
  <2>1. AnswerTypes' BY <1>2, WaitOver, DrainTypes DEF LookupProtected
  <2> QED BY <1>1, <1>2, <2>1, AnswersKeep, TypesNow DEF LookupProtected, HotTypes
<1>3. CASE Fails("dns") /\ Renew(m) /\ UNCHANGED scheduled
  <2>1. AnswerTypes'
    BY <1>1, <1>3, RenewTyped, TypesNow DEF LookupProtected, AnswerTypes, QueueTypes
  <2> QED BY <1>1, <1>3, <2>1, RenewTyped, FailsType, AnswersKeep DEF LookupProtected
<1>4. CASE Renew(m) /\ UNCHANGED <<scheduled, faults>>
  <2>1. AnswerTypes'
    BY <1>1, <1>4, RenewTyped, TypesNow DEF LookupProtected, AnswerTypes, QueueTypes
  <2> QED BY <1>1, <1>4, <2>1, RenewTyped, AnswersKeep, TypesNow
    DEF LookupProtected, HotTypes
<1> QED BY <1>2, <1>3, <1>4 DEF LookupProtected

LEMMA ZapStartedTyped == ASSUME Typed, ZapStarted PROVE Typed'
<1>1. committed' \in Node /\ target' \in MaybeNode BY TypesNow DEF ZapStarted, selectionVars
<1>2. zap' \in ZapRecord BY TypesNow, ZapGoes DEF ZapStarted
<1>3. AnswerTypes'
  <2>1. CASE UNCHANGED <<desired, blocked, pending, gen, prepared, scheduled, wait, run>>
    BY <2>1, AnswerKept
  <2>2. CASE wait' = NoWait /\ UNCHANGED <<desired, blocked, pending, gen, prepared, scheduled, run>>
    BY <2>2, WaitOver, TypesNow DEF QueueTypes
  <2>3. CASE /\ wait' = NoWait /\ ScheduleDrain(NoWait)
             /\ UNCHANGED <<desired, blocked, pending, gen, prepared, run>>
    BY <2>3, WaitOver, DrainTypes
  <2>4. CASE FailWait BY <2>4, FailWaitTyped DEF ZapStarted
  <2> QED BY <2>1, <2>2, <2>3, <2>4 DEF ZapStarted
<1> QED BY <1>1, <1>2, <1>3, AnswersKeep, TypesNow DEF ZapStarted, boundVars, HotTypes

LEMMA ZapGoneTyped == ASSUME Typed, ZapGone PROVE Typed'
<1>1. committed' \in Node /\ target' \in MaybeNode BY TypesNow DEF ZapGone, selectionVars
<1>2. zap' \in ZapRecord BY DEF ZapGone, ZapOff, ZapRecord, MaybeNode
<1>3. AnswerTypes' BY FailWaitTyped, ZapStoppedTyped DEF ZapGone
<1> QED BY <1>1, <1>2, <1>3, FailsType, AnswersKeep DEF ZapGone

LEMMA ZapTimeoutTyped == ASSUME Typed, ZapTimeout PROVE Typed'
<1>1. committed' \in Node /\ target' \in MaybeNode BY TypesNow DEF ZapTimeout, selectionVars
<1>2. zap' \in ZapRecord BY TypesNow, ZapGoes DEF ZapTimeout
<1>3. AnswerTypes' BY FailWaitTyped, ZapStoppedTyped DEF ZapTimeout
<1> QED BY <1>1, <1>2, <1>3, FailsType, AnswersKeep DEF ZapTimeout

LEMMA ZapLateTyped == ASSUME Typed, ZapLate PROVE Typed'
<1>1. zap' \in ZapRecord BY TypesNow, ZapGoes DEF ZapLate
<1>2. AnswerTypes' BY AnswerKept DEF ZapLate, queueVars
<1> QED BY <1>1, <1>2, AnswersKeep, TypesNow
  DEF ZapLate, boundVars, selectionVars, queueVars, HotTypes

(* The queue itself.                                                         *)
LEMMA StartRunTyped ==
  ASSUME Typed, NEW a \in Acts \ (Prestops \cup {"none"}), StartRun(a)
  PROVE  run' \in RunRecord /\ RunBegun'
<1>1. gen \in Nat /\ None \in MaybeNode /\ a \in Acts \ {"none"}
  BY DEF Typed, TypeOK, MaybeNode
<1> QED BY <1>1, NewRunBegun DEF StartRun

LEMMA ActionIsAct == Action \in Acts \ Prestops
BY DEF Action, Acts, Prestops, Swaps

LEMMA CommitIsTyped ==
  ASSUME Typed, target # None, Commit(target) PROVE committed' \in Node /\ target' \in MaybeNode
BY DEF Commit, Typed, TypeOK, MaybeNode

LEMMA DrainTyped == ASSUME Typed, Drain PROVE Typed'
<1>1. HotTypes' BY HotKept DEF Drain, processVars, boundVars
<1>2. /\ run' \in RunRecord /\ RunBegun' /\ cleanup' \in BOOLEAN /\ pending' \in BOOLEAN
      /\ committed' \in Node /\ target' \in MaybeNode
  <2>0. run \in RunRecord /\ RunBegun /\ cleanup \in BOOLEAN /\ pending \in BOOLEAN
        /\ committed \in Node /\ target \in MaybeNode
    BY DEF Typed, TypeOK
  <2>1. CASE UNCHANGED <<pending, cleanup, run, selectionVars>>
    BY <2>0, <2>1 DEF RunBegun, Active, selectionVars
  <2>2. CASE cleanup' = FALSE /\ StartRun("cleanup") /\ UNCHANGED <<pending, selectionVars>>
    BY <2>0, <2>2, StartRunTyped DEF Acts, Prestops, selectionVars
  <2>3. CASE pending' = FALSE /\ UNCHANGED cleanup /\ ResolveIdle /\ UNCHANGED run
    <3>1. committed' \in Node /\ target' \in MaybeNode
      BY <2>3, CommitIsTyped, SettleTypes DEF ResolveIdle
    <3> QED BY <2>0, <2>3, <3>1 DEF RunBegun, Active
  <2>4. CASE /\ pending' = FALSE /\ UNCHANGED cleanup /\ Action # "none" /\ StartRun(Action)
             /\ UNCHANGED selectionVars
    <3>1. run' \in RunRecord /\ RunBegun' BY <2>4, ActionIsAct, StartRunTyped
    <3> QED BY <2>0, <2>4, <3>1 DEF selectionVars
  <2> QED BY <2>1, <2>2, <2>3, <2>4 DEF Drain
<1>3. QueueTypes' BY <1>2, TypesNow DEF Drain, QueueTypes, bypassVars
<1> QED BY <1>1, <1>2, <1>3, TypesNow, Together
  DEF Drain, settingVars, sessionVars, processVars, bypassVars, boundVars

LEMMA GoOnTyped ==
  ASSUME Typed, GoOn, gen' = gen, pending' = pending, committed' \in Node, target' \in MaybeNode
  PROVE  QueueTypes' /\ zap' \in ZapRecord
<1>1. wait \in WaitRecord /\ TargetAfter \in Node /\ gen \in Nat /\ pending \in BOOLEAN
  BY TargetAfterIsNode DEF Typed, TypeOK
<1>2. CASE Kick(gen, wait) /\ UNCHANGED zap
  BY <1>1, <1>2, KickTyped, TypesNow DEF QueueTypes
<1>3. CASE /\ zap' \in {zap, Released(zap)}
           /\ run' = NoRun /\ UNCHANGED <<prepared, scheduled, wait>>
  <2>1. None \in MaybeNode BY DEF MaybeNode
  <2>2. zap' \in ZapRecord BY <1>3, <2>1, TypesNow, ZapTypes
  <2> QED BY <1>3, <2>2, NoRunBegun, TypesNow DEF QueueTypes
<1> QED BY <1>2, <1>3 DEF GoOn

LEMMA OutcomeTyped ==
  ASSUME Typed, Outcome PROVE blocked' \in Signature \cup {None} /\ desired' \in BOOLEAN
BY TypesNow, SigType, TargetIsNode DEF Outcome

LEMMA FinishTransitionTyped == ASSUME Typed, FinishTransition PROVE Typed'
<1>1. committed' \in Node /\ target' \in MaybeNode
  BY TypesNow, SettleTypes DEF FinishTransition, selectionVars
<1>2. QueueTypes' /\ zap' \in ZapRecord BY <1>1, GoOnTyped DEF FinishTransition
<1>3. blocked' \in Signature \cup {None} /\ desired' \in BOOLEAN
  BY OutcomeTyped DEF FinishTransition
<1>4. session' \in Session \cup {None} /\ cleanup' \in BOOLEAN
  BY TypesNow DEF FinishTransition
<1>5. HotTypes' BY HotKept DEF FinishTransition, processVars, boundVars
<1> QED BY <1>1, <1>2, <1>3, <1>4, <1>5, TypesNow, Together
  DEF FinishTransition, settingVars, processVars, boundVars

LEMMA FinishPrestopTyped == ASSUME Typed, FinishPrestop PROVE Typed'
<1>0. committed' \in Node /\ target' \in MaybeNode /\ TargetAfter \in Node
      /\ run.node \in Node /\ run.node \in MaybeNode /\ wait \in WaitRecord /\ gen \in Nat
  BY TypesNow, TargetAfterIsNode
  DEF FinishPrestop, selectionVars, Typed, TypeOK, RunBegun, MaybeNode
<1>1. HotTypes' BY HotKept DEF FinishPrestop, processVars, boundVars
<1>2. QueueTypes' /\ zap' \in ZapRecord /\ desired' \in BOOLEAN
  <2>1. CASE UNCHANGED <<desired, zap>> /\ Kick(gen, wait)
    BY <1>0, <2>1, KickTyped, TypesNow DEF QueueTypes, FinishPrestop
  <2>2. CASE /\ desired' = TRUE /\ run' = NoRun /\ UNCHANGED prepared
             /\ wait' \in WaitRecord /\ zap' \in ZapRecord /\ scheduled' \in BOOLEAN
    BY <2>2, NoRunBegun, TypesNow DEF QueueTypes, FinishPrestop
  <2>3. CASE /\ desired' = TRUE /\ run' = NoRun /\ UNCHANGED <<prepared, zap, scheduled>>
             /\ wait' = [gen |-> gen, on |-> "dns", node |-> run.node]
    BY <1>0, <2>2, <2>3, WaitType, TypesNow DEF QueueTypes
  <2>4. CASE /\ desired' = TRUE /\ run' = NoRun /\ UNCHANGED prepared
             /\ zap' = IF run.drop THEN [rule |-> run.node, st |-> "starting"]
                                   ELSE Applied(zap, run.node)
             /\ wait' = IF zap'.st = "on" THEN NoWait
                        ELSE [gen |-> gen, on |-> "apply", node |-> run.node]
             /\ scheduled' = (scheduled \/ zap'.st = "on")
    <3>1. zap' \in ZapRecord BY <1>0, <2>4, ZapTypes, TypesNow
    <3>2. wait' \in WaitRecord BY <1>0, <2>4, WaitType, NoWaitType
    <3> QED BY <2>2, <2>4, <3>1, <3>2
  <2> QED BY <2>1, <2>3, <2>4 DEF FinishPrestop
<1> QED BY <1>0, <1>1, <1>2, TypesNow, Together
  DEF FinishPrestop, settingVars, sessionVars, processVars, boundVars

(* The hot switch.                                                           *)
LEMMA HotStepTyped == ASSUME Typed, HotStep PROVE Typed'
<1>1. ASSUME hotFrame, HotTypes', QueueTypes', blocked' \in Signature \cup {None},
             session' \in Session \cup {None}, committed' \in Node, target' \in MaybeNode
      PROVE  Typed'
  BY <1>1, TypesNow, Together DEF hotFrame, settingVars
<1>2. ASSUME UNCHANGED selectionVars PROVE committed' \in Node /\ target' \in MaybeNode
  BY <1>2, TypesNow DEF selectionVars
<1>3. ASSUME hot.pc # "idle" PROVE hot \in HotRecord /\ hot.node \in Node /\ hot.prev \in Node
  BY <1>3 DEF Typed, TypeOK, HotBegun
<1>4. ASSUME hot' = NoHot, hotPending' = FALSE, Request(FALSE), UNCHANGED <<hotGen, front, side>>,
             UNCHANGED selectionVars, faults' \in 0..MaxFaults
      PROVE  HotTypes' /\ QueueTypes' /\ blocked' \in Signature \cup {None}
  BY <1>2, <1>4, NoHotBegun, RequestTyped, TypesNow DEF HotTypes
<1>5. CASE HotStale
  BY <1>1, <1>2, <1>5, EndHotTyped, TypesNow DEF HotStale
<1>6. CASE HotVerified
  <2>1. CASE CallCore(hot) /\ UNCHANGED <<hotGen, hotPending>> /\ queueUntouched
    <3>1. hot \in HotRecord /\ hot.node \in Node /\ hot.prev \in Node
      BY <1>3, <1>6 DEF HotVerified
    <3>2. HotTypes' BY <2>1, <3>1, CallCoreTyped, TypesNow DEF HotTypes
    <3> QED BY <1>1, <1>2, <1>6, <2>1, <3>2, QueueKept, TypesNow DEF HotVerified
  <2>2. CASE /\ faults' \in 0..MaxFaults
             /\ hot' = NoHot /\ hotPending' = FALSE /\ Request(FALSE)
             /\ UNCHANGED <<hotGen, front, side>>
    BY <1>1, <1>2, <1>4, <1>6, <2>2, TypesNow DEF HotVerified
  <2> QED BY <1>6, <2>1, <2>2, FailsType, TypesNow DEF HotVerified, HotTypes
<1>7. CASE HotFailed
  BY <1>1, <1>2, <1>4, <1>7, TypesNow DEF HotFailed, HotTypes
<1>8. CASE HotRelay
  <2>1. hot \in HotRecord /\ hot.node \in Node /\ hot.prev \in Node
    BY <1>3, <1>8 DEF HotRelay
  <2>2. SameSwitch(hot) BY <1>8, <2>1, HotMoves, HotGoes DEF HotRelay, HotPcs
  <2>3. faults' \in 0..MaxFaults BY <1>8, FailsType, TypesNow DEF HotRelay, HotTypes
  <2>4. HotTypes'
    BY <1>8, <2>1, <2>2, <2>3, HotMoves, HotGoes, TypesNow
    DEF HotRelay, HotTypes, SameSwitch, HotBegun, HotPcs
  <2> QED BY <1>1, <1>2, <1>8, <2>4, QueueKept, TypesNow DEF HotRelay
<1>9. CASE HotRestore
  <2>1. hot \in HotRecord /\ hot.node \in Node /\ hot.prev \in Node
    BY <1>3, <1>9 DEF HotRestore
  <2>2. SameSwitch(hot) /\ hot'.pc = "restore" BY <1>9, <2>1, HotGoes DEF HotRestore, HotPcs
  <2>3. front' \in MaybeNode /\ side' \in [SideKinds -> MaybeNode]
    BY <1>9, <2>1, CoreSelectsTypes DEF HotRestore
  <2>4. HotTypes'
    BY <1>9, <2>1, <2>2, <2>3, TypesNow DEF HotRestore, HotTypes, SameSwitch, HotBegun
  <2> QED BY <1>1, <1>2, <1>9, <2>4, QueueKept, TypesNow DEF HotRestore
<1>10. CASE HotDone
  <2>1. hot \in HotRecord /\ hot.node \in Node /\ hot.prev \in Node /\ hot.tun \in BOOLEAN
    <3>1. hot.ok BY <1>10 DEF HotDone
    <3>2. hot.pc # "idle" BY <3>1, NoHotDoes DEF Typed, HotBegun
    <3> QED BY <1>3, <3>2 DEF HotRecord
  <2>2. session' \in Session BY <1>10, <2>1, CaptureType DEF HotDone
  <2>3. committed' \in Node /\ target' \in MaybeNode
    BY <1>2, <1>10, <2>1, CommitTypes DEF HotDone
  <2>4. HotTypes' /\ QueueTypes' /\ blocked' \in Signature \cup {None}
    BY <1>10, <2>2, <2>3, EndHotTyped DEF HotDone
  <2> QED BY <1>1, <1>10, <2>2, <2>3, <2>4 DEF HotDone
<1> QED BY <1>5, <1>6, <1>7, <1>8, <1>9, <1>10 DEF HotStep

-----------------------------------------------------------------------------
LEMMA TypesKept == ASSUME Typed, [Next]_vars PROVE Typed'
<1>1. CASE User
  BY <1>1, ToggleTyped, SelectServingTyped, SelectIdleTyped, ChangeProxyTyped, ChangeTunTyped
  DEF User
<1>2. CASE Crash BY <1>2, CrashesTyped
<1>3. CASE Drain BY <1>3, DrainTyped
<1>4. CASE InlineStep \/ WaitStep
  <2>1. CASE Segment
    <3>1. stepFrame
      BY <2>1, Zenon DEF Segment, BeginStop, BeginConnect, BeginProxyUpdate, BeginSwap,
         StopFront, StopSides, Connect, ProxyReleased, PlanFails, StartPlan, SidecarUp,
         SidecarFails, FrontUp, FrontGivenUp, FrontFails, Pinned, PinFails, FrontAborted,
         AfterStartConnect, AfterStartSwapBack, AfterStartSwap, SwapOld, ProxyDone,
         ProxyFails, Ready, SwapCapture, SwapAmnezia, SwapCommit, CandidateUp,
         CandidateFails, SwapStop, SwapStopped, RolledBack, RollbackFails, Unexpected,
         SwapExit, ReconnectExit
    <3> QED BY <2>1, <3>1, SegmentKeepsTypes
  <2> QED BY <1>4, <2>1, StepsAreSegments, FinishTransitionTyped, FinishPrestopTyped
<1>5. CASE HotStep BY <1>5, HotStepTyped
<1>6. CASE Bypass
  BY <1>6, LookupObsoleteTyped, LookupFailedTyped, LookupUnprotectedTyped,
     LookupProtectedTyped, ZapStartedTyped, ZapGoneTyped, ZapTimeoutTyped, ZapLateTyped
  DEF Bypass, LookupStep
<1>7. CASE UNCHANGED vars
  BY <1>7 DEF vars, settingVars, selectionVars, queueVars, sessionVars, processVars, hotVars,
     bypassVars, boundVars, Typed, TypeOK, RunBegun, HotBegun, Active
<1> QED BY <1>1, <1>2, <1>3, <1>4, <1>5, <1>6, <1>7 DEF Next

LEMMA TypesAtStart == ASSUME Init PROVE Typed
<1>1. RunBegun /\ HotBegun
  BY NoRunDoes, NoHotDoes DEF Init, RunBegun, HotBegun, Active, Manned, Prestops
<1>2. run \in RunRecord /\ hot \in HotRecord /\ wait \in WaitRecord
  BY NoRunDoes, NoHotDoes, NoWaitType DEF Init
<1>3. zap \in ZapRecord BY DEF Init, ZapOff, ZapRecord, MaybeNode
<1>4. side \in [SideKinds -> MaybeNode] BY NoSidesType DEF Init
<1>5. wish \in [on : BOOLEAN, node : Node] BY DEF Init
<1>6. /\ desired \in BOOLEAN /\ cleanup \in BOOLEAN /\ pending \in BOOLEAN
      /\ scheduled \in BOOLEAN /\ hotPending \in BOOLEAN /\ connected \in BOOLEAN
      /\ sysproxy \in BOOLEAN /\ tunSetting \in BOOLEAN /\ proxySetting \in BOOLEAN
      /\ proxyBefore \in BOOLEAN
  BY ConnectionAssumption, Zenon DEF Init
<1>7. /\ blocked \in Signature \cup {None} /\ session \in Session \cup {None}
      /\ committed \in Node /\ target \in MaybeNode /\ plan \in MaybeNode
      /\ front \in MaybeNode
  BY Zenon DEF Init, MaybeNode
<1>8. gen = 0 /\ prepared = 0 /\ hotGen = 0 /\ clicks = 0 /\ faults = 0
  BY Zenon DEF Init
<1>9. /\ gen \in Nat /\ prepared \in Nat /\ prepared <= gen /\ hotGen \in Nat
      /\ clicks \in 0..MaxClicks /\ faults \in 0..MaxFaults
  BY <1>8, ConnectionAssumption
<1> QED BY <1>1, <1>2, <1>3, <1>4, <1>5, <1>6, <1>7, <1>9 DEF Typed, TypeOK

(* The types of the coordinator, for any servers, clicks and failures.       *)
THEOREM TypeCorrect == Spec => []TypeOK
<1>1. Typed => TypeOK BY DEF Typed
<1> QED BY TypesAtStart, TypesKept, <1>1, PTL DEF Spec

-----------------------------------------------------------------------------
(* The gate of the queue.  A server is prepared once per generation, and the *)
(* queue waits for the answer; nothing but the stop it asked for runs then.  *)
Gate ==
  /\ wait.gen = 0 <=> wait.on = "none"
  /\ wait.gen # 0 => wait.gen = gen /\ wait.node \in Node /\ prepared = gen
  /\ wait.on = "stop" => run.act \in Prestops
  /\ wait.on = "apply" => zap.st = "starting"
  /\ Active /\ wait.gen # 0 => run.act \in Prestops /\ wait.on = "stop" /\ run.gen = gen
  /\ Active => run.gen <= gen
  /\ run.act \in Prestops => run.gen > 0
  /\ run.act \in Prestops /\ run.gen = gen => wait.on = "stop"

LEMMA SegmentFrame ==
  ASSUME Typed, Segment
  PROVE  /\ stepFrame /\ Active /\ run'.act = run.act /\ run'.gen = run.gen
         /\ (run.act = "disconnect" /\ run.pc \in {"begin", "stop", "stop_sides"} =>
               run'.pc \in {"begin", "stop", "stop_sides"} \/ (run'.pc = "finish" /\ run'.ok))
         /\ run.pc # "finish"
<1>1. CASE BeginStop
  BY <1>1, BeginStopMoves, Awake DEF BeginStop, At, SameRun, SameGoal, ExitTo, Swaps, Prestops
<1>2. CASE BeginConnect
  BY <1>2, BeginConnectMoves, Awake DEF BeginConnect, At, SameRun, SameGoal, ExitTo, Swaps, Prestops
<1>3. CASE BeginProxyUpdate
  BY <1>3, BeginProxyUpdateMoves, Awake
  DEF BeginProxyUpdate, At, SameRun, SameGoal, ExitTo, Swaps, Prestops
<1>4. CASE BeginSwap
  BY <1>4, BeginSwapMoves, Awake DEF BeginSwap, At, SameRun, SameGoal, ExitTo, Swaps, Prestops
<1>5. CASE StopFront
  BY <1>5, StopFrontMoves, Awake DEF StopFront, At, SameRun, SameGoal, ExitTo, Swaps, Prestops
<1>6. CASE StopSides
  BY <1>6, StopSidesMoves, Awake DEF StopSides, At, SameRun, SameGoal, ExitTo, Swaps, Prestops
<1>7. CASE Connect
  BY <1>7, ConnectMoves, Awake DEF Connect, At, SameRun, SameGoal, ExitTo, Swaps, Prestops
<1>8. CASE ProxyReleased
  BY <1>8, ProxyReleasedMoves, Awake
  DEF ProxyReleased, At, SameRun, SameGoal, ExitTo, Swaps, Prestops
<1>9. CASE PlanFails
  BY <1>9, PlanFailsMoves, Awake DEF PlanFails, At, SameRun, SameGoal, ExitTo, Swaps, Prestops
<1>10. CASE StartPlan
  BY <1>10, StartPlanMoves, Awake DEF StartPlan, At, SameRun, SameGoal, ExitTo, Swaps, Prestops
<1>11. CASE SidecarUp
  BY <1>11, SidecarUpMoves, Awake DEF SidecarUp, At, SameRun, SameGoal, ExitTo, Swaps, Prestops
<1>12. CASE SidecarFails
  BY <1>12, SidecarFailsMoves, Awake
  DEF SidecarFails, At, SameRun, SameGoal, ExitTo, Swaps, Prestops
<1>13. CASE FrontUp
  BY <1>13, FrontUpMoves, Awake DEF FrontUp, At, SameRun, SameGoal, ExitTo, Swaps, Prestops
<1>14. CASE FrontGivenUp
  BY <1>14, FrontGivenUpMoves, Awake
  DEF FrontGivenUp, At, SameRun, SameGoal, ExitTo, Swaps, Prestops
<1>15. CASE FrontFails
  BY <1>15, FrontFailsMoves, Awake DEF FrontFails, At, SameRun, SameGoal, ExitTo, Swaps, Prestops
<1>16. CASE Pinned
  BY <1>16, PinnedMoves, Awake DEF Pinned, At, SameRun, SameGoal, ExitTo, Swaps, Prestops
<1>17. CASE PinFails
  BY <1>17, PinFailsMoves, Awake DEF PinFails, At, SameRun, SameGoal, ExitTo, Swaps, Prestops
<1>18. CASE FrontAborted
  BY <1>18, FrontAbortedMoves, Awake
  DEF FrontAborted, At, SameRun, SameGoal, ExitTo, Swaps, Prestops
<1>19. CASE AfterStartConnect
  BY <1>19, AfterStartConnectMoves, Awake
  DEF AfterStartConnect, At, SameRun, SameGoal, ExitTo, Swaps, Prestops
<1>20. CASE AfterStartSwapBack
  BY <1>20, AfterStartSwapBackMoves, Awake
  DEF AfterStartSwapBack, At, SameRun, SameGoal, ExitTo, Swaps, Prestops
<1>21. CASE AfterStartSwap
  BY <1>21, AfterStartSwapMoves, Awake
  DEF AfterStartSwap, At, SameRun, SameGoal, ExitTo, Swaps, Prestops
<1>22. CASE SwapOld
  BY <1>22, SwapOldMoves, Awake DEF SwapOld, At, SameRun, SameGoal, ExitTo, Swaps, Prestops
<1>23. CASE ProxyDone
  BY <1>23, ProxyDoneMoves, Awake DEF ProxyDone, At, SameRun, SameGoal, ExitTo, Swaps, Prestops
<1>24. CASE ProxyFails
  BY <1>24, ProxyFailsMoves, Awake DEF ProxyFails, At, SameRun, SameGoal, ExitTo, Swaps, Prestops
<1>25. CASE Ready
  BY <1>25, ReadyMoves, Awake DEF Ready, At, SameRun, SameGoal, ExitTo, Swaps, Prestops
<1>26. CASE SwapCapture
  BY <1>26, SwapCaptureMoves, Awake DEF SwapCapture, At, SameRun, SameGoal, ExitTo, Swaps, Prestops
<1>27. CASE SwapAmnezia
  BY <1>27, SwapAmneziaMoves, Awake DEF SwapAmnezia, At, SameRun, SameGoal, ExitTo, Swaps, Prestops
<1>28. CASE SwapCommit
  BY <1>28, SwapCommitMoves, Awake DEF SwapCommit, At, SameRun, SameGoal, ExitTo, Swaps, Prestops
<1>29. CASE CandidateUp
  BY <1>29, CandidateUpMoves, Awake DEF CandidateUp, At, SameRun, SameGoal, ExitTo, Swaps, Prestops
<1>30. CASE CandidateFails
  BY <1>30, CandidateFailsMoves, Awake
  DEF CandidateFails, At, SameRun, SameGoal, ExitTo, Swaps, Prestops
<1>31. CASE SwapStop
  BY <1>31, SwapStopMoves, Awake DEF SwapStop, At, SameRun, SameGoal, ExitTo, Swaps, Prestops
<1>32. CASE SwapStopped
  BY <1>32, SwapStoppedMoves, Awake DEF SwapStopped, At, SameRun, SameGoal, ExitTo, Swaps, Prestops
<1>33. CASE RolledBack
  BY <1>33, RolledBackMoves, Awake DEF RolledBack, At, SameRun, SameGoal, ExitTo, Swaps, Prestops
<1>34. CASE RollbackFails
  BY <1>34, RollbackFailsMoves, Awake
  DEF RollbackFails, At, SameRun, SameGoal, ExitTo, Swaps, Prestops
<1>35. CASE Unexpected
  BY <1>35, UnexpectedMoves, Awake DEF Unexpected, At, SameRun, SameGoal, ExitTo, Swaps, Prestops
<1>36. CASE SwapExit
  BY <1>36, SwapExitMoves, Awake DEF SwapExit, At, SameRun, SameGoal, ExitTo, Swaps, Prestops
<1>37. CASE ReconnectExit
  BY <1>37, ReconnectExitMoves, Awake
  DEF ReconnectExit, At, SameRun, SameGoal, ExitTo, Swaps, Prestops
<1> QED
  BY <1>1, <1>2, <1>3, <1>4, <1>5, <1>6, <1>7, <1>8, <1>9, <1>10, <1>11, <1>12, <1>13, <1>14, <1>15, <1>16,
      <1>17, <1>18, <1>19, <1>20, <1>21, <1>22, <1>23, <1>24, <1>25, <1>26, <1>27, <1>28, <1>29, <1>30,
      <1>31, <1>32, <1>33, <1>34, <1>35, <1>36, <1>37, Zenon DEF Segment

LEMMA NoPrestop == NoRun.act \notin Prestops /\ NoRun.act = "none"
BY NoRunDoes DEF Prestops

LEMMA GateStays ==
  ASSUME Gate, UNCHANGED <<gen, prepared, wait>>, run'.act = run.act, run'.gen = run.gen,
         zap'.st = zap.st \/ wait.on # "apply"
  PROVE  Gate'
BY DEF Gate, Active

LEMMA GateOpens ==
  ASSUME Gate, wait' = NoWait, UNCHANGED <<gen, prepared, run>>, wait.on # "stop"
  PROVE  Gate'
BY DEF Gate, Active, NoWait

(* A kick that finds the gate open.                                          *)
LEMMA KickGate ==
  ASSUME Typed, gen' \in {gen, gen + 1}, NEW w \in WaitRecord, w.gen = 0, w.on = "none",
         TargetAfter \in Node, Kick(gen', w)
  PROVE  Gate' /\ run'.gen <= gen' /\ (run'.act # "none" => desired' /\ run'.act \in Prestops)
<1>1. gen' \in Nat /\ prepared \in Nat /\ prepared <= gen'
  BY DEF Typed, TypeOK
<1>2. CASE /\ desired' /\ prepared # gen' /\ prepared' = gen'
           /\ wait'.gen = gen' /\ wait'.on = "stop" /\ wait'.node = TargetAfter
           /\ run' = NewRun("prestop_dns", gen', TargetAfter)
  <2>1. run'.act = "prestop_dns" /\ run'.gen = gen'
    BY <1>2, SMT DEF NewRun, NoRun
  <2> QED BY <1>1, <1>2, <2>1 DEF Gate, Active, Prestops
<1>3. CASE /\ prepared # gen' /\ prepared' = gen'
           /\ wait'.gen = gen' /\ wait'.on = "dns" /\ wait'.node = TargetAfter
           /\ run' = NoRun
  BY <1>1, <1>3, NoRunDoes DEF Gate, Active, Prestops
<1>4. CASE run' = NoRun /\ wait' = w /\ prepared' = prepared
  BY <1>1, <1>4, NoRunDoes DEF Gate, Active, Prestops
<1> QED BY <1>1, <1>2, <1>3, <1>4, KickDoes

LEMMA RequestGate ==
  ASSUME Typed, Gate, NEW k, Request(k), committed' \in Node, target' \in MaybeNode
  PROVE  Gate'
<1>1. TargetAfter \in Node /\ gen' = gen + 1 /\ gen \in Nat
  BY TargetAfterIsNode DEF Request, Typed, TypeOK
<1>2. CASE Active
  BY <1>1, <1>2 DEF Request, Gate, Active, NoWait, Typed, TypeOK, RunRecord
<1>3. CASE ~Active
  <2>1. NoWait.gen = 0 /\ NoWait.on = "none" BY DEF NoWait
  <2> QED BY <1>1, <1>3, <2>1, NoWaitType, KickGate DEF Request
<1> QED BY <1>2, <1>3

LEMMA FailWaitGate ==
  ASSUME Typed, Gate, FailWait, wait.on # "stop", UNCHANGED selectionVars PROVE Gate'
<1>1. TargetAfter \in Node /\ gen \in Nat
  BY TypesNow, TargetAfterIsNode DEF selectionVars, QueueTypes
<1>2. CASE gen' = gen + 1 /\ Active /\ wait' = NoWait /\ UNCHANGED <<prepared, scheduled, run>>
  BY <1>1, <1>2 DEF Gate, Active, NoWait, Typed, TypeOK, RunRecord
<1>3. CASE gen' = gen + 1 /\ Kick(gen', NoWait)
  <2>1. NoWait.gen = 0 /\ NoWait.on = "none" BY DEF NoWait
  <2> QED BY <1>1, <1>3, <2>1, NoWaitType, KickGate
<1>4. CASE wait' = NoWait /\ UNCHANGED <<gen, prepared, scheduled, run>>
  BY <1>4, GateOpens
<1> QED BY <1>2, <1>3, <1>4 DEF FailWait

LEMMA ZapStoppedGate ==
  ASSUME Typed, Gate, ZapStopped, wait.on # "apply", UNCHANGED selectionVars PROVE Gate'
<1>1. committed' \in Node /\ target' \in MaybeNode BY TypesNow DEF selectionVars
<1> QED BY <1>1, RequestGate, GateStays DEF ZapStopped

LEMMA LookupWaits ==
  ASSUME Typed, Gate, LookupAnswers
  PROVE  /\ wait.gen = gen /\ wait.gen > 0 /\ wait.node \in Node /\ wait.on = "dns" /\ ~Active
         /\ prepared = gen /\ run = NoRun
BY DEF Typed, TypeOK, RunBegun, Gate, LookupAnswers

LEMMA RenewGate ==
  ASSUME Typed, Gate, LookupAnswers, HasRule(zap, wait.node), NEW m \in BOOLEAN, Renew(m),
         m \/ ~(zap.st = "on" /\ Covers(zap.rule, wait.node)), UNCHANGED <<gen, prepared>>
  PROVE  /\ Gate' /\ run'.gen <= gen'
         /\ run'.act # "none" => run'.act = "prestop_apply"
<1>1. CASE /\ run' = [NewRun("prestop_apply", gen, wait.node) EXCEPT !.drop = m]
           /\ wait' = [wait EXCEPT !.on = "stop"] /\ UNCHANGED zap
  <2>1. run'.act = "prestop_apply" /\ run'.gen = gen BY <1>1, SMT DEF NewRun, NoRun
  <2>2. gen \in Nat BY DEF Typed, TypeOK
  <2> QED BY <1>1, <2>1, <2>2, LookupWaits, WaitsToStop DEF Gate, Active, Prestops
<1>2. CASE zap' = NewRule(m) /\ wait' = [wait EXCEPT !.on = "apply"] /\ UNCHANGED run
  <2>1. zap'.st = "starting"
    <3>1. CASE m BY <1>2, <3>1 DEF NewRule
    <3>2. CASE ~m /\ zap.rule = wait.node /\ zap.st = "on"
      <4>1. zap.rule # None BY <3>2, LookupWaits, ConnectionAssumption
      <4> QED BY <3>2, <4>1 DEF HasRule, Covers
    <3>3. CASE ~m /\ ~(zap.rule = wait.node /\ zap.st = "on")
      BY <1>2, <3>3 DEF NewRule, Applied
    <3> QED BY <3>1, <3>2, <3>3
  <2>2. /\ run'.act = "none" /\ run'.act \notin Prestops /\ run'.gen = 0
    BY <1>2, LookupWaits, NoPrestop, NoRunDoes
  <2>3. /\ wait'.gen = gen /\ wait'.gen > 0 /\ wait'.node \in Node /\ wait'.on = "apply"
    BY <1>2, LookupWaits, WaitsToApply
  <2>4. gen' = gen /\ prepared' = gen /\ gen \in Nat BY LookupWaits DEF Typed, TypeOK
  <2> QED BY <2>1, <2>2, <2>3, <2>4 DEF Gate, Active
<1> QED BY <1>1, <1>2 DEF Renew

LEMMA LookupGate ==
  ASSUME Typed, Gate, \/ LookupObsolete \/ LookupFailed \/ LookupUnprotected
                      \/ \E m \in BOOLEAN : LookupProtected(m)
  PROVE  Gate'
<1>1. CASE LookupObsolete
  BY <1>1, LookupWaits, GateOpens DEF LookupObsolete, queueVars
<1>2. CASE LookupFailed
  BY <1>2, LookupWaits, GateOpens DEF LookupFailed, CancelTarget
<1>3. CASE LookupUnprotected
  <2>1. committed' \in Node /\ target' \in MaybeNode
    BY <1>3, TypesNow DEF LookupUnprotected, selectionVars
  <2> QED BY <1>3, <2>1, LookupWaits, GateOpens, RequestGate DEF LookupUnprotected
<1>4. ASSUME NEW m \in BOOLEAN, LookupProtected(m) PROVE Gate'
  <2>1. LookupAnswers /\ HasRule(zap, wait.node) /\ UNCHANGED <<gen, prepared>>
    BY <1>4 DEF LookupProtected
  <2>2. CASE wait' = NoWait /\ UNCHANGED run BY <2>1, <2>2, LookupWaits, GateOpens
  <2>3. CASE Renew(m) /\ (m \/ ~(zap.st = "on" /\ Covers(zap.rule, wait.node)))
    BY <2>1, <2>3, RenewGate
  <2> QED BY <1>4, <2>2, <2>3 DEF LookupProtected
<1> QED BY <1>1, <1>2, <1>3, <1>4

LEMMA ZapGate ==
  ASSUME Typed, Gate, ZapStarted \/ ZapGone \/ ZapTimeout \/ ZapLate PROVE Gate'
<1>0. wait.on = "apply" => AnswersWait BY DEF Gate, AnswersWait
<1>1. AnswersWait => wait.on = "apply" BY DEF AnswersWait
<1>2. CASE ZapStarted
  <2>1. CASE ~AnswersWait /\ UNCHANGED <<gen, prepared, wait, run>>
    BY <1>0, <2>1, GateStays
  <2>2. CASE AnswersWait /\ wait' = NoWait /\ UNCHANGED <<gen, prepared, run>>
    BY <1>1, <2>2, GateOpens
  <2>3. CASE AnswersWait /\ FailWait
    BY <1>1, <1>2, <2>3, FailWaitGate DEF ZapStarted
  <2> QED BY <1>2, <2>1, <2>2, <2>3 DEF ZapStarted
<1>3. CASE ZapGone
  BY <1>0, <1>1, <1>3, FailWaitGate, ZapStoppedGate DEF ZapGone, Gate
<1>4. CASE ZapTimeout
  BY <1>0, <1>1, <1>4, FailWaitGate, ZapStoppedGate DEF ZapTimeout
<1>5. CASE ZapLate
  BY <1>5, GateStays DEF ZapLate, Gate, queueVars
<1> QED BY <1>2, <1>3, <1>4, <1>5

LEMMA UserGate == ASSUME Typed, Gate, User PROVE Gate'
<1>0. ASSUME UNCHANGED <<blocked, pending, gen, prepared, scheduled, wait, run>>, UNCHANGED zap
      PROVE  Gate'
  BY <1>0, GateStays
<1>1. CASE Toggle
  <2>1. committed' \in Node /\ target' \in MaybeNode
    BY <1>1, TypesNow DEF Toggle, Drop, selectionVars, MaybeNode
  <2> QED BY <1>1, <2>1, RequestGate DEF Toggle
<1>2. ASSUME NEW n \in Node, SelectServing(n) PROVE Gate'
  <2>1. committed' \in Node /\ target' \in MaybeNode
    BY <1>2, TypesNow DEF SelectServing, RequestServing, MaybeNode
  <2> QED BY <1>0, <1>2, <2>1, RequestGate DEF SelectServing, userFrame
<1>3. ASSUME NEW n \in Node, SelectIdle(n) PROVE Gate'
  <2>1. committed' \in Node /\ target' \in MaybeNode
    BY <1>3 DEF SelectIdle, RequestIdle, MaybeNode
  <2> QED BY <1>0, <1>3, <2>1, RequestGate DEF SelectIdle, userFrame
<1>4. ASSUME ApplySettings PROVE Gate'
  <2>1. committed' \in Node /\ target' \in MaybeNode
    BY <1>4, TypesNow DEF ApplySettings, selectionVars
  <2> QED BY <1>0, <1>4, <2>1, RequestGate DEF ApplySettings, userFrame
<1> QED BY <1>1, <1>2, <1>3, <1>4 DEF User, ChangeProxy, ChangeTun

LEMMA DrainGate == ASSUME Typed, Gate, Drain PROVE Gate'
<1>1. UNCHANGED <<gen, prepared, wait, zap>> BY DEF Drain, bypassVars
<1>2. CASE UNCHANGED run BY <1>1, <1>2, GateStays
<1>3. ASSUME NEW a \in Acts \ (Prestops \cup {"none"}), StartRun(a), ~WaitingFor(gen)
      PROVE  Gate'
  <2>1. run'.act = a /\ run'.gen = gen BY <1>3, SMT DEF StartRun, NewRun, NoRun
  <2>2. wait.gen = 0 /\ gen \in Nat BY <1>3 DEF Gate, WaitingFor, Typed, TypeOK
  <2> QED BY <1>1, <1>3, <2>1, <2>2 DEF Gate, Active
<1>4. "cleanup" \in Acts \ (Prestops \cup {"none"}) BY DEF Acts, Prestops
<1> QED BY <1>2, <1>3, <1>4, ActionIsAct DEF Drain

LEMMA FinishGate == ASSUME Typed, Gate, FinishTransition \/ FinishPrestop PROVE Gate'
<1>0. Active BY Awake DEF FinishTransition, Finished, FinishPrestop
<1>1. CASE FinishTransition
  <2>1. wait.gen = 0 /\ wait.on = "none" /\ wait \in WaitRecord
    BY <1>0, <1>1 DEF FinishTransition, Finished, Gate, Typed, TypeOK
  <2>2. gen' = gen /\ committed' \in Node /\ target' \in MaybeNode
    BY <1>1, TypesNow, SettleTypes DEF FinishTransition, selectionVars
  <2>3. CASE Kick(gen, wait) /\ UNCHANGED zap
    BY <2>1, <2>2, <2>3, TargetAfterIsNode, KickGate
  <2>4. CASE run' = NoRun /\ UNCHANGED <<prepared, wait>>
    BY <2>1, <2>2, <2>4, NoPrestop DEF Gate, Active
  <2> QED BY <1>1, <2>3, <2>4 DEF FinishTransition, GoOn
<1>2. CASE FinishPrestop /\ Superseded
  <2>1. wait.gen = 0 /\ wait.on = "none" /\ wait \in WaitRecord
    BY <1>0, <1>2 DEF Superseded, Gate, Typed, TypeOK
  <2>2. gen' = gen /\ committed' \in Node /\ target' \in MaybeNode
    BY <1>2, TypesNow DEF FinishPrestop, selectionVars
  <2> QED BY <1>2, <2>1, <2>2, TargetAfterIsNode, KickGate DEF FinishPrestop
<1>3. CASE FinishPrestop /\ ~Superseded
  <2>1. /\ gen' = gen /\ prepared' = prepared /\ run' = NoRun /\ gen # 0 /\ gen \in Nat
        /\ prepared = gen /\ run.node \in Node /\ run.node \in MaybeNode
    BY <1>3 DEF FinishPrestop, Superseded, Gate, Typed, TypeOK, RunBegun, RunRecord
  <2>2. CASE wait' = [gen |-> gen, on |-> "dns", node |-> run.node]
    BY <2>1, <2>2, NoPrestop DEF Gate, Active
  <2>3. CASE /\ zap' = IF run.drop THEN [rule |-> run.node, st |-> "starting"]
                                   ELSE Applied(zap, run.node)
             /\ wait' = IF zap'.st = "on" THEN NoWait
                        ELSE [gen |-> gen, on |-> "apply", node |-> run.node]
    <3>1. zap'.st \in {"starting", "on"} BY <2>3 DEF Applied
    <3> QED BY <2>1, <2>3, <3>1, NoPrestop DEF Gate, Active, NoWait
  <2> QED BY <1>3, <2>2, <2>3 DEF FinishPrestop
<1> QED BY <1>1, <1>2, <1>3

LEMMA HotGate == ASSUME Typed, Gate, HotStep PROVE Gate'
<1>1. ASSUME hotFrame, queueUntouched PROVE Gate'
  BY <1>1, GateStays DEF hotFrame, queueUntouched
<1>2. ASSUME Request(FALSE), UNCHANGED selectionVars PROVE Gate'
  BY <1>2, TypesNow, RequestGate DEF selectionVars
<1>3. ASSUME hotFrame, NEW s, EndHot(s), committed' \in Node, target' \in MaybeNode PROVE Gate'
  BY <1>1, <1>3, RequestGate DEF EndHot, Dispatch
<1>4. CASE HotDone
  <2>1. hot \in HotRecord /\ hot.node \in Node
    BY <1>4, NoHotDoes DEF HotDone, Typed, TypeOK, HotBegun
  <2>2. committed' \in Node /\ target' \in MaybeNode
    BY <1>4, <2>1, TypesNow, CommitTypes DEF HotDone, selectionVars
  <2> QED BY <1>3, <1>4, <2>2 DEF HotDone
<1>5. CASE HotStale BY <1>3, <1>5, TypesNow DEF HotStale, selectionVars
<1> QED BY <1>1, <1>2, <1>4, <1>5 DEF HotStep, HotVerified, HotFailed, HotRelay, HotRestore

LEMMA GateKept == ASSUME Typed, Gate, [Next]_vars PROVE Gate'
<1>1. CASE Crash
  BY <1>1, GateStays
  DEF Crash, FrontCrash, XrayCrash, AmneziaCrash, crashFrame, queueVars, bypassVars
<1>2. CASE Segment
  BY <1>2, SegmentFrame, GateStays DEF stepFrame, queueVars, bypassVars
<1>3. CASE Bypass BY <1>3, LookupGate, ZapGate DEF Bypass, LookupStep
<1>4. CASE UNCHANGED vars
  BY <1>4, GateStays DEF vars, queueVars, bypassVars
<1> QED BY <1>1, <1>2, <1>3, <1>4, UserGate, DrainGate, FinishGate, HotGate, StepsAreSegments
  DEF Next

-----------------------------------------------------------------------------
(* What is done is what the user asked for.  `wish` is the history of the    *)
(* clicks; the intent, the runs and the hot switches of the newest           *)
(* generation never outlive it.                                              *)
IntentWanted == desired => wish.on

(* A disconnection is the one run nobody has to be connected for; it always  *)
(* succeeds, so its outcome never turns the intent back on.                  *)
RunWanted ==
  /\ Active /\ run.gen = gen /\ run.act \notin {"disconnect", "cleanup"} => wish.on
  /\ run.act = "disconnect" =>
       run.pc \in {"begin", "stop", "stop_sides"} \/ (run.pc = "finish" /\ run.ok)

HotWanted == hot.pc # "idle" => hot.tgen <= gen /\ (hot.tgen = gen => wish.on)

Wanted == IntentWanted /\ RunWanted /\ HotWanted

LEMMA StopWithdraws ==
  ASSUME NEW f, NEW sd, CoreDown(f, sd) \/ FrontEnds(sd) \/ DisconnectAll
  PROVE  desired' => desired
<1>1. DisconnectAll => (desired' => desired) BY DEF DisconnectAll
<1>2. \A g, s : CoreDown(g, s) => (desired' => desired) BY <1>1 DEF CoreDown
<1> QED BY <1>1, <1>2 DEF FrontEnds

LEMMA SegmentWithdraws == ASSUME Segment PROVE desired' => desired
<1>1. CASE StopFront BY <1>1, StopWithdraws DEF StopFront
<1>2. CASE FrontAborted
  <2>1. PICK sd : FrontEnds(sd) BY <1>2 DEF FrontAborted
  <2> QED BY <2>1, StopWithdraws
<1>3. CASE Unexpected BY <1>3, StopWithdraws DEF Unexpected
<1>4. CASE ~(StopFront \/ FrontAborted \/ Unexpected)
  <2>1. UNCHANGED desired
    BY <1>4, Zenon DEF Segment,
       BeginStop, BeginConnect, BeginProxyUpdate, BeginSwap, StopSides,
       Connect, ProxyReleased, PlanFails, StartPlan, SidecarUp,
       SidecarFails, FrontUp, FrontGivenUp, FrontFails, Pinned,
       PinFails, AfterStartConnect, AfterStartSwapBack, AfterStartSwap, SwapOld,
       ProxyDone, ProxyFails, Ready, SwapCapture, SwapAmnezia,
       SwapCommit, CandidateUp, CandidateFails, SwapStop, SwapStopped,
       RolledBack, RollbackFails, SwapExit, ReconnectExit
  <2> QED BY <2>1
<1> QED BY <1>1, <1>2, <1>3, <1>4

LEMMA RunStays ==
  ASSUME RunWanted, UNCHANGED <<gen, run>>, wish.on => wish'.on PROVE RunWanted'
BY DEF RunWanted, Active

LEMMA HotStays ==
  ASSUME HotWanted, UNCHANGED <<gen, hot>>, wish.on => wish'.on PROVE HotWanted'
BY DEF HotWanted

LEMMA HotOutdated == ASSUME Typed, HotWanted, gen' = gen + 1, hot' = hot PROVE HotWanted'
<1>1. gen \in Nat /\ (hot.tgen \in Nat) BY DEF Typed, TypeOK, HotRecord
<1> QED BY <1>1 DEF HotWanted

LEMMA HotOver == ASSUME hot' = NoHot PROVE HotWanted'
BY NoHotDoes DEF HotWanted

LEMMA PrestopWanted ==
  ASSUME run'.act # "none" => run'.act \in Prestops /\ wish'.on PROVE RunWanted'
BY DEF RunWanted, Active, Prestops

LEMMA RequestWanted ==
  ASSUME Typed, Gate, RunWanted, NEW k, Request(k), committed' \in Node, target' \in MaybeNode,
         desired' => wish'.on
  PROVE  RunWanted' /\ gen' = gen + 1
<1>1. TargetAfter \in Node /\ gen' = gen + 1 /\ gen \in Nat
  BY TargetAfterIsNode DEF Request, Typed, TypeOK
<1>2. CASE Active
  <2>1. run' = run /\ run.gen \in Nat /\ run.gen <= gen
    BY <1>2 DEF Request, Gate, Typed, TypeOK, RunRecord
  <2> QED BY <1>1, <2>1 DEF RunWanted
<1>3. CASE ~Active
  <2>1. NoWait.gen = 0 /\ NoWait.on = "none" BY DEF NoWait
  <2> QED BY <1>1, <1>3, <2>1, NoWaitType, KickGate, PrestopWanted DEF Request
<1> QED BY <1>1, <1>2, <1>3

LEMMA FailWaitWanted ==
  ASSUME Typed, Gate, Wanted, FailWait, UNCHANGED <<selectionVars, hot, wish>> PROVE Wanted'
<1>1. TargetAfter \in Node /\ gen \in Nat /\ ~desired'
  BY TypesNow, TargetAfterIsNode DEF selectionVars, QueueTypes, FailWait
<1>2. CASE gen' = gen + 1 /\ Active /\ UNCHANGED run
  <2>1. run.gen \in Nat /\ run.gen <= gen BY <1>2 DEF Gate, Typed, TypeOK, RunRecord
  <2>2. RunWanted' BY <1>1, <1>2, <2>1 DEF RunWanted, Wanted
  <2> QED BY <1>1, <1>2, <2>2, HotOutdated DEF Wanted, IntentWanted
<1>3. CASE gen' = gen + 1 /\ Kick(gen', NoWait)
  <2>1. NoWait.gen = 0 /\ NoWait.on = "none" BY DEF NoWait
  <2> QED BY <1>1, <1>3, <2>1, NoWaitType, KickGate, PrestopWanted, HotOutdated
    DEF Wanted, IntentWanted
<1>4. CASE UNCHANGED <<gen, run>>
  BY <1>1, <1>4, RunStays, HotStays DEF Wanted, IntentWanted
<1> QED BY <1>2, <1>3, <1>4 DEF FailWait

LEMMA ZapStoppedWanted ==
  ASSUME Typed, Gate, Wanted, ZapStopped, UNCHANGED <<selectionVars, hot, wish>> PROVE Wanted'
<1>1. committed' \in Node /\ target' \in MaybeNode BY TypesNow DEF selectionVars
<1>2. CASE desired' = FALSE /\ Request(TRUE)
  BY <1>1, <1>2, RequestWanted, HotOutdated DEF Wanted, IntentWanted
<1>3. CASE UNCHANGED <<desired, gen, run>>
  BY <1>3, RunStays, HotStays DEF Wanted, IntentWanted
<1> QED BY <1>2, <1>3 DEF ZapStopped

LEMMA UserWanted == ASSUME Typed, Gate, Wanted, User PROVE Wanted'
<1>1. CASE Toggle
  <2>1. committed' \in Node /\ target' \in MaybeNode /\ hot' = hot
    BY <1>1, TypesNow DEF Toggle, Drop, selectionVars, MaybeNode, serverVars
  <2>2. wish'.on = desired' BY <1>1 DEF Toggle
  <2> QED BY <1>1, <2>1, <2>2, RequestWanted, HotOutdated DEF Toggle, Wanted, IntentWanted
<1>2. ASSUME NEW n \in Node, SelectServing(n) PROVE Wanted'
  <2>1. committed' \in Node /\ target' \in MaybeNode /\ wish'.on
    BY <1>2, TypesNow DEF SelectServing, RequestServing, MaybeNode
  <2>2. CASE TryHot(n) /\ UNCHANGED <<gen, run>>
    <3>1. session \in Session /\ hotGen' \in Nat /\ gen \in Nat
      BY <1>2, <2>2, TypesNow DEF SelectServing, Serving, TryHot, HotTypes, QueueTypes
    <3>2. CASE hot' = hot BY <2>1, <2>2, <3>2, RunStays, HotStays DEF Wanted, IntentWanted
    <3>3. CASE StartHot(session, n)
      <4>1. hot'.tgen = gen BY <3>1, <3>3, StartHotDoes
      <4> QED BY <2>1, <2>2, <3>1, <4>1, RunStays DEF Wanted, IntentWanted, HotWanted
    <3> QED BY <2>2, <3>2, <3>3 DEF TryHot
  <2>3. CASE Request(FALSE) /\ hot' = hot
    BY <2>1, <2>3, RequestWanted, HotOutdated DEF Wanted, IntentWanted
  <2> QED BY <1>2, <2>2, <2>3 DEF SelectServing, serverVars
<1>3. ASSUME NEW n \in Node, SelectIdle(n) PROVE Wanted'
  <2>1. committed' \in Node /\ target' \in MaybeNode /\ hot' = hot /\ desired' = desired
    BY <1>3 DEF SelectIdle, RequestIdle, MaybeNode, serverVars
  <2>2. wish'.on = wish.on
    <3>1. wish' = [wish EXCEPT !.node = n] BY <1>3 DEF SelectIdle
    <3> QED BY <3>1, TypesNow
  <2>3. CASE Request(FALSE)
    BY <2>1, <2>2, <2>3, RequestWanted, HotOutdated DEF Wanted, IntentWanted
  <2>4. CASE UNCHANGED <<gen, run>>
    BY <2>1, <2>2, <2>4, RunStays, HotStays DEF Wanted, IntentWanted
  <2> QED BY <1>3, <2>3, <2>4 DEF SelectIdle
<1>4. ASSUME ApplySettings, desired' => wish'.on, wish.on => wish'.on PROVE Wanted'
  <2>1. committed' \in Node /\ target' \in MaybeNode /\ hot' = hot
    BY <1>4, TypesNow DEF ApplySettings, selectionVars, serverVars
  <2>2. CASE Request(FALSE)
    BY <1>4, <2>1, <2>2, RequestWanted, HotOutdated DEF Wanted, IntentWanted
  <2>3. CASE UNCHANGED <<gen, run>>
    BY <1>4, <2>1, <2>3, RunStays, HotStays DEF Wanted, IntentWanted
  <2> QED BY <1>4, <2>2, <2>3 DEF ApplySettings
<1>5. CASE ChangeProxy BY <1>4, <1>5 DEF ChangeProxy, Wanted, IntentWanted
<1>6. CASE ChangeTun
  <2>1. wish'.on = (wish.on \/ desired')
    <3>1. wish' = [wish EXCEPT !.on = wish.on \/ desired'] BY <1>6 DEF ChangeTun
    <3> QED BY <3>1, TypesNow
  <2> QED BY <1>4, <1>6, <2>1 DEF ChangeTun
<1> QED BY <1>1, <1>2, <1>3, <1>5, <1>6 DEF User

LEMMA LookupWanted ==
  ASSUME Typed, Gate, Wanted, \/ LookupObsolete \/ LookupFailed \/ LookupUnprotected
                              \/ \E m \in BOOLEAN : LookupProtected(m)
  PROVE  Wanted'
<1>1. CASE LookupObsolete
  BY <1>1, RunStays, HotStays
  DEF LookupObsolete, queueVars, hotVars, boundVars, Wanted, IntentWanted
<1>2. CASE LookupFailed
  BY <1>2, RunStays, HotStays DEF LookupFailed, CancelTarget, hotVars, Wanted, IntentWanted
<1>3. CASE LookupUnprotected
  <2>1. committed' \in Node /\ target' \in MaybeNode /\ UNCHANGED <<hot, wish>>
    BY <1>3, TypesNow DEF LookupUnprotected, selectionVars, hotVars, boundVars
  <2>2. CASE desired' = FALSE /\ Request(TRUE)
    BY <2>1, <2>2, RequestWanted, HotOutdated DEF Wanted, IntentWanted
  <2>3. CASE UNCHANGED <<desired, gen, run>>
    BY <2>1, <2>3, RunStays, HotStays DEF Wanted, IntentWanted
  <2> QED BY <1>3, <2>2, <2>3 DEF LookupUnprotected
<1>4. ASSUME NEW m \in BOOLEAN, LookupProtected(m) PROVE Wanted'
  <2>1. /\ LookupAnswers /\ HasRule(zap, wait.node) /\ UNCHANGED <<gen, prepared, desired, hot, wish>>
        /\ desired
    BY <1>4 DEF LookupProtected, hotVars
  <2>2. CASE UNCHANGED run BY <2>1, <2>2, RunStays, HotStays DEF Wanted, IntentWanted
  <2>3. CASE Renew(m) /\ (m \/ ~(zap.st = "on" /\ Covers(zap.rule, wait.node)))
    <3>1. run'.act # "none" => run'.act \in Prestops BY <2>1, <2>3, RenewGate DEF Prestops
    <3> QED BY <2>1, <3>1, PrestopWanted, HotStays DEF Wanted, IntentWanted
  <2> QED BY <1>4, <2>2, <2>3 DEF LookupProtected
<1> QED BY <1>1, <1>2, <1>3, <1>4

LEMMA ZapWanted ==
  ASSUME Typed, Gate, Wanted, ZapStarted \/ ZapGone \/ ZapTimeout \/ ZapLate PROVE Wanted'
<1>1. ASSUME UNCHANGED <<desired, gen, run, hot, wish>> PROVE Wanted'
  BY <1>1, RunStays, HotStays DEF Wanted, IntentWanted
<1>2. CASE ZapStarted
  BY <1>1, <1>2, FailWaitWanted DEF ZapStarted, hotVars, boundVars
<1>3. CASE ZapGone
  BY <1>3, FailWaitWanted, ZapStoppedWanted DEF ZapGone, hotVars
<1>4. CASE ZapTimeout
  BY <1>4, FailWaitWanted, ZapStoppedWanted DEF ZapTimeout, hotVars
<1>5. CASE ZapLate
  BY <1>1, <1>5 DEF ZapLate, queueVars, hotVars, boundVars
<1> QED BY <1>2, <1>3, <1>4, <1>5

LEMMA ActionWanted == Action \notin {"none", "disconnect"} => desired
BY DEF Action

LEMMA DrainWanted == ASSUME Typed, Wanted, Drain PROVE Wanted'
<1>1. UNCHANGED <<desired, gen, hot, wish>> BY DEF Drain, hotVars, boundVars
<1>2. CASE UNCHANGED run BY <1>1, <1>2, RunStays, HotStays DEF Wanted, IntentWanted
<1>3. ASSUME NEW a, StartRun(a), a \in {"cleanup", "disconnect"} \/ desired PROVE Wanted'
  <2>1. run'.act = a /\ run'.gen = gen /\ run'.pc = "begin"
    BY <1>3, SMT DEF StartRun, NewRun, NoRun
  <2> QED BY <1>1, <1>3, <2>1, HotStays DEF Wanted, IntentWanted, RunWanted
<1> QED BY <1>2, <1>3, ActionWanted DEF Drain

LEMMA FinishWanted ==
  ASSUME Typed, Gate, Wanted, FinishTransition \/ FinishPrestop PROVE Wanted'
<1>0. Active BY Awake DEF FinishTransition, Finished, FinishPrestop
<1>1. UNCHANGED <<gen, hot, wish>>
  BY DEF FinishTransition, FinishPrestop, hotVars, boundVars
<1>2. desired' => wish'.on
  BY <1>0, <1>1 DEF FinishTransition, Finished, FinishPrestop, Outcome, Superseded, Wanted,
     IntentWanted, RunWanted, Prestops
<1>3. run'.act # "none" => run'.act \in Prestops /\ desired'
  <2>0. TargetAfter \in Node
    BY TypesNow, SettleTypes, TargetAfterIsNode DEF FinishTransition, FinishPrestop, selectionVars
  <2>1. CASE run' = NoRun BY <2>1, NoPrestop
  <2>2. CASE Kick(gen', wait)
    <3>1. CASE wait.gen = 0 /\ wait.on = "none"
      BY <1>1, <2>0, <2>2, <3>1, KickGate DEF Typed, TypeOK
    <3>2. wait.gen = 0 \/ (FinishPrestop /\ ~Superseded)
      BY <1>0 DEF FinishTransition, Finished, Superseded, Gate
    <3>3. CASE FinishPrestop /\ ~Superseded
      BY <2>1, <3>3 DEF FinishPrestop
    <3> QED BY <3>1, <3>2, <3>3 DEF Gate
  <2> QED BY <1>1, <2>1, <2>2 DEF FinishTransition, FinishPrestop, GoOn
<1> QED BY <1>1, <1>2, <1>3, PrestopWanted, HotStays DEF Wanted, IntentWanted

LEMMA DispatchWanted ==
  ASSUME Typed, Gate, Wanted, NEW s \in Session \cup {None}, EndHot(s), UNCHANGED <<desired, wish>>,
         committed' \in Node, target' \in MaybeNode
  PROVE  Wanted'
<1>1. CASE hot' = NoHot /\ queueUntouched
  BY <1>1, RunStays, HotOver DEF queueUntouched, Wanted, IntentWanted
<1>2. CASE hot' = NoHot /\ Request(FALSE)
  BY <1>2, RequestWanted, HotOver DEF Wanted, IntentWanted
<1>3. CASE /\ desired /\ hotGen' = hotGen + 1 /\ Precheck(s, TargetAfter)
           /\ StartHot(s, TargetAfter) /\ queueUntouched
  <2>1. s \in Session /\ hotGen' \in Nat /\ TargetAfter \in Node /\ gen \in Nat
    BY <1>3, TargetAfterIsNode DEF Precheck, Typed, TypeOK
  <2>2. hot'.tgen = gen BY <1>3, <2>1, StartHotDoes
  <2> QED BY <1>3, <2>1, <2>2, RunStays DEF queueUntouched, Wanted, IntentWanted, HotWanted
<1> QED BY <1>1, <1>2, <1>3 DEF EndHot, Dispatch

LEMMA HotStepWanted == ASSUME Typed, Gate, Wanted, HotStep PROVE Wanted'
<1>0. UNCHANGED <<desired, wish>>
  BY DEF HotStep, HotStale, HotVerified, HotFailed, HotRelay, HotRestore, HotDone, hotFrame
<1>1. ASSUME hot.pc # "idle", SameSwitch(hot), queueUntouched PROVE Wanted'
  BY <1>0, <1>1, RunStays DEF queueUntouched, SameSwitch, Wanted, IntentWanted, HotWanted
<1>2. ASSUME hot' = NoHot, Request(FALSE), UNCHANGED selectionVars PROVE Wanted'
  BY <1>0, <1>2, TypesNow, RequestWanted, HotOver DEF selectionVars, Wanted, IntentWanted
<1>3. CASE HotDone
  <2>1. hot \in HotRecord /\ hot.node \in Node /\ hot.tun \in BOOLEAN
    BY <1>3, NoHotDoes DEF HotDone, Typed, TypeOK, HotBegun, HotRecord
  <2>2. committed' \in Node /\ target' \in MaybeNode
    BY <1>3, <2>1, TypesNow, CommitTypes DEF HotDone, selectionVars
  <2>3. session' \in Session BY <1>3, <2>1, CaptureType DEF HotDone
  <2> QED BY <1>0, <1>3, <2>2, <2>3, DispatchWanted DEF HotDone
<1>4. CASE HotStale BY <1>0, <1>4, TypesNow, DispatchWanted DEF HotStale, selectionVars
<1>5. CASE HotVerified
  <2>1. hot \in HotRecord BY DEF Typed, TypeOK
  <2> QED BY <1>1, <1>2, <1>5, <2>1, CallCoreDoes DEF HotVerified
<1>6. CASE HotFailed BY <1>2, <1>6 DEF HotFailed
<1>7. CASE HotRelay
  <2>1. hot \in HotRecord /\ hot.pc # "idle" BY <1>7 DEF Typed, TypeOK, HotRelay
  <2>2. SameSwitch(hot) BY <1>7, <2>1, HotMoves, HotGoes DEF HotRelay, HotPcs
  <2> QED BY <1>1, <1>7, <2>1, <2>2 DEF HotRelay
<1>8. CASE HotRestore
  <2>1. hot \in HotRecord /\ hot.pc # "idle" BY <1>8 DEF Typed, TypeOK, HotRestore
  <2>2. SameSwitch(hot) BY <1>8, <2>1, HotGoes DEF HotRestore, HotPcs
  <2> QED BY <1>1, <1>8, <2>1, <2>2 DEF HotRestore
<1> QED BY <1>3, <1>4, <1>5, <1>6, <1>7, <1>8 DEF HotStep

LEMMA WantedKept == ASSUME Typed, Gate, Wanted, [Next]_vars PROVE Wanted'
<1>1. CASE Crash
  <2>1. desired' => desired
    BY <1>1, StopWithdraws DEF Crash, FrontCrash, XrayCrash, AmneziaCrash
  <2> QED BY <1>1, <2>1, RunStays, HotStays
    DEF Crash, FrontCrash, XrayCrash, AmneziaCrash, crashFrame, queueVars, hotVars, Wanted, IntentWanted
<1>2. CASE Segment
  <2>1. /\ UNCHANGED <<gen, hot, wish>> /\ (desired' => desired) /\ Active
        /\ run'.act = run.act /\ run'.gen = run.gen
        /\ (run.act = "disconnect" /\ run.pc \in {"begin", "stop", "stop_sides"} =>
              run'.pc \in {"begin", "stop", "stop_sides"} \/ (run'.pc = "finish" /\ run'.ok))
        /\ run.pc # "finish"
    BY <1>2, SegmentFrame, SegmentWithdraws DEF stepFrame, queueVars, hotVars
  <2> QED BY <2>1, HotStays DEF Wanted, IntentWanted, RunWanted, Active
<1>3. CASE Bypass BY <1>3, LookupWanted, ZapWanted DEF Bypass, LookupStep
<1>4. CASE UNCHANGED vars
  BY <1>4, RunStays, HotStays DEF vars, queueVars, hotVars, boundVars, Wanted, IntentWanted
<1> QED BY <1>1, <1>2, <1>3, <1>4, UserWanted, DrainWanted, FinishWanted, HotStepWanted,
          StepsAreSegments
  DEF Next


-----------------------------------------------------------------------------
(* The gate and the wish are invariants of the whole coordinator.            *)
Intended == Typed /\ Gate /\ Wanted

LEMMA IntendedAtStart == ASSUME Init PROVE Intended
<1>1. Typed BY TypesAtStart
<1>2. run = NoRun /\ hot = NoHot /\ wait = NoWait /\ desired = FALSE /\ gen = 0
  BY Zenon DEF Init
<1>3. Gate BY <1>2, NoPrestop DEF Gate, NoWait, Active
<1>4. Wanted BY <1>2, NoPrestop, NoHotDoes DEF Wanted, IntentWanted, RunWanted, HotWanted, Active
<1> QED BY <1>1, <1>3, <1>4 DEF Intended

LEMMA IntendedKept == ASSUME Intended, [Next]_vars PROVE Intended'
BY TypesKept, GateKept, WantedKept DEF Intended

(* A segment that makes a session does so for the newest request.            *)
LEMMA SegmentServes ==
  ASSUME Typed, Segment, session' # session, session' # None, run.act # "proxy_update"
  PROVE  desired
<1>1. CASE StopFront \/ FrontAborted \/ Unexpected
  <2>1. \A f, sd : CoreDown(f, sd) => session' \in {session, None}
    BY DEF CoreDown, DisconnectAll
  <2>2. \A sd : FrontEnds(sd) => session' \in {session, None}
    BY <2>1 DEF FrontEnds, sessionVars
  <2> QED BY <1>1, <2>2 DEF StopFront, FrontAborted, Unexpected, DisconnectAll
<1>2. CASE StopSides BY <1>2 DEF StopSides
<1>3. CASE ProxyDone BY <1>3 DEF ProxyDone
<1>4. CASE Ready BY <1>4 DEF Ready, Stale
<1>5. CASE SwapCapture BY <1>5 DEF SwapCapture, Stale
<1>6. CASE ~(StopFront \/ FrontAborted \/ Unexpected \/ StopSides \/ ProxyDone \/ Ready \/ SwapCapture)
  <2>1. UNCHANGED session
    BY <1>6, Zenon DEF Segment, sessionVars,
       BeginStop, BeginConnect, BeginProxyUpdate, BeginSwap,
       Connect, ProxyReleased, PlanFails, StartPlan, SidecarUp,
       SidecarFails, FrontUp, FrontGivenUp, FrontFails, Pinned,
       PinFails, AfterStartConnect, AfterStartSwapBack, AfterStartSwap, SwapOld,
       ProxyFails, SwapAmnezia,
       SwapCommit, CandidateUp, CandidateFails, SwapStop, SwapStopped,
       RolledBack, RollbackFails, SwapExit, ReconnectExit
  <2> QED BY <2>1
<1> QED BY <1>1, <1>2, <1>3, <1>4, <1>5, <1>6

(* No step makes a session of a runtime the user does not want any more.     *)
Asked == session' # session /\ session' # None /\ run.act # "proxy_update" => wish.on

LEMMA StepAsked == ASSUME Intended, [Next]_vars PROVE Asked
<1>0. (desired => wish.on) /\ (hot.pc # "idle" /\ hot.tgen = gen => wish.on)
  BY DEF Intended, Wanted, IntentWanted, HotWanted
<1>1. CASE Segment BY <1>0, <1>1, SegmentServes DEF Asked, Intended
<1>2. CASE Crash
  <2>1. \A f, sd : CoreDown(f, sd) => session' \in {session, None}
    BY DEF CoreDown, DisconnectAll
  <2> QED BY <1>2, <2>1 DEF Crash, FrontCrash, XrayCrash, AmneziaCrash, Asked
<1>3. CASE FinishTransition BY <1>3 DEF FinishTransition, Asked
<1>4. CASE HotDone
  <2>1. hot.pc # "idle" /\ hot.tgen = gen BY <1>4 DEF HotDone, HotCurrent
  <2> QED BY <1>0, <2>1 DEF Asked
<1>5. CASE ~(Segment \/ Crash \/ FinishTransition \/ HotDone)
  <2>1. CASE User
    BY <2>1, Zenon DEF User, Toggle, ChangeProxy, ChangeTun, SelectServing, SelectIdle,
      ApplySettings, userFrame, sessionVars, Asked
  <2>2. CASE Drain BY <2>2, Zenon DEF Drain, sessionVars, Asked
  <2>3. CASE FinishPrestop BY <2>3, Zenon DEF FinishPrestop, sessionVars, Asked
  <2>4. CASE HotStep
    BY <1>5, <2>4, Zenon
      DEF HotStep, HotStale, HotVerified, HotFailed, HotRelay, HotRestore, Asked
  <2>5. CASE Bypass
    BY <2>5, Zenon DEF Bypass, LookupStep, LookupObsolete, LookupFailed, LookupUnprotected,
      LookupProtected, ZapStarted, ZapGone, ZapTimeout, ZapLate, sessionVars, Asked
  <2>6. CASE UNCHANGED vars BY <2>6, Zenon DEF vars, sessionVars, Asked
  <2> QED BY <1>5, <2>1, <2>2, <2>3, <2>4, <2>5, <2>6, StepsAreSegments DEF Next
<1> QED BY <1>1, <1>2, <1>3, <1>4, <1>5

(* Whatever the servers, the clicks and the failures: a runtime becomes the  *)
(* session, by a transition or by a hot switch, only while the user's last   *)
(* word is "connect" (the checks of is_stale and is_current, 5 of them).     *)
THEOREM NeverUnasked ==
  Spec => [][session' # session /\ session' # None /\ run.act # "proxy_update" => wish.on]_vars
<1>1. Init => Intended BY IntendedAtStart
<1>2. Intended /\ [Next]_vars => Intended' BY IntendedKept
<1>3. Intended /\ [Next]_vars => [Asked]_vars BY StepAsked
<1>4. Spec => [][Asked]_vars BY <1>1, <1>2, <1>3, PTL DEF Spec
<1> QED BY <1>4 DEF Asked

-----------------------------------------------------------------------------
(* One process per core.  A step that starts a core relies on what the steps *)
(* before it have ended: the front is down at every place from which it may  *)
(* be started, and no sidecar is left that the start would replace.          *)
Starts == {"connect", "reconnect"}

(* The places a transition may be at.                                        *)
StartPoints == {"begin", "connect", "release", "plan", "sidecar", "front", "front_abort", "pin",
                "started", "proxy", "ready", "stop", "stop_sides", "unexpected",
                "reconnect_exit", "finish"}
SwapPoints  == {"begin", "candidate", "swap_stop", "swap_stopped", "plan", "sidecar", "front",
                "front_abort", "pin", "started", "swap_old", "proxy", "capture", "swap_amnezia",
                "commit", "rollback", "unexpected", "swap_exit", "finish"}

Placed ==
  /\ run.act \in Starts => run.pc \in StartPoints
  /\ run.act \in Swaps => run.pc \in SwapPoints
  /\ run.act \in Prestops \cup {"disconnect", "cleanup"} =>
       run.pc \in {"begin", "stop", "stop_sides", "finish"}
  /\ run.act = "proxy_update" => run.pc \in {"begin", "proxy", "finish"}

(* The front is down where a transition stands before or between two of them. *)
Bare == {"connect", "release", "plan", "sidecar", "front", "swap_stopped", "rollback", "stop_sides"}

FrontIsDown ==
  \/ run.pc \in Bare
  \/ run.act = "connect" /\ run.pc = "begin"
  \/ run.act \in Starts /\ run.pc = "started" /\ ~run.ok

NoFront == FrontIsDown => front = None

(* So is every sidecar before a start brings its own, and the Xray core      *)
(* before a replacement does.                                                *)
SidesAreDown ==
  /\ run.act \in Starts
  /\ run.pc \in {"connect", "release", "plan", "sidecar"} \/ (run.act = "connect" /\ run.pc = "begin")

NoSide == SidesAreDown => \A k \in SideKinds : side[k] = None

NoXray == run.act \in Swaps /\ run.pc \in {"swap_stopped", "plan", "sidecar"} => side["hybrid"] = None

ConnectedRuns == connected => front # None

(* A front that runs without a session is being started, or is cleaned up    *)
(* before anything else is.                                                  *)
Ups == {"front_abort", "pin", "started", "proxy", "ready", "stop"}

Nobody ==
  front # None /\ session = None =>
    \/ run.act \in Starts /\ run.pc \in Ups
    \/ cleanup
    \/ run.act = "cleanup" /\ run.pc \in {"begin", "stop"}

Cleaned == cleanup => run.act \in Prestops \cup {"none"}

(* A replacement keeps the session it replaces.                              *)
Kept == run.act \in Swaps => session # None \/ (run.pc \in {"swap_exit", "finish"} /\ front = None)

(* Its one-server sidecar was brought up beside the running connection, and  *)
(* takes over from it.                                                       *)
Bringing ==
  /\ run.act \in Swaps
  /\ \/ run.pc \in {"swap_stop", "swap_stopped", "plan", "sidecar", "front", "pin", "front_abort"}
     \/ run.pc = "started" /\ run.ok

Brought == Bringing => Pooled(run.node) \/ run.cand = run.node

BroughtAmnezia ==
  run.act \in Swaps /\ run.pc \in {"swap_old", "proxy", "capture"} /\ Kind[run.node] = "amnezia"
    => run.cand = run.node

Alone == run.pc = "sidecar" => run.cand = None

(* The hot switch in flight is not newer than the last one counted.          *)
HotPast == hot.hgen <= hotGen

(* What depends on the place of the run, on the processes, on both.          *)
Carried == Placed /\ Brought /\ BroughtAmnezia /\ Alone
Standing == NoFront /\ NoSide /\ NoXray /\ ConnectedRuns
Owned    == Nobody /\ Cleaned /\ Kept
Single   == Carried /\ Standing /\ Owned /\ HotPast

LEMMA ExitPlace ==
  ExitTo = IF run.act \in Swaps THEN "swap_exit"
           ELSE IF run.act = "reconnect" THEN "reconnect_exit" ELSE "finish"
BY SMT DEF ExitTo, Swaps

(* A segment leads from a place of its transition to another, and carries    *)
(* the sidecar it was brought.                                               *)
LEMMA SegmentCarried == ASSUME Typed, Carried, Segment PROVE Carried'
<1>0. run.act \in Acts /\ run.node \in MaybeNode /\ run.cand \in MaybeNode /\ run.act # "none"
  BY SegmentFrame DEF Typed, TypeOK, RunRecord, Active
<1>1. CASE BeginStop
  BY <1>0, <1>1, BeginStopMoves, ExitPlace
  DEF BeginStop, At, SameRun, SameGoal,
  Carried, Placed, Brought, Bringing, BroughtAmnezia, Alone, Pooled,
  StartPoints, SwapPoints, Starts, Swaps, Prestops
<1>2. CASE BeginConnect
  BY <1>0, <1>2, BeginConnectMoves, ExitPlace
  DEF BeginConnect, At, SameRun, SameGoal,
  Carried, Placed, Brought, Bringing, BroughtAmnezia, Alone, Pooled,
  StartPoints, SwapPoints, Starts, Swaps, Prestops
<1>3. CASE BeginProxyUpdate
  BY <1>0, <1>3, BeginProxyUpdateMoves, ExitPlace
  DEF BeginProxyUpdate, At, SameRun, SameGoal,
  Carried, Placed, Brought, Bringing, BroughtAmnezia, Alone, Pooled,
  StartPoints, SwapPoints, Starts, Swaps, Prestops
<1>4. CASE BeginSwap
  BY <1>0, <1>4, BeginSwapMoves, ExitPlace
  DEF BeginSwap, At, SameRun, SameGoal,
  Carried, Placed, Brought, Bringing, BroughtAmnezia, Alone, Pooled,
  StartPoints, SwapPoints, Starts, Swaps, Prestops
<1>5. CASE StopFront
  BY <1>0, <1>5, StopFrontMoves, ExitPlace
  DEF StopFront, At, SameRun, SameGoal,
  Carried, Placed, Brought, Bringing, BroughtAmnezia, Alone, Pooled,
  StartPoints, SwapPoints, Starts, Swaps, Prestops
<1>6. CASE StopSides
  BY <1>0, <1>6, StopSidesMoves, ExitPlace
  DEF StopSides, At, SameRun, SameGoal,
  Carried, Placed, Brought, Bringing, BroughtAmnezia, Alone, Pooled,
  StartPoints, SwapPoints, Starts, Swaps, Prestops
<1>7. CASE Connect
  BY <1>0, <1>7, ConnectMoves, ExitPlace
  DEF Connect, At, SameRun, SameGoal,
  Carried, Placed, Brought, Bringing, BroughtAmnezia, Alone, Pooled,
  StartPoints, SwapPoints, Starts, Swaps, Prestops
<1>8. CASE ProxyReleased
  BY <1>0, <1>8, ProxyReleasedMoves, ExitPlace
  DEF ProxyReleased, At, SameRun, SameGoal,
  Carried, Placed, Brought, Bringing, BroughtAmnezia, Alone, Pooled,
  StartPoints, SwapPoints, Starts, Swaps, Prestops
<1>9. CASE PlanFails
  BY <1>0, <1>9, PlanFailsMoves, ExitPlace
  DEF PlanFails, At, SameRun, SameGoal,
  Carried, Placed, Brought, Bringing, BroughtAmnezia, Alone, Pooled,
  StartPoints, SwapPoints, Starts, Swaps, Prestops
<1>10. CASE StartPlan
  BY <1>0, <1>10, StartPlanMoves, ExitPlace
  DEF StartPlan, At, SameRun, SameGoal,
  Carried, Placed, Brought, Bringing, BroughtAmnezia, Alone, Pooled,
  StartPoints, SwapPoints, Starts, Swaps, Prestops
<1>11. CASE SidecarUp
  BY <1>0, <1>11, SidecarUpMoves, ExitPlace
  DEF SidecarUp, At, SameRun, SameGoal,
  Carried, Placed, Brought, Bringing, BroughtAmnezia, Alone, Pooled,
  StartPoints, SwapPoints, Starts, Swaps, Prestops
<1>12. CASE SidecarFails
  BY <1>0, <1>12, SidecarFailsMoves, ExitPlace
  DEF SidecarFails, At, SameRun, SameGoal,
  Carried, Placed, Brought, Bringing, BroughtAmnezia, Alone, Pooled,
  StartPoints, SwapPoints, Starts, Swaps, Prestops
<1>13. CASE FrontUp
  BY <1>0, <1>13, FrontUpMoves, ExitPlace
  DEF FrontUp, At, SameRun, SameGoal,
  Carried, Placed, Brought, Bringing, BroughtAmnezia, Alone, Pooled,
  StartPoints, SwapPoints, Starts, Swaps, Prestops
<1>14. CASE FrontGivenUp
  BY <1>0, <1>14, FrontGivenUpMoves, ExitPlace
  DEF FrontGivenUp, At, SameRun, SameGoal,
  Carried, Placed, Brought, Bringing, BroughtAmnezia, Alone, Pooled,
  StartPoints, SwapPoints, Starts, Swaps, Prestops
<1>15. CASE FrontFails
  BY <1>0, <1>15, FrontFailsMoves, ExitPlace
  DEF FrontFails, At, SameRun, SameGoal,
  Carried, Placed, Brought, Bringing, BroughtAmnezia, Alone, Pooled,
  StartPoints, SwapPoints, Starts, Swaps, Prestops
<1>16. CASE Pinned
  BY <1>0, <1>16, PinnedMoves, ExitPlace
  DEF Pinned, At, SameRun, SameGoal,
  Carried, Placed, Brought, Bringing, BroughtAmnezia, Alone, Pooled,
  StartPoints, SwapPoints, Starts, Swaps, Prestops
<1>17. CASE PinFails
  BY <1>0, <1>17, PinFailsMoves, ExitPlace
  DEF PinFails, At, SameRun, SameGoal,
  Carried, Placed, Brought, Bringing, BroughtAmnezia, Alone, Pooled,
  StartPoints, SwapPoints, Starts, Swaps, Prestops
<1>18. CASE FrontAborted
  BY <1>0, <1>18, FrontAbortedMoves, ExitPlace
  DEF FrontAborted, At, SameRun, SameGoal,
  Carried, Placed, Brought, Bringing, BroughtAmnezia, Alone, Pooled,
  StartPoints, SwapPoints, Starts, Swaps, Prestops
<1>19. CASE AfterStartConnect
  BY <1>0, <1>19, AfterStartConnectMoves, ExitPlace
  DEF AfterStartConnect, At, SameRun, SameGoal,
  Carried, Placed, Brought, Bringing, BroughtAmnezia, Alone, Pooled,
  StartPoints, SwapPoints, Starts, Swaps, Prestops
<1>20. CASE AfterStartSwapBack
  BY <1>0, <1>20, AfterStartSwapBackMoves, ExitPlace
  DEF AfterStartSwapBack, At, SameRun, SameGoal,
  Carried, Placed, Brought, Bringing, BroughtAmnezia, Alone, Pooled,
  StartPoints, SwapPoints, Starts, Swaps, Prestops
<1>21. CASE AfterStartSwap
  BY <1>0, <1>21, AfterStartSwapMoves, ExitPlace
  DEF AfterStartSwap, At, SameRun, SameGoal,
  Carried, Placed, Brought, Bringing, BroughtAmnezia, Alone, Pooled,
  StartPoints, SwapPoints, Starts, Swaps, Prestops
<1>22. CASE SwapOld
  BY <1>0, <1>22, SwapOldMoves, ExitPlace
  DEF SwapOld, At, SameRun, SameGoal,
  Carried, Placed, Brought, Bringing, BroughtAmnezia, Alone, Pooled,
  StartPoints, SwapPoints, Starts, Swaps, Prestops
<1>23. CASE ProxyDone
  BY <1>0, <1>23, ProxyDoneMoves, ExitPlace
  DEF ProxyDone, At, SameRun, SameGoal,
  Carried, Placed, Brought, Bringing, BroughtAmnezia, Alone, Pooled,
  StartPoints, SwapPoints, Starts, Swaps, Prestops
<1>24. CASE ProxyFails
  BY <1>0, <1>24, ProxyFailsMoves, ExitPlace
  DEF ProxyFails, At, SameRun, SameGoal,
  Carried, Placed, Brought, Bringing, BroughtAmnezia, Alone, Pooled,
  StartPoints, SwapPoints, Starts, Swaps, Prestops
<1>25. CASE Ready
  BY <1>0, <1>25, ReadyMoves, ExitPlace
  DEF Ready, At, SameRun, SameGoal,
  Carried, Placed, Brought, Bringing, BroughtAmnezia, Alone, Pooled,
  StartPoints, SwapPoints, Starts, Swaps, Prestops
<1>26. CASE SwapCapture
  BY <1>0, <1>26, SwapCaptureMoves, ExitPlace
  DEF SwapCapture, At, SameRun, SameGoal,
  Carried, Placed, Brought, Bringing, BroughtAmnezia, Alone, Pooled,
  StartPoints, SwapPoints, Starts, Swaps, Prestops
<1>27. CASE SwapAmnezia
  BY <1>0, <1>27, SwapAmneziaMoves, ExitPlace
  DEF SwapAmnezia, At, SameRun, SameGoal,
  Carried, Placed, Brought, Bringing, BroughtAmnezia, Alone, Pooled,
  StartPoints, SwapPoints, Starts, Swaps, Prestops
<1>28. CASE SwapCommit
  BY <1>0, <1>28, SwapCommitMoves, ExitPlace
  DEF SwapCommit, At, SameRun, SameGoal,
  Carried, Placed, Brought, Bringing, BroughtAmnezia, Alone, Pooled,
  StartPoints, SwapPoints, Starts, Swaps, Prestops
<1>29. CASE CandidateUp
  BY <1>0, <1>29, CandidateUpMoves, ExitPlace
  DEF CandidateUp, At, SameRun, SameGoal,
  Carried, Placed, Brought, Bringing, BroughtAmnezia, Alone, Pooled,
  StartPoints, SwapPoints, Starts, Swaps, Prestops
<1>30. CASE CandidateFails
  BY <1>0, <1>30, CandidateFailsMoves, ExitPlace
  DEF CandidateFails, At, SameRun, SameGoal,
  Carried, Placed, Brought, Bringing, BroughtAmnezia, Alone, Pooled,
  StartPoints, SwapPoints, Starts, Swaps, Prestops
<1>31. CASE SwapStop
  BY <1>0, <1>31, SwapStopMoves, ExitPlace
  DEF SwapStop, At, SameRun, SameGoal,
  Carried, Placed, Brought, Bringing, BroughtAmnezia, Alone, Pooled,
  StartPoints, SwapPoints, Starts, Swaps, Prestops
<1>32. CASE SwapStopped
  BY <1>0, <1>32, SwapStoppedMoves, ExitPlace
  DEF SwapStopped, At, SameRun, SameGoal,
  Carried, Placed, Brought, Bringing, BroughtAmnezia, Alone, Pooled,
  StartPoints, SwapPoints, Starts, Swaps, Prestops
<1>33. CASE RolledBack
  BY <1>0, <1>33, RolledBackMoves, ExitPlace
  DEF RolledBack, At, SameRun, SameGoal,
  Carried, Placed, Brought, Bringing, BroughtAmnezia, Alone, Pooled,
  StartPoints, SwapPoints, Starts, Swaps, Prestops
<1>34. CASE RollbackFails
  BY <1>0, <1>34, RollbackFailsMoves, ExitPlace
  DEF RollbackFails, At, SameRun, SameGoal,
  Carried, Placed, Brought, Bringing, BroughtAmnezia, Alone, Pooled,
  StartPoints, SwapPoints, Starts, Swaps, Prestops
<1>35. CASE Unexpected
  BY <1>0, <1>35, UnexpectedMoves, ExitPlace
  DEF Unexpected, At, SameRun, SameGoal,
  Carried, Placed, Brought, Bringing, BroughtAmnezia, Alone, Pooled,
  StartPoints, SwapPoints, Starts, Swaps, Prestops
<1>36. CASE SwapExit
  BY <1>0, <1>36, SwapExitMoves, ExitPlace
  DEF SwapExit, At, SameRun, SameGoal,
  Carried, Placed, Brought, Bringing, BroughtAmnezia, Alone, Pooled,
  StartPoints, SwapPoints, Starts, Swaps, Prestops
<1>37. CASE ReconnectExit
  BY <1>0, <1>37, ReconnectExitMoves, ExitPlace
  DEF ReconnectExit, At, SameRun, SameGoal,
  Carried, Placed, Brought, Bringing, BroughtAmnezia, Alone, Pooled,
  StartPoints, SwapPoints, Starts, Swaps, Prestops
<1> QED
  BY <1>1, <1>2, <1>3, <1>4, <1>5, <1>6, <1>7, <1>8, <1>9, <1>10, <1>11, <1>12, <1>13, <1>14, <1>15, <1>16,
      <1>17, <1>18, <1>19, <1>20, <1>21, <1>22, <1>23, <1>24, <1>25, <1>26, <1>27, <1>28, <1>29, <1>30,
      <1>31, <1>32, <1>33, <1>34, <1>35, <1>36, <1>37, Zenon DEF Segment

-----------------------------------------------------------------------------
(* What the end of a core leaves.                                            *)

LEMMA CoreDownDoes ==
  ASSUME NEW f, NEW sd, CoreDown(f, sd)
  PROVE  \/ /\ front' = None /\ side' = NoSides /\ connected' = FALSE /\ session' = None
            /\ ~Switching
         \/ /\ front' = f /\ side' = sd /\ connected' = ConnectedWith(f, sd, session)
            /\ session' = session
BY Zenon DEF CoreDown, DisconnectAll

LEMMA FrontEndsDoes ==
  ASSUME Typed, ConnectedRuns, NEW sd, FrontEnds(sd)
  PROVE  /\ front' = None /\ connected' = FALSE /\ side' \in {sd, NoSides}
         /\ session' = session \/ (session' = None /\ ~Switching)
<1>1. connected \in BOOLEAN BY DEF Typed, TypeOK
<1>2. CASE front # None /\ CoreDown(None, sd)
  BY <1>2, CoreDownDoes DEF ConnectedWith
<1>3. CASE front = None /\ side' = sd /\ UNCHANGED <<front, sysproxy, sessionVars, desired>>
  BY <1>1, <1>3 DEF sessionVars, ConnectedRuns
<1> QED BY <1>2, <1>3, Zenon DEF FrontEnds

LEMMA FallBackFront ==
  ASSUME Typed, NEW sd, NEW c \in {None, run.cand}, FallBack(sd, c)
  PROVE  \/ run'.pc = "rollback" /\ front' = None /\ connected' = FALSE
         \/ run'.pc = "unexpected" /\ front' = front /\ connected' = connected
<1>1. c \in MaybeNode BY DEF Typed, TypeOK, RunRecord, MaybeNode
<1> QED BY <1>1, FallBackDoes, Zenon

LEMMA CaptureIsSession ==
  ASSUME Typed, NEW n \in Node, NEW t \in BOOLEAN PROVE Capture(n, t) # None
BY CaptureType, NoneAssumption

(* A front runs on a connected runtime, and on none that is to be started.   *)
LEMMA SegmentStanding == ASSUME Typed, Carried, Standing, Segment PROVE Standing'
<1>0. /\ run.act \in Acts /\ run.act # "none" /\ None \notin Node
      /\ run.pc \in Manned => run.node \in Node
      /\ run.pc = "rollback" => run.old \in Node
      /\ side \in [SideKinds -> MaybeNode] /\ connected \in BOOLEAN
  BY SegmentFrame, ConnectionAssumption DEF Typed, TypeOK, RunRecord, RunBegun, Active
<1>1. CASE BeginStop
  BY <1>0, <1>1, BeginStopMoves, ExitPlace
  DEF BeginStop, At, SameRun, SameGoal, sessionVars, processVars,
  Carried, Placed, Standing, NoFront, FrontIsDown, NoSide, SidesAreDown, NoXray, ConnectedRuns,
  ConnectedWith, Bare, Manned, SideKinds, StartPoints, SwapPoints, Starts, Swaps, Prestops, Acts
<1>2. CASE BeginConnect
  BY <1>0, <1>2, BeginConnectMoves, ExitPlace
  DEF BeginConnect, At, SameRun, SameGoal, sessionVars, processVars,
  Carried, Placed, Standing, NoFront, FrontIsDown, NoSide, SidesAreDown, NoXray, ConnectedRuns,
  ConnectedWith, Bare, Manned, SideKinds, StartPoints, SwapPoints, Starts, Swaps, Prestops, Acts
<1>3. CASE BeginProxyUpdate
  BY <1>0, <1>3, BeginProxyUpdateMoves, ExitPlace
  DEF BeginProxyUpdate, At, SameRun, SameGoal, sessionVars, processVars,
  Carried, Placed, Standing, NoFront, FrontIsDown, NoSide, SidesAreDown, NoXray, ConnectedRuns,
  ConnectedWith, Bare, Manned, SideKinds, StartPoints, SwapPoints, Starts, Swaps, Prestops, Acts
<1>4. CASE BeginSwap
  BY <1>0, <1>4, BeginSwapMoves, ExitPlace
  DEF BeginSwap, At, SameRun, SameGoal, sessionVars, processVars,
  Carried, Placed, Standing, NoFront, FrontIsDown, NoSide, SidesAreDown, NoXray, ConnectedRuns,
  ConnectedWith, Bare, Manned, SideKinds, StartPoints, SwapPoints, Starts, Swaps, Prestops, Acts
<1>5. CASE StopFront
  BY <1>0, <1>5, StopFrontMoves, ExitPlace, FrontEndsDoes
  DEF StopFront, At, SameRun, SameGoal, sessionVars, processVars,
  Carried, Placed, Standing, NoFront, FrontIsDown, NoSide, SidesAreDown, NoXray, ConnectedRuns,
  ConnectedWith, Bare, Manned, SideKinds, StartPoints, SwapPoints, Starts, Swaps, Prestops, Acts
<1>6. CASE StopSides
  BY <1>0, <1>6, StopSidesMoves, ExitPlace
  DEF StopSides, NoSides, At, SameRun, SameGoal, sessionVars, processVars,
  Carried, Placed, Standing, NoFront, FrontIsDown, NoSide, SidesAreDown, NoXray, ConnectedRuns,
  ConnectedWith, Bare, Manned, SideKinds, StartPoints, SwapPoints, Starts, Swaps, Prestops, Acts
<1>7. CASE Connect
  BY <1>0, <1>7, ConnectMoves, ExitPlace
  DEF Connect, At, SameRun, SameGoal, sessionVars, processVars,
  Carried, Placed, Standing, NoFront, FrontIsDown, NoSide, SidesAreDown, NoXray, ConnectedRuns,
  ConnectedWith, Bare, Manned, SideKinds, StartPoints, SwapPoints, Starts, Swaps, Prestops, Acts
<1>8. CASE ProxyReleased
  BY <1>0, <1>8, ProxyReleasedMoves, ExitPlace
  DEF ProxyReleased, At, SameRun, SameGoal, sessionVars, processVars,
  Carried, Placed, Standing, NoFront, FrontIsDown, NoSide, SidesAreDown, NoXray, ConnectedRuns,
  ConnectedWith, Bare, Manned, SideKinds, StartPoints, SwapPoints, Starts, Swaps, Prestops, Acts
<1>9. CASE PlanFails
  BY <1>0, <1>9, PlanFailsMoves, ExitPlace
  DEF PlanFails, At, SameRun, SameGoal, sessionVars, processVars,
  Carried, Placed, Standing, NoFront, FrontIsDown, NoSide, SidesAreDown, NoXray, ConnectedRuns,
  ConnectedWith, Bare, Manned, SideKinds, StartPoints, SwapPoints, Starts, Swaps, Prestops, Acts
<1>10. CASE StartPlan
  BY <1>0, <1>10, StartPlanMoves, ExitPlace
  DEF StartPlan, At, SameRun, SameGoal, sessionVars, processVars,
  Carried, Placed, Standing, NoFront, FrontIsDown, NoSide, SidesAreDown, NoXray, ConnectedRuns,
  ConnectedWith, Bare, Manned, SideKinds, StartPoints, SwapPoints, Starts, Swaps, Prestops, Acts
<1>11. CASE SidecarUp
  BY <1>0, <1>11, SidecarUpMoves, ExitPlace
  DEF SidecarUp, At, SameRun, SameGoal, sessionVars, processVars,
  Carried, Placed, Standing, NoFront, FrontIsDown, NoSide, SidesAreDown, NoXray, ConnectedRuns,
  ConnectedWith, Bare, Manned, SideKinds, StartPoints, SwapPoints, Starts, Swaps, Prestops, Acts
<1>12. CASE SidecarFails
  BY <1>0, <1>12, SidecarFailsMoves, ExitPlace
  DEF SidecarFails, At, SameRun, SameGoal, sessionVars, processVars,
  Carried, Placed, Standing, NoFront, FrontIsDown, NoSide, SidesAreDown, NoXray, ConnectedRuns,
  ConnectedWith, Bare, Manned, SideKinds, StartPoints, SwapPoints, Starts, Swaps, Prestops, Acts
<1>13. CASE FrontUp
  BY <1>0, <1>13, FrontUpMoves, ExitPlace
  DEF FrontUp, At, SameRun, SameGoal, sessionVars, processVars,
  Carried, Placed, Standing, NoFront, FrontIsDown, NoSide, SidesAreDown, NoXray, ConnectedRuns,
  ConnectedWith, Bare, Manned, SideKinds, StartPoints, SwapPoints, Starts, Swaps, Prestops, Acts
<1>14. CASE FrontGivenUp
  BY <1>0, <1>14, FrontGivenUpMoves, ExitPlace
  DEF FrontGivenUp, At, SameRun, SameGoal, sessionVars, processVars,
  Carried, Placed, Standing, NoFront, FrontIsDown, NoSide, SidesAreDown, NoXray, ConnectedRuns,
  ConnectedWith, Bare, Manned, SideKinds, StartPoints, SwapPoints, Starts, Swaps, Prestops, Acts
<1>15. CASE FrontFails
  BY <1>0, <1>15, FrontFailsMoves, ExitPlace
  DEF FrontFails, At, SameRun, SameGoal, sessionVars, processVars,
  Carried, Placed, Standing, NoFront, FrontIsDown, NoSide, SidesAreDown, NoXray, ConnectedRuns,
  ConnectedWith, Bare, Manned, SideKinds, StartPoints, SwapPoints, Starts, Swaps, Prestops, Acts
<1>16. CASE Pinned
  BY <1>0, <1>16, PinnedMoves, ExitPlace
  DEF Pinned, At, SameRun, SameGoal, sessionVars, processVars,
  Carried, Placed, Standing, NoFront, FrontIsDown, NoSide, SidesAreDown, NoXray, ConnectedRuns,
  ConnectedWith, Bare, Manned, SideKinds, StartPoints, SwapPoints, Starts, Swaps, Prestops, Acts
<1>17. CASE PinFails
  BY <1>0, <1>17, PinFailsMoves, ExitPlace
  DEF PinFails, At, SameRun, SameGoal, sessionVars, processVars,
  Carried, Placed, Standing, NoFront, FrontIsDown, NoSide, SidesAreDown, NoXray, ConnectedRuns,
  ConnectedWith, Bare, Manned, SideKinds, StartPoints, SwapPoints, Starts, Swaps, Prestops, Acts
<1>18. CASE FrontAborted
  BY <1>0, <1>18, FrontAbortedMoves, ExitPlace, FrontEndsDoes
  DEF FrontAborted, At, SameRun, SameGoal, sessionVars, processVars,
  Carried, Placed, Standing, NoFront, FrontIsDown, NoSide, SidesAreDown, NoXray, ConnectedRuns,
  ConnectedWith, Bare, Manned, SideKinds, StartPoints, SwapPoints, Starts, Swaps, Prestops, Acts
<1>19. CASE AfterStartConnect
  BY <1>0, <1>19, AfterStartConnectMoves, ExitPlace
  DEF AfterStartConnect, At, SameRun, SameGoal, sessionVars, processVars,
  Carried, Placed, Standing, NoFront, FrontIsDown, NoSide, SidesAreDown, NoXray, ConnectedRuns,
  ConnectedWith, Bare, Manned, SideKinds, StartPoints, SwapPoints, Starts, Swaps, Prestops, Acts
<1>20. CASE AfterStartSwapBack
  BY <1>0, <1>20, AfterStartSwapBackMoves, ExitPlace, FallBackFront
  DEF AfterStartSwapBack, KeptCandidate, At, SameRun, SameGoal, sessionVars, processVars,
  Carried, Placed, Standing, NoFront, FrontIsDown, NoSide, SidesAreDown, NoXray, ConnectedRuns,
  ConnectedWith, Bare, Manned, SideKinds, StartPoints, SwapPoints, Starts, Swaps, Prestops, Acts
<1>21. CASE AfterStartSwap
  BY <1>0, <1>21, AfterStartSwapMoves, ExitPlace
  DEF AfterStartSwap, At, SameRun, SameGoal, sessionVars, processVars,
  Carried, Placed, Standing, NoFront, FrontIsDown, NoSide, SidesAreDown, NoXray, ConnectedRuns,
  ConnectedWith, Bare, Manned, SideKinds, StartPoints, SwapPoints, Starts, Swaps, Prestops, Acts
<1>22. CASE SwapOld
  BY <1>0, <1>22, SwapOldMoves, ExitPlace
  DEF SwapOld, At, SameRun, SameGoal, sessionVars, processVars,
  Carried, Placed, Standing, NoFront, FrontIsDown, NoSide, SidesAreDown, NoXray, ConnectedRuns,
  ConnectedWith, Bare, Manned, SideKinds, StartPoints, SwapPoints, Starts, Swaps, Prestops, Acts
<1>23. CASE ProxyDone
  BY <1>0, <1>23, ProxyDoneMoves, ExitPlace
  DEF ProxyDone, At, SameRun, SameGoal, sessionVars, processVars,
  Carried, Placed, Standing, NoFront, FrontIsDown, NoSide, SidesAreDown, NoXray, ConnectedRuns,
  ConnectedWith, Bare, Manned, SideKinds, StartPoints, SwapPoints, Starts, Swaps, Prestops, Acts
<1>24. CASE ProxyFails
  BY <1>0, <1>24, ProxyFailsMoves, ExitPlace
  DEF ProxyFails, At, SameRun, SameGoal, sessionVars, processVars,
  Carried, Placed, Standing, NoFront, FrontIsDown, NoSide, SidesAreDown, NoXray, ConnectedRuns,
  ConnectedWith, Bare, Manned, SideKinds, StartPoints, SwapPoints, Starts, Swaps, Prestops, Acts
<1>25. CASE Ready
  BY <1>0, <1>25, ReadyMoves, ExitPlace
  DEF Ready, At, SameRun, SameGoal, sessionVars, processVars,
  Carried, Placed, Standing, NoFront, FrontIsDown, NoSide, SidesAreDown, NoXray, ConnectedRuns,
  ConnectedWith, Bare, Manned, SideKinds, StartPoints, SwapPoints, Starts, Swaps, Prestops, Acts
<1>26. CASE SwapCapture
  <2>1. /\ run'.act = run.act /\ run.act \in Swaps
        /\ \/ run'.pc = "rollback" /\ front' = None /\ connected' = FALSE
           \/ run'.pc = "unexpected" /\ front' = front /\ connected' = connected
           \/ run'.pc = "swap_amnezia" /\ front' = front /\ connected' = connected
    <3>1. run.pc = "capture" BY <1>26 DEF SwapCapture, At
    <3> QED BY <1>0, <1>26, <3>1, SwapCaptureMoves, FallBackFront
      DEF SameGoal, Carried, Placed, StartPoints, Starts, Swaps, Prestops, Acts
  <2> QED BY <1>0, <2>1 DEF Standing, NoFront, FrontIsDown, NoSide, SidesAreDown, NoXray,
    ConnectedRuns, Bare, Starts, Swaps
<1>27. CASE SwapAmnezia
  BY <1>0, <1>27, SwapAmneziaMoves, ExitPlace
  DEF SwapAmnezia, At, SameRun, SameGoal, sessionVars, processVars,
  Carried, Placed, Standing, NoFront, FrontIsDown, NoSide, SidesAreDown, NoXray, ConnectedRuns,
  ConnectedWith, Bare, Manned, SideKinds, StartPoints, SwapPoints, Starts, Swaps, Prestops, Acts
<1>28. CASE SwapCommit
  BY <1>0, <1>28, SwapCommitMoves, ExitPlace
  DEF SwapCommit, At, SameRun, SameGoal, sessionVars, processVars,
  Carried, Placed, Standing, NoFront, FrontIsDown, NoSide, SidesAreDown, NoXray, ConnectedRuns,
  ConnectedWith, Bare, Manned, SideKinds, StartPoints, SwapPoints, Starts, Swaps, Prestops, Acts
<1>29. CASE CandidateUp
  BY <1>0, <1>29, CandidateUpMoves, ExitPlace
  DEF CandidateUp, At, SameRun, SameGoal, sessionVars, processVars,
  Carried, Placed, Standing, NoFront, FrontIsDown, NoSide, SidesAreDown, NoXray, ConnectedRuns,
  ConnectedWith, Bare, Manned, SideKinds, StartPoints, SwapPoints, Starts, Swaps, Prestops, Acts
<1>30. CASE CandidateFails
  BY <1>0, <1>30, CandidateFailsMoves, ExitPlace
  DEF CandidateFails, At, SameRun, SameGoal, sessionVars, processVars,
  Carried, Placed, Standing, NoFront, FrontIsDown, NoSide, SidesAreDown, NoXray, ConnectedRuns,
  ConnectedWith, Bare, Manned, SideKinds, StartPoints, SwapPoints, Starts, Swaps, Prestops, Acts
<1>31. CASE SwapStop
  BY <1>0, <1>31, SwapStopMoves, ExitPlace
  DEF SwapStop, At, SameRun, SameGoal, sessionVars, processVars,
  Carried, Placed, Standing, NoFront, FrontIsDown, NoSide, SidesAreDown, NoXray, ConnectedRuns,
  ConnectedWith, Bare, Manned, SideKinds, StartPoints, SwapPoints, Starts, Swaps, Prestops, Acts
<1>32. CASE SwapStopped
  <2>1. /\ run.act \in Swaps /\ run.pc = "swap_stopped" /\ side' = side /\ run'.act = run.act
    BY <1>0, <1>32, SwapStoppedMoves
    DEF SwapStopped, At, SameGoal, Carried, Placed, StartPoints, Starts, Swaps, Prestops, Acts
  <2>2. \/ run'.pc = "rollback" /\ front' = None /\ connected' = FALSE
        \/ run'.pc = "unexpected" /\ front' = front /\ connected' = connected
        \/ run'.pc = "plan" /\ front' = front /\ connected' = connected
    <3>1. KeptCandidate \in {None, run.cand} BY DEF KeptCandidate
    <3> QED BY <1>32, <3>1, SwapStoppedMoves, FallBackFront
  <2> QED BY <1>0, <2>1, <2>2 DEF Standing, NoFront, FrontIsDown, NoSide, SidesAreDown, NoXray,
    ConnectedRuns, Bare, Starts, Swaps
<1>33. CASE RolledBack
  BY <1>0, <1>33, RolledBackMoves, ExitPlace
  DEF RolledBack, At, SameRun, SameGoal, sessionVars, processVars,
  Carried, Placed, Standing, NoFront, FrontIsDown, NoSide, SidesAreDown, NoXray, ConnectedRuns,
  ConnectedWith, Bare, Manned, SideKinds, StartPoints, SwapPoints, Starts, Swaps, Prestops, Acts
<1>34. CASE RollbackFails
  BY <1>0, <1>34, RollbackFailsMoves, ExitPlace
  DEF RollbackFails, At, SameRun, SameGoal, sessionVars, processVars,
  Carried, Placed, Standing, NoFront, FrontIsDown, NoSide, SidesAreDown, NoXray, ConnectedRuns,
  ConnectedWith, Bare, Manned, SideKinds, StartPoints, SwapPoints, Starts, Swaps, Prestops, Acts
<1>35. CASE Unexpected
  BY <1>0, <1>35, UnexpectedMoves, ExitPlace
  DEF Unexpected, DisconnectAll, NoSides, At, SameRun, SameGoal, sessionVars, processVars,
  Carried, Placed, Standing, NoFront, FrontIsDown, NoSide, SidesAreDown, NoXray, ConnectedRuns,
  ConnectedWith, Bare, Manned, SideKinds, StartPoints, SwapPoints, Starts, Swaps, Prestops, Acts
<1>36. CASE SwapExit
  BY <1>0, <1>36, SwapExitMoves, ExitPlace
  DEF SwapExit, At, SameRun, SameGoal, sessionVars, processVars,
  Carried, Placed, Standing, NoFront, FrontIsDown, NoSide, SidesAreDown, NoXray, ConnectedRuns,
  ConnectedWith, Bare, Manned, SideKinds, StartPoints, SwapPoints, Starts, Swaps, Prestops, Acts
<1>37. CASE ReconnectExit
  BY <1>0, <1>37, ReconnectExitMoves, ExitPlace
  DEF ReconnectExit, At, SameRun, SameGoal, sessionVars, processVars,
  Carried, Placed, Standing, NoFront, FrontIsDown, NoSide, SidesAreDown, NoXray, ConnectedRuns,
  ConnectedWith, Bare, Manned, SideKinds, StartPoints, SwapPoints, Starts, Swaps, Prestops, Acts
<1> QED
  BY <1>1, <1>2, <1>3, <1>4, <1>5, <1>6, <1>7, <1>8, <1>9, <1>10, <1>11, <1>12, <1>13, <1>14, <1>15, <1>16,
      <1>17, <1>18, <1>19, <1>20, <1>21, <1>22, <1>23, <1>24, <1>25, <1>26, <1>27, <1>28, <1>29, <1>30,
      <1>31, <1>32, <1>33, <1>34, <1>35, <1>36, <1>37, Zenon DEF Segment

(* No segment leaves a front running for nobody, but where it is starting.   *)
LEMMA SegmentOwned == ASSUME Typed, Carried, Standing, Owned, Segment PROVE Owned'
<1>0. /\ run.act \in Acts /\ run.act # "none" /\ None \notin Node /\ cleanup' = cleanup
      /\ run.pc \in Manned => run.node \in Node
      /\ run.tun \in BOOLEAN /\ committed \in Node
      /\ Switching <=> run.act \in Swaps \cup {"reconnect"}
  BY SegmentFrame, ConnectionAssumption
  DEF Typed, TypeOK, RunRecord, RunBegun, Active, stepFrame, queueVars, Switching
<1>1. CASE BeginStop
  BY <1>0, <1>1, BeginStopMoves, ExitPlace
  DEF BeginStop, At, SameRun, SameGoal, sessionVars, processVars,
  Carried, Placed, Standing, NoFront, FrontIsDown, ConnectedRuns, Owned, Nobody, Cleaned, Kept,
  Bare, Manned, Ups, StartPoints, SwapPoints, Starts, Swaps, Prestops, Acts
<1>2. CASE BeginConnect
  BY <1>0, <1>2, BeginConnectMoves, ExitPlace
  DEF BeginConnect, At, SameRun, SameGoal, sessionVars, processVars,
  Carried, Placed, Standing, NoFront, FrontIsDown, ConnectedRuns, Owned, Nobody, Cleaned, Kept,
  Bare, Manned, Ups, StartPoints, SwapPoints, Starts, Swaps, Prestops, Acts
<1>3. CASE BeginProxyUpdate
  BY <1>0, <1>3, BeginProxyUpdateMoves, ExitPlace
  DEF BeginProxyUpdate, At, SameRun, SameGoal, sessionVars, processVars,
  Carried, Placed, Standing, NoFront, FrontIsDown, ConnectedRuns, Owned, Nobody, Cleaned, Kept,
  Bare, Manned, Ups, StartPoints, SwapPoints, Starts, Swaps, Prestops, Acts
<1>4. CASE BeginSwap
  BY <1>0, <1>4, BeginSwapMoves, ExitPlace
  DEF BeginSwap, At, SameRun, SameGoal, sessionVars, processVars,
  Carried, Placed, Standing, NoFront, FrontIsDown, ConnectedRuns, Owned, Nobody, Cleaned, Kept,
  Bare, Manned, Ups, StartPoints, SwapPoints, Starts, Swaps, Prestops, Acts
<1>5. CASE StopFront
  BY <1>0, <1>5, StopFrontMoves, ExitPlace, FrontEndsDoes
  DEF StopFront, At, SameRun, SameGoal, sessionVars, processVars,
  Carried, Placed, Standing, NoFront, FrontIsDown, ConnectedRuns, Owned, Nobody, Cleaned, Kept,
  Bare, Manned, Ups, StartPoints, SwapPoints, Starts, Swaps, Prestops, Acts
<1>6. CASE StopSides
  BY <1>0, <1>6, StopSidesMoves, ExitPlace
  DEF StopSides, At, SameRun, SameGoal, sessionVars, processVars,
  Carried, Placed, Standing, NoFront, FrontIsDown, ConnectedRuns, Owned, Nobody, Cleaned, Kept,
  Bare, Manned, Ups, StartPoints, SwapPoints, Starts, Swaps, Prestops, Acts
<1>7. CASE Connect
  BY <1>0, <1>7, ConnectMoves, ExitPlace
  DEF Connect, At, SameRun, SameGoal, sessionVars, processVars,
  Carried, Placed, Standing, NoFront, FrontIsDown, ConnectedRuns, Owned, Nobody, Cleaned, Kept,
  Bare, Manned, Ups, StartPoints, SwapPoints, Starts, Swaps, Prestops, Acts
<1>8. CASE ProxyReleased
  BY <1>0, <1>8, ProxyReleasedMoves, ExitPlace
  DEF ProxyReleased, At, SameRun, SameGoal, sessionVars, processVars,
  Carried, Placed, Standing, NoFront, FrontIsDown, ConnectedRuns, Owned, Nobody, Cleaned, Kept,
  Bare, Manned, Ups, StartPoints, SwapPoints, Starts, Swaps, Prestops, Acts
<1>9. CASE PlanFails
  BY <1>0, <1>9, PlanFailsMoves, ExitPlace
  DEF PlanFails, At, SameRun, SameGoal, sessionVars, processVars,
  Carried, Placed, Standing, NoFront, FrontIsDown, ConnectedRuns, Owned, Nobody, Cleaned, Kept,
  Bare, Manned, Ups, StartPoints, SwapPoints, Starts, Swaps, Prestops, Acts
<1>10. CASE StartPlan
  BY <1>0, <1>10, StartPlanMoves, ExitPlace
  DEF StartPlan, At, SameRun, SameGoal, sessionVars, processVars,
  Carried, Placed, Standing, NoFront, FrontIsDown, ConnectedRuns, Owned, Nobody, Cleaned, Kept,
  Bare, Manned, Ups, StartPoints, SwapPoints, Starts, Swaps, Prestops, Acts
<1>11. CASE SidecarUp
  BY <1>0, <1>11, SidecarUpMoves, ExitPlace
  DEF SidecarUp, At, SameRun, SameGoal, sessionVars, processVars,
  Carried, Placed, Standing, NoFront, FrontIsDown, ConnectedRuns, Owned, Nobody, Cleaned, Kept,
  Bare, Manned, Ups, StartPoints, SwapPoints, Starts, Swaps, Prestops, Acts
<1>12. CASE SidecarFails
  BY <1>0, <1>12, SidecarFailsMoves, ExitPlace
  DEF SidecarFails, At, SameRun, SameGoal, sessionVars, processVars,
  Carried, Placed, Standing, NoFront, FrontIsDown, ConnectedRuns, Owned, Nobody, Cleaned, Kept,
  Bare, Manned, Ups, StartPoints, SwapPoints, Starts, Swaps, Prestops, Acts
<1>13. CASE FrontUp
  BY <1>0, <1>13, FrontUpMoves, ExitPlace
  DEF FrontUp, At, SameRun, SameGoal, sessionVars, processVars,
  Carried, Placed, Standing, NoFront, FrontIsDown, ConnectedRuns, Owned, Nobody, Cleaned, Kept,
  Bare, Manned, Ups, StartPoints, SwapPoints, Starts, Swaps, Prestops, Acts
<1>14. CASE FrontGivenUp
  BY <1>0, <1>14, FrontGivenUpMoves, ExitPlace
  DEF FrontGivenUp, At, SameRun, SameGoal, sessionVars, processVars,
  Carried, Placed, Standing, NoFront, FrontIsDown, ConnectedRuns, Owned, Nobody, Cleaned, Kept,
  Bare, Manned, Ups, StartPoints, SwapPoints, Starts, Swaps, Prestops, Acts
<1>15. CASE FrontFails
  BY <1>0, <1>15, FrontFailsMoves, ExitPlace
  DEF FrontFails, At, SameRun, SameGoal, sessionVars, processVars,
  Carried, Placed, Standing, NoFront, FrontIsDown, ConnectedRuns, Owned, Nobody, Cleaned, Kept,
  Bare, Manned, Ups, StartPoints, SwapPoints, Starts, Swaps, Prestops, Acts
<1>16. CASE Pinned
  BY <1>0, <1>16, PinnedMoves, ExitPlace
  DEF Pinned, At, SameRun, SameGoal, sessionVars, processVars,
  Carried, Placed, Standing, NoFront, FrontIsDown, ConnectedRuns, Owned, Nobody, Cleaned, Kept,
  Bare, Manned, Ups, StartPoints, SwapPoints, Starts, Swaps, Prestops, Acts
<1>17. CASE PinFails
  BY <1>0, <1>17, PinFailsMoves, ExitPlace
  DEF PinFails, At, SameRun, SameGoal, sessionVars, processVars,
  Carried, Placed, Standing, NoFront, FrontIsDown, ConnectedRuns, Owned, Nobody, Cleaned, Kept,
  Bare, Manned, Ups, StartPoints, SwapPoints, Starts, Swaps, Prestops, Acts
<1>18. CASE FrontAborted
  BY <1>0, <1>18, FrontAbortedMoves, ExitPlace, FrontEndsDoes
  DEF FrontAborted, At, SameRun, SameGoal, sessionVars, processVars,
  Carried, Placed, Standing, NoFront, FrontIsDown, ConnectedRuns, Owned, Nobody, Cleaned, Kept,
  Bare, Manned, Ups, StartPoints, SwapPoints, Starts, Swaps, Prestops, Acts
<1>19. CASE AfterStartConnect
  BY <1>0, <1>19, AfterStartConnectMoves, ExitPlace
  DEF AfterStartConnect, At, SameRun, SameGoal, sessionVars, processVars,
  Carried, Placed, Standing, NoFront, FrontIsDown, ConnectedRuns, Owned, Nobody, Cleaned, Kept,
  Bare, Manned, Ups, StartPoints, SwapPoints, Starts, Swaps, Prestops, Acts
<1>20. CASE AfterStartSwapBack
  BY <1>0, <1>20, AfterStartSwapBackMoves, ExitPlace, FallBackFront
  DEF AfterStartSwapBack, KeptCandidate, At, SameRun, SameGoal, sessionVars, processVars,
  Carried, Placed, Standing, NoFront, FrontIsDown, ConnectedRuns, Owned, Nobody, Cleaned, Kept,
  Bare, Manned, Ups, StartPoints, SwapPoints, Starts, Swaps, Prestops, Acts
<1>21. CASE AfterStartSwap
  BY <1>0, <1>21, AfterStartSwapMoves, ExitPlace
  DEF AfterStartSwap, At, SameRun, SameGoal, sessionVars, processVars,
  Carried, Placed, Standing, NoFront, FrontIsDown, ConnectedRuns, Owned, Nobody, Cleaned, Kept,
  Bare, Manned, Ups, StartPoints, SwapPoints, Starts, Swaps, Prestops, Acts
<1>22. CASE SwapOld
  BY <1>0, <1>22, SwapOldMoves, ExitPlace
  DEF SwapOld, At, SameRun, SameGoal, sessionVars, processVars,
  Carried, Placed, Standing, NoFront, FrontIsDown, ConnectedRuns, Owned, Nobody, Cleaned, Kept,
  Bare, Manned, Ups, StartPoints, SwapPoints, Starts, Swaps, Prestops, Acts
<1>23. CASE ProxyDone
  BY <1>0, <1>23, ProxyDoneMoves, ExitPlace, CaptureIsSession
  DEF ProxyDone, At, SameRun, SameGoal, sessionVars, processVars,
  Carried, Placed, Standing, NoFront, FrontIsDown, ConnectedRuns, Owned, Nobody, Cleaned, Kept,
  Bare, Manned, Ups, StartPoints, SwapPoints, Starts, Swaps, Prestops, Acts
<1>24. CASE ProxyFails
  BY <1>0, <1>24, ProxyFailsMoves, ExitPlace
  DEF ProxyFails, At, SameRun, SameGoal, sessionVars, processVars,
  Carried, Placed, Standing, NoFront, FrontIsDown, ConnectedRuns, Owned, Nobody, Cleaned, Kept,
  Bare, Manned, Ups, StartPoints, SwapPoints, Starts, Swaps, Prestops, Acts
<1>25. CASE Ready
  BY <1>0, <1>25, ReadyMoves, ExitPlace, CaptureIsSession
  DEF Ready, At, SameRun, SameGoal, sessionVars, processVars,
  Carried, Placed, Standing, NoFront, FrontIsDown, ConnectedRuns, Owned, Nobody, Cleaned, Kept,
  Bare, Manned, Ups, StartPoints, SwapPoints, Starts, Swaps, Prestops, Acts
<1>26. CASE SwapCapture
  BY <1>0, <1>26, SwapCaptureMoves, ExitPlace, FallBackFront, CaptureIsSession
  DEF SwapCapture, KeptCandidate, At, SameRun, SameGoal, sessionVars, processVars,
  Carried, Placed, Standing, NoFront, FrontIsDown, ConnectedRuns, Owned, Nobody, Cleaned, Kept,
  Bare, Manned, Ups, StartPoints, SwapPoints, Starts, Swaps, Prestops, Acts
<1>27. CASE SwapAmnezia
  BY <1>0, <1>27, SwapAmneziaMoves, ExitPlace
  DEF SwapAmnezia, At, SameRun, SameGoal, sessionVars, processVars,
  Carried, Placed, Standing, NoFront, FrontIsDown, ConnectedRuns, Owned, Nobody, Cleaned, Kept,
  Bare, Manned, Ups, StartPoints, SwapPoints, Starts, Swaps, Prestops, Acts
<1>28. CASE SwapCommit
  BY <1>0, <1>28, SwapCommitMoves, ExitPlace
  DEF SwapCommit, At, SameRun, SameGoal, sessionVars, processVars,
  Carried, Placed, Standing, NoFront, FrontIsDown, ConnectedRuns, Owned, Nobody, Cleaned, Kept,
  Bare, Manned, Ups, StartPoints, SwapPoints, Starts, Swaps, Prestops, Acts
<1>29. CASE CandidateUp
  BY <1>0, <1>29, CandidateUpMoves, ExitPlace
  DEF CandidateUp, At, SameRun, SameGoal, sessionVars, processVars,
  Carried, Placed, Standing, NoFront, FrontIsDown, ConnectedRuns, Owned, Nobody, Cleaned, Kept,
  Bare, Manned, Ups, StartPoints, SwapPoints, Starts, Swaps, Prestops, Acts
<1>30. CASE CandidateFails
  BY <1>0, <1>30, CandidateFailsMoves, ExitPlace
  DEF CandidateFails, At, SameRun, SameGoal, sessionVars, processVars,
  Carried, Placed, Standing, NoFront, FrontIsDown, ConnectedRuns, Owned, Nobody, Cleaned, Kept,
  Bare, Manned, Ups, StartPoints, SwapPoints, Starts, Swaps, Prestops, Acts
<1>31. CASE SwapStop
  BY <1>0, <1>31, SwapStopMoves, ExitPlace
  DEF SwapStop, At, SameRun, SameGoal, sessionVars, processVars,
  Carried, Placed, Standing, NoFront, FrontIsDown, ConnectedRuns, Owned, Nobody, Cleaned, Kept,
  Bare, Manned, Ups, StartPoints, SwapPoints, Starts, Swaps, Prestops, Acts
<1>32. CASE SwapStopped
  BY <1>0, <1>32, SwapStoppedMoves, ExitPlace, FallBackFront
  DEF SwapStopped, KeptCandidate, At, SameRun, SameGoal, sessionVars, processVars,
  Carried, Placed, Standing, NoFront, FrontIsDown, ConnectedRuns, Owned, Nobody, Cleaned, Kept,
  Bare, Manned, Ups, StartPoints, SwapPoints, Starts, Swaps, Prestops, Acts
<1>33. CASE RolledBack
  BY <1>0, <1>33, RolledBackMoves, ExitPlace
  DEF RolledBack, At, SameRun, SameGoal, sessionVars, processVars,
  Carried, Placed, Standing, NoFront, FrontIsDown, ConnectedRuns, Owned, Nobody, Cleaned, Kept,
  Bare, Manned, Ups, StartPoints, SwapPoints, Starts, Swaps, Prestops, Acts
<1>34. CASE RollbackFails
  BY <1>0, <1>34, RollbackFailsMoves, ExitPlace
  DEF RollbackFails, At, SameRun, SameGoal, sessionVars, processVars,
  Carried, Placed, Standing, NoFront, FrontIsDown, ConnectedRuns, Owned, Nobody, Cleaned, Kept,
  Bare, Manned, Ups, StartPoints, SwapPoints, Starts, Swaps, Prestops, Acts
<1>35. CASE Unexpected
  BY <1>0, <1>35, UnexpectedMoves, ExitPlace
  DEF Unexpected, DisconnectAll, At, SameRun, SameGoal, sessionVars, processVars,
  Carried, Placed, Standing, NoFront, FrontIsDown, ConnectedRuns, Owned, Nobody, Cleaned, Kept,
  Bare, Manned, Ups, StartPoints, SwapPoints, Starts, Swaps, Prestops, Acts
<1>36. CASE SwapExit
  BY <1>0, <1>36, SwapExitMoves, ExitPlace
  DEF SwapExit, At, SameRun, SameGoal, sessionVars, processVars,
  Carried, Placed, Standing, NoFront, FrontIsDown, ConnectedRuns, Owned, Nobody, Cleaned, Kept,
  Bare, Manned, Ups, StartPoints, SwapPoints, Starts, Swaps, Prestops, Acts
<1>37. CASE ReconnectExit
  BY <1>0, <1>37, ReconnectExitMoves, ExitPlace
  DEF ReconnectExit, At, SameRun, SameGoal, sessionVars, processVars,
  Carried, Placed, Standing, NoFront, FrontIsDown, ConnectedRuns, Owned, Nobody, Cleaned, Kept,
  Bare, Manned, Ups, StartPoints, SwapPoints, Starts, Swaps, Prestops, Acts
<1> QED
  BY <1>1, <1>2, <1>3, <1>4, <1>5, <1>6, <1>7, <1>8, <1>9, <1>10, <1>11, <1>12, <1>13, <1>14, <1>15, <1>16,
      <1>17, <1>18, <1>19, <1>20, <1>21, <1>22, <1>23, <1>24, <1>25, <1>26, <1>27, <1>28, <1>29, <1>30,
      <1>31, <1>32, <1>33, <1>34, <1>35, <1>36, <1>37, Zenon DEF Segment

-----------------------------------------------------------------------------
(* No segment starts a core over a live one.                                 *)
OneCore ==
  /\ front # None /\ front' # None /\ front' # front => hot' # hot
  /\ \A k \in SideKinds : side[k] # None /\ side'[k] # None /\ side'[k] # side[k]
                            => hot' # hot \/ run.cand = side'[k]

LEMMA CoresKept ==
  ASSUME front' \in {front, None}, \A k \in SideKinds : side'[k] \in {side[k], None} PROVE OneCore
BY DEF OneCore

LEMMA SegmentAlone == ASSUME Typed, Carried, Standing, Segment PROVE OneCore
<1>0. /\ run.act \in Acts /\ run.act # "none" /\ None \notin Node
      /\ run.pc \in Manned => run.node \in Node
      /\ side \in [SideKinds -> MaybeNode] /\ Kind \in [Node -> Kinds]
      /\ \A k \in SideKinds : NoSides[k] = None
  BY SegmentFrame, ConnectionAssumption DEF Typed, TypeOK, RunRecord, RunBegun, Active, NoSides
<1>1. \A k \in SideKinds : UndoneSides[k] \in {side[k], None} BY <1>0 DEF UndoneSides
<1>2. CASE StopFront \/ FrontAborted
  <2>1. front' = None /\ side' \in {side, UndoneSides, NoSides}
    BY <1>2, FrontEndsDoes DEF StopFront, FrontAborted, Standing
  <2> QED BY <1>0, <1>1, <2>1, CoresKept
<1>3. CASE StopSides \/ Unexpected
  BY <1>0, <1>3, CoresKept DEF StopSides, Unexpected, DisconnectAll
<1>4. CASE SidecarUp
  <2>1. run.pc = "sidecar" /\ front' = front /\ run.node \in Node
    BY <1>0, <1>4 DEF SidecarUp, At, Manned
  <2>2. CASE run.act \in Starts
    BY <2>1, <2>2 DEF OneCore, Standing, NoSide, SidesAreDown
  <2>3. CASE run.act \in Swaps
    <3>1. Pooled(run.node) BY <1>0, <2>1, <2>3 DEF Carried, Brought, Bringing, Alone
    <3>2. \A k \in SideKinds \ {"hybrid"} : side'[k] = side[k]
      BY <1>0, <1>4, <3>1, SidecarUpMoves DEF Pooled, SideKinds
    <3>3. side["hybrid"] = None BY <2>1, <2>3 DEF Standing, NoXray
    <3> QED BY <2>1, <3>2, <3>3 DEF OneCore
  <2> QED BY <1>0, <2>1, <2>2, <2>3
    DEF Carried, Placed, Acts, Starts, Swaps, Prestops
<1>5. CASE FrontUp \/ RolledBack
  BY <1>5 DEF FrontUp, RolledBack, At, OneCore, Standing, NoFront, FrontIsDown, Bare
<1>6. CASE FrontGivenUp \/ FrontFails
  BY <1>1, <1>6, CoresKept DEF FrontGivenUp, FrontFails
<1>7. CASE AfterStartSwapBack \/ SwapStopped
  <2>1. front' \in {front, None} /\ side' = side
    <3>1. CASE AfterStartSwapBack BY <3>1, Zenon DEF AfterStartSwapBack, FallBack
    <3>2. CASE SwapStopped BY <3>2, Zenon DEF SwapStopped, FallBack
    <3> QED BY <1>7, <3>1, <3>2
  <2> QED BY <2>1, CoresKept
<1>8. CASE AfterStartSwap
  <2>1. Kind[run.node] = "hysteria" => run.cand = run.node
    BY <1>8 DEF AfterStartSwap, At, Carried, Brought, Bringing, Pooled
  <2> QED BY <1>0, <1>8, <2>1 DEF AfterStartSwap, OneCore
<1>9. CASE SwapOld \/ SwapAmnezia \/ SwapStop
  BY <1>0, <1>9, CoresKept DEF SwapOld, SwapAmnezia, SwapStop
<1>10. CASE SwapCapture
  <2>1. run.act \in Swaps
    BY <1>0, <1>10 DEF SwapCapture, At, Carried, Placed, StartPoints, Starts, Prestops, Acts
  <2>2. Kind[run.node] = "amnezia" => run.cand = run.node
    BY <1>10, <2>1 DEF SwapCapture, At, Carried, BroughtAmnezia
  <2>3. front' \in {front, None} BY <1>10, Zenon DEF SwapCapture, FallBack
  <2> QED BY <1>0, <1>10, <2>2, <2>3, SwapCaptureMoves DEF OneCore
<1>11. CASE ~(\/ StopFront \/ FrontAborted \/ StopSides \/ Unexpected \/ SidecarUp \/ FrontUp
              \/ RolledBack \/ FrontGivenUp \/ FrontFails \/ AfterStartSwapBack \/ SwapStopped
              \/ AfterStartSwap \/ SwapOld \/ SwapAmnezia \/ SwapStop \/ SwapCapture)
  <2>1. UNCHANGED <<front, side>>
    BY <1>11, Zenon DEF Segment, processVars, BeginStop, BeginConnect, BeginProxyUpdate, BeginSwap,
       Connect, ProxyReleased, PlanFails, StartPlan, SidecarFails, Pinned, PinFails,
       AfterStartConnect, ProxyDone, ProxyFails, Ready, SwapCommit, CandidateUp, CandidateFails,
       RollbackFails, SwapExit, ReconnectExit
  <2> QED BY <2>1, CoresKept
<1> QED BY <1>2, <1>3, <1>4, <1>5, <1>6, <1>7, <1>8, <1>9, <1>10, <1>11

-----------------------------------------------------------------------------
(* The steps beside the transitions.                                         *)

(* The run is left alone, or a preparation begins where nothing ran.         *)
Idle ==
  /\ run.cand = None
  /\ \/ run.act = "none" /\ run.pc = "idle"
     \/ run.act \in Prestops /\ run.pc = "begin"

RunWaits == run' = run \/ (~Active /\ Idle')

(* A step beside the transitions touches the cores by a hot switch only.     *)
Selects == connected /\ hot' # hot /\ \E n \in Node : CoreSelects(n)

CoresWait == UNCHANGED <<front, side>> \/ Selects

LEMMA WaitingSingle ==
  ASSUME Typed, Single, UNCHANGED <<connected, cleanup>>, RunWaits, CoresWait,
         session' = session \/ session' # None, HotPast'
  PROVE  Single' /\ OneCore
<1>0. None \notin Node /\ side \in [SideKinds -> MaybeNode] /\ run \in RunRecord
      /\ (~Active => run = NoRun) /\ (cleanup' <=> cleanup) /\ (connected' <=> connected)
  BY ConnectionAssumption DEF Typed, TypeOK, RunBegun
<1>1. OneCore BY CoresKept DEF OneCore, CoresWait, Selects
<1>2. Carried'
  <2>1. CASE run' = run
    BY <2>1 DEF Single, Carried, Placed, Brought, Bringing, BroughtAmnezia, Alone
  <2>2. CASE Idle'
    BY <2>2 DEF Idle, Carried, Placed, Brought, Bringing, BroughtAmnezia, Alone,
      Starts, Swaps, Prestops
  <2> QED BY <2>1, <2>2 DEF RunWaits
<1>3. CASE Idle'
  <2>1. NoFront' /\ NoSide' /\ NoXray' /\ Kept' /\ Cleaned'
    BY <1>3 DEF Idle, NoFront, FrontIsDown, NoSide, SidesAreDown, NoXray, Kept, Cleaned, Bare,
      Starts, Swaps, Prestops
  <2>2. ConnectedRuns' /\ (front' # None => front # None)
    BY <1>0 DEF CoresWait, Selects, CoreSelects, Single, Standing, ConnectedRuns
  <2>3. Nobody'
    <3>1. CASE run' = run BY <2>2, <3>1 DEF Single, Owned, Nobody
    <3>2. CASE ~Active
      BY <1>0, <2>2, <3>2, NoRunDoes DEF Single, Owned, Nobody, Starts
    <3> QED BY <3>1, <3>2 DEF RunWaits
  <2> QED BY <1>1, <1>2, <2>1, <2>2, <2>3 DEF Single, Standing, Owned
<1>4. CASE run' = run
  <2>1. CASE UNCHANGED <<front, side>>
    <3>1. Standing'
      BY <1>0, <1>4, <2>1 DEF Single, Standing, NoFront, FrontIsDown, NoSide, SidesAreDown, NoXray,
        ConnectedRuns
    <3>2. Nobody' BY <1>0, <1>4, <2>1 DEF Single, Owned, Nobody
    <3>3. Cleaned' BY <1>0, <1>4, <2>1 DEF Single, Owned, Cleaned
    <3>4. Kept' BY <1>0, <1>4, <2>1 DEF Single, Owned, Kept
    <3> QED BY <1>1, <1>2, <3>1, <3>2, <3>3, <3>4 DEF Owned, Single
  <2>2. CASE Selects
    <3>1. front # None BY <2>2 DEF Selects, Single, Standing, ConnectedRuns
    <3>2. front' # None BY <1>0, <2>2, <3>1 DEF Selects, CoreSelects
    <3>3. ~FrontIsDown BY <3>1 DEF Single, Standing, NoFront
    <3>4. ~SidesAreDown /\ ~(run.act \in Swaps /\ run.pc \in {"swap_stopped", "plan", "sidecar"})
      BY <3>3 DEF FrontIsDown, SidesAreDown, Bare
    <3>5. Standing'
      BY <1>4, <3>2, <3>3, <3>4 DEF Standing, NoFront, FrontIsDown, NoSide, SidesAreDown, NoXray,
        ConnectedRuns
    <3>6. Nobody' BY <1>0, <1>4, <3>1 DEF Single, Owned, Nobody
    <3>7. Cleaned' BY <1>0, <1>4 DEF Single, Owned, Cleaned
    <3>8. Kept' BY <1>0, <1>4, <3>1 DEF Single, Owned, Kept
    <3> QED BY <1>1, <1>2, <3>5, <3>6, <3>7, <3>8 DEF Owned, Single
  <2> QED BY <1>1, <1>2, <2>1, <2>2 DEF Single, CoresWait
<1> QED BY <1>1, <1>2, <1>3, <1>4 DEF RunWaits, Single

LEMMA KickIdles ==
  ASSUME NEW g \in Nat, NEW w \in WaitRecord, TargetAfter \in Node, Kick(g, w) PROVE Idle'
<1>1. "prestop_dns" \in Acts /\ "prestop_dns" \in Prestops /\ TargetAfter \in MaybeNode
  BY DEF Acts, Prestops, MaybeNode
<1>2. CASE run' = NewRun("prestop_dns", g, TargetAfter)
  <2>1. run'.act = "prestop_dns" /\ run'.pc = "begin" /\ run'.cand = None
    BY <1>2, SMT DEF NewRun, NoRun
  <2> QED BY <1>1, <2>1 DEF Idle
<1>3. CASE run' = NoRun BY <1>3, NoRunDoes DEF Idle
<1> QED BY <1>2, <1>3, KickDoes

LEMMA RequestWaits ==
  ASSUME Typed, NEW k, Request(k), committed' \in Node, target' \in MaybeNode PROVE RunWaits
<1>1. gen + 1 \in Nat /\ TargetAfter \in Node BY TargetAfterIsNode DEF Typed, TypeOK
<1> QED BY <1>1, NoWaitType, KickIdles DEF Request, RunWaits

LEMMA FailWaitWaits == ASSUME Typed, FailWait, UNCHANGED selectionVars PROVE RunWaits
<1>1. gen + 1 \in Nat /\ TargetAfter \in Node
  BY TypesNow, TargetAfterIsNode DEF selectionVars, QueueTypes
<1> QED BY <1>1, NoWaitType, KickIdles DEF FailWait, RunWaits

LEMMA ZapStoppedWaits == ASSUME Typed, ZapStopped, UNCHANGED selectionVars PROVE RunWaits
<1>1. committed' \in Node /\ target' \in MaybeNode BY TypesNow DEF selectionVars
<1> QED BY <1>1, RequestWaits DEF ZapStopped, RunWaits

LEMMA RenewWaits ==
  ASSUME Typed, Gate, LookupAnswers, NEW m \in BOOLEAN, Renew(m) PROVE RunWaits
<1>1. CASE run' = [NewRun("prestop_apply", gen, wait.node) EXCEPT !.drop = m]
  <2>1. run'.act = "prestop_apply" /\ run'.pc = "begin" /\ run'.cand = None
    BY <1>1, SMT DEF NewRun, NoRun
  <2> QED BY <2>1, LookupWaits DEF RunWaits, Idle, Prestops
<1> QED BY <1>1 DEF Renew, RunWaits

LEMMA HotPastKept == ASSUME HotPast, UNCHANGED hotVars PROVE HotPast'
BY DEF HotPast, hotVars

LEMMA BypassWaits == ASSUME Typed, Gate, Bypass PROVE RunWaits
<1>1. CASE LookupObsolete BY <1>1 DEF LookupObsolete, RunWaits
<1>2. CASE LookupFailed BY <1>2 DEF LookupFailed, CancelTarget, RunWaits
<1>3. CASE LookupUnprotected
  <2>1. committed' \in Node /\ target' \in MaybeNode
    BY <1>3, TypesNow DEF LookupUnprotected, selectionVars
  <2> QED BY <1>3, <2>1, RequestWaits DEF LookupUnprotected, RunWaits
<1>4. ASSUME NEW m \in BOOLEAN, LookupProtected(m) PROVE RunWaits
  BY <1>4, RenewWaits DEF LookupProtected, RunWaits
<1>5. CASE ZapStarted BY <1>5, FailWaitWaits DEF ZapStarted, RunWaits
<1>6. CASE ZapGone \/ ZapTimeout
  BY <1>6, FailWaitWaits, ZapStoppedWaits DEF ZapGone, ZapTimeout
<1>7. CASE ZapLate BY <1>7 DEF ZapLate, RunWaits
<1> QED BY <1>1, <1>2, <1>3, <1>4, <1>5, <1>6, <1>7 DEF Bypass, LookupStep

LEMMA BypassSingle == ASSUME Typed, Gate, Single, Bypass PROVE Single' /\ OneCore
<1>1. UNCHANGED <<connected, cleanup, front, side, session>> /\ UNCHANGED hotVars
  BY Zenon DEF Bypass, LookupStep, LookupObsolete, LookupFailed, LookupUnprotected,
    LookupProtected, ZapStarted, ZapGone, ZapTimeout, ZapLate, sessionVars, processVars, queueVars
<1>2. RunWaits BY BypassWaits
<1> QED BY <1>1, <1>2, HotPastKept, WaitingSingle DEF CoresWait, Single

LEMMA CrashSingle ==
  ASSUME Typed, Single, Crash, ~(AmneziaCrash /\ run.act \in Swaps) PROVE Single' /\ OneCore
<1>0. /\ UNCHANGED <<run, cleanup>> /\ UNCHANGED hotVars /\ (cleanup' <=> cleanup)
      /\ side \in [SideKinds -> MaybeNode] /\ \A k \in SideKinds : NoSides[k] = None
  BY DEF Crash, FrontCrash, XrayCrash, AmneziaCrash, crashFrame, queueVars, Typed, TypeOK, NoSides
<1>1. /\ front' \in {front, None} /\ (connected' => front' # None)
      /\ \A k \in SideKinds : side'[k] \in {side[k], None}
      /\ session' = session \/ (front' = None /\ run.act \notin Swaps)
  <2>0. \A f, sd : CoreDown(f, sd) =>
          /\ connected' => front' # None
          /\ front' \in {f, None} /\ side' \in {sd, NoSides}
          /\ session' = session \/ (front' = None /\ run.act \notin Swaps)
    BY CoreDownDoes DEF ConnectedWith, Switching
  <2>1. CASE FrontCrash
    <3>1. CoreDown(None, side) BY <2>1 DEF FrontCrash
    <3> QED BY <1>0, <2>0, <3>1
  <2>2. CASE XrayCrash
    <3>1. CoreDown(front, [side EXCEPT !["hybrid"] = None]) BY <2>2 DEF XrayCrash
    <3>2. \A k \in SideKinds : [side EXCEPT !["hybrid"] = None][k] \in {side[k], None} BY <1>0
    <3> QED BY <1>0, <2>0, <3>1, <3>2
  <2>3. CASE AmneziaCrash BY <1>0, <2>3 DEF AmneziaCrash
  <2> QED BY <2>1, <2>2, <2>3 DEF Crash
<1>2. Carried'
  BY <1>0 DEF Single, Carried, Placed, Brought, Bringing, BroughtAmnezia, Alone
<1>3. Standing'
  BY <1>0, <1>1 DEF Single, Standing, NoFront, FrontIsDown, NoSide, SidesAreDown, NoXray,
    ConnectedRuns, SideKinds
<1>4. Nobody' BY <1>0, <1>1 DEF Single, Owned, Nobody
<1>5. Cleaned' BY <1>0 DEF Single, Owned, Cleaned
<1>6. Kept' BY <1>0, <1>1 DEF Single, Owned, Kept
<1> QED BY <1>0, <1>1, <1>2, <1>3, <1>4, <1>5, <1>6, CoresKept, HotPastKept DEF Single, Owned

(* A hot switch takes over the core, one at a time.                          *)
LEMMA CallSelects ==
  ASSUME Typed, NEW h \in HotRecord, h.node \in Node, connected, CallCore(h), h.pc = "verify",
         h.hgen # hot.hgen \/ hot.pc \in {"idle", "verify"}
  PROVE  CoresWait /\ hot'.hgen = h.hgen
<1>1. hot'.hgen = h.hgen /\ hot'.pc = "core" BY CallCoreDoes DEF SameSwitch
<1>2. hot' # hot BY <1>1
<1> QED BY <1>1, <1>2, CallCoreDoes DEF CoresWait, Selects

LEMMA StartHotSelects ==
  ASSUME Typed, HotPast, connected, hotGen' = hotGen + 1, NEW s \in Session, NEW n \in Node,
         StartHot(s, n)
  PROVE  CoresWait /\ HotPast'
<1>0. hotGen' \in Nat /\ hotGen \in Nat /\ hot.hgen \in Nat BY DEF Typed, TypeOK, HotRecord
<1> DEFINE begun == [node |-> n, hgen |-> hotGen', tgen |-> gen, pc |-> "verify",
                     prev |-> s.node, tun |-> s.tun, ok |-> FALSE]
<1>1. hot'.hgen = hotGen' BY <1>0, StartHotDoes
<1>2. HotPast' BY <1>0, <1>1 DEF HotPast
<1>3. CASE hot' = begun /\ UNCHANGED <<front, side, faults>> BY <1>2, <1>3 DEF CoresWait
<1>4. CASE CallCore(begun)
  <2>1. /\ begun \in HotRecord /\ begun.node = n /\ begun.hgen = hotGen' /\ begun.pc = "verify"
    BY <1>0 DEF Typed, TypeOK, HotRecord, Session, MaybeNode
  <2>2. hotGen' # hot.hgen BY <1>0 DEF HotPast
  <2> HIDE DEF begun
  <2> QED BY <1>2, <1>4, <2>1, <2>2, CallSelects
<1> QED BY <1>3, <1>4 DEF StartHot

LEMMA NoHotPast == ASSUME Typed, hot' = NoHot, hotGen' = hotGen PROVE HotPast'
BY NoHotDoes DEF HotPast, Typed, TypeOK

LEMMA EndHotWaits ==
  ASSUME Typed, HotPast, NEW s \in Session \cup {None}, EndHot(s),
         committed' \in Node, target' \in MaybeNode
  PROVE  RunWaits /\ CoresWait /\ HotPast'
<1>1. CASE hot' = NoHot /\ UNCHANGED <<hotGen, front, side, faults>> /\ queueUntouched
  BY <1>1, NoHotPast DEF queueUntouched, RunWaits, CoresWait
<1>2. CASE hot' = NoHot /\ UNCHANGED <<hotGen, front, side, faults>> /\ Request(FALSE)
  BY <1>2, NoHotPast, RequestWaits DEF CoresWait
<1>3. CASE /\ Precheck(s, TargetAfter) /\ hotGen' = hotGen + 1
           /\ StartHot(s, TargetAfter) /\ queueUntouched
  <2>1. s \in Session /\ connected /\ TargetAfter \in Node
    BY <1>3, TargetAfterIsNode DEF Precheck
  <2> QED BY <1>3, <2>1, StartHotSelects DEF queueUntouched, RunWaits
<1> QED BY <1>1, <1>2, <1>3 DEF EndHot, Dispatch

LEMMA HotSingle == ASSUME Typed, Single, HotStep PROVE Single' /\ OneCore
<1>0. /\ UNCHANGED <<connected, cleanup>> /\ HotPast /\ hot \in HotRecord
      /\ (hot.pc # "idle" => hot.node \in Node /\ hot.prev \in Node)
  BY Zenon DEF HotStep, HotStale, HotVerified, HotFailed, HotRelay, HotRestore, HotDone, hotFrame,
    Single, Typed, TypeOK, HotBegun
<1>1. ASSUME SameSwitch(hot), UNCHANGED hotGen PROVE HotPast'
  BY <1>0, <1>1 DEF SameSwitch, HotPast
<1>2. CASE HotStale
  <2>1. RunWaits /\ CoresWait /\ HotPast'
    BY <1>0, <1>2, TypesNow, EndHotWaits DEF HotStale, selectionVars
  <2> QED BY <1>0, <1>2, <2>1, WaitingSingle DEF HotStale
<1>3. CASE HotDone
  <2>1. hot.node \in Node /\ hot.tun \in BOOLEAN
    BY <1>0, <1>3 DEF HotDone, HotRecord
  <2>2. committed' \in Node /\ target' \in MaybeNode
    BY <1>3, <2>1, TypesNow, CommitTypes DEF HotDone, selectionVars
  <2>3. session' \in Session /\ session' # None
    BY <1>3, <2>1, CaptureType, CaptureIsSession DEF HotDone
  <2>4. RunWaits /\ CoresWait /\ HotPast' BY <1>0, <1>3, <2>2, <2>3, EndHotWaits DEF HotDone
  <2> QED BY <1>0, <2>3, <2>4, WaitingSingle
<1>4. CASE HotVerified
  <2>1. hot.pc = "verify" /\ connected /\ session' = session /\ UNCHANGED selectionVars
    BY <1>4 DEF HotVerified, HotCurrent
  <2>2. CASE CallCore(hot) /\ UNCHANGED <<hotGen, hotPending>> /\ queueUntouched
    <3>1. CoresWait BY <1>0, <2>1, <2>2, CallSelects
    <3>2. SameSwitch(hot) BY <1>0, <2>2, CallCoreDoes
    <3> QED BY <1>0, <1>1, <2>1, <2>2, <3>1, <3>2, WaitingSingle DEF queueUntouched, RunWaits
  <2>3. CASE hot' = NoHot /\ Request(FALSE) /\ UNCHANGED <<hotGen, front, side>>
    <3>1. RunWaits BY <2>1, <2>3, TypesNow, RequestWaits DEF selectionVars
    <3> QED BY <1>0, <2>1, <2>3, <3>1, NoHotPast, WaitingSingle DEF CoresWait
  <2> QED BY <1>4, <2>2, <2>3 DEF HotVerified
<1>5. CASE HotFailed
  <2>1. RunWaits BY <1>5, TypesNow, RequestWaits DEF HotFailed, selectionVars
  <2> QED BY <1>0, <1>5, <2>1, NoHotPast, WaitingSingle DEF HotFailed, CoresWait
<1>6. CASE HotRelay
  <2>1. SameSwitch(hot) BY <1>0, <1>6, HotMoves, HotGoes DEF HotRelay, HotPcs
  <2> QED BY <1>0, <1>1, <1>6, <2>1, WaitingSingle
    DEF HotRelay, queueUntouched, RunWaits, CoresWait
<1>7. CASE HotRestore
  <2>1. hot.pc = "relay" /\ connected BY <1>7 DEF HotRestore, HotCurrent
  <2>2. SameSwitch(hot) /\ hot'.pc = "restore" BY <1>0, <1>7, HotGoes DEF HotRestore, HotPcs
  <2>3. Selects BY <1>0, <1>7, <2>1, <2>2 DEF HotRestore, Selects
  <2> QED BY <1>0, <1>1, <1>7, <2>2, <2>3, WaitingSingle
    DEF HotRestore, queueUntouched, RunWaits, CoresWait
<1> QED BY <1>2, <1>3, <1>4, <1>5, <1>6, <1>7 DEF HotStep

LEMMA UserSingle == ASSUME Typed, Single, User PROVE Single' /\ OneCore
<1>0. UNCHANGED <<connected, cleanup, session>> /\ HotPast /\ hotGen \in Nat
  BY Zenon DEF User, Toggle, ChangeProxy, ChangeTun, SelectServing, SelectIdle, ApplySettings,
    userFrame, sessionVars, Single, Typed, TypeOK
<1>1. ASSUME RunWaits, UNCHANGED serverVars PROVE Single' /\ OneCore
  BY <1>0, <1>1, HotPastKept, WaitingSingle DEF serverVars, hotVars, CoresWait
<1>2. CASE Toggle
  <2>1. committed' \in Node /\ target' \in MaybeNode
    BY <1>2, TypesNow DEF Toggle, Drop, selectionVars, MaybeNode
  <2> QED BY <1>1, <1>2, <2>1, RequestWaits DEF Toggle
<1>3. ASSUME NEW n \in Node, SelectServing(n) PROVE Single' /\ OneCore
  <2>1. committed' \in Node /\ target' \in MaybeNode
    BY <1>3, TypesNow DEF SelectServing, RequestServing, MaybeNode
  <2>2. CASE Request(FALSE) /\ UNCHANGED serverVars BY <1>1, <2>1, <2>2, RequestWaits
  <2>3. CASE Precheck(session, n) /\ TryHot(n) /\ UNCHANGED run
    <3>1. session \in Session /\ connected /\ hotGen' = hotGen + 1
      BY <2>3 DEF Precheck, TryHot, Typed, TypeOK
    <3>2. CoresWait /\ HotPast'
      <4>1. CASE hot # NoHot /\ UNCHANGED <<hot, front, side, faults>>
        BY <1>0, <3>1, <4>1 DEF CoresWait, HotPast, Typed, TypeOK, HotRecord
      <4>2. CASE StartHot(session, n) BY <1>0, <3>1, <4>2, StartHotSelects
      <4> QED BY <2>3, <4>1, <4>2 DEF TryHot
    <3> QED BY <1>0, <2>3, <3>2, WaitingSingle DEF RunWaits
  <2> QED BY <1>3, <2>2, <2>3 DEF SelectServing
<1>4. ASSUME NEW n \in Node, SelectIdle(n) PROVE Single' /\ OneCore
  <2>1. committed' \in Node /\ target' \in MaybeNode
    BY <1>4 DEF SelectIdle, RequestIdle, MaybeNode
  <2> QED BY <1>1, <1>4, <2>1, RequestWaits DEF SelectIdle, RunWaits
<1>5. CASE ApplySettings
  <2>1. committed' \in Node /\ target' \in MaybeNode
    BY <1>5, TypesNow DEF ApplySettings, selectionVars
  <2> QED BY <1>1, <1>5, <2>1, RequestWaits DEF ApplySettings, RunWaits
<1> QED BY <1>2, <1>3, <1>4, <1>5 DEF User, ChangeProxy, ChangeTun

(* The queue starts a transition only where the cores are ready for it.      *)
LEMMA StartSingle ==
  ASSUME Typed, Single, UNCHANGED <<connected, session, front, side>>, ~Active,
         NEW a \in Acts \ (Prestops \cup {"none"}), StartRun(a), cleanup' = FALSE, HotPast',
         a # "cleanup" => ~cleanup,
         a = "connect" => front = None /\ \A k \in SideKinds : side[k] = None,
         a \in Swaps => session # None
  PROVE  Single'
<1>1. run'.act = a /\ run'.pc = "begin" /\ run'.cand = None
  BY SMT DEF StartRun, NewRun, NoRun
<1>2. run = NoRun /\ run.act = "none" BY NoRunDoes DEF Typed, RunBegun
<1>3. Carried'
  BY <1>1 DEF Carried, Placed, Brought, Bringing, BroughtAmnezia, Alone, StartPoints, SwapPoints
<1>4. Standing'
  BY <1>1 DEF Single, Standing, NoFront, FrontIsDown, NoSide, SidesAreDown, NoXray,
    ConnectedRuns, Bare, Starts
<1>5. Nobody'
  <2>1. CASE a = "cleanup" BY <1>1, <2>1 DEF Nobody
  <2>2. CASE ~cleanup
    BY <1>2, <2>2 DEF Single, Owned, Nobody, Starts
  <2> QED BY <2>1, <2>2
<1>6. Cleaned' /\ Kept' BY <1>1 DEF Cleaned, Kept
<1> QED BY <1>3, <1>4, <1>5, <1>6 DEF Single, Owned

LEMMA DrainSingle == ASSUME Typed, Single, Drain PROVE Single' /\ OneCore
<1>0. UNCHANGED <<connected, session, front, side>> /\ HotPast' /\ OneCore
  BY HotPastKept, CoresKept DEF Drain, sessionVars, processVars, Single
<1>1. CASE UNCHANGED <<cleanup, run>>
  BY <1>0, <1>1, WaitingSingle DEF RunWaits, CoresWait
<1>2. CASE ~Active /\ cleanup' = FALSE /\ StartRun("cleanup")
  <2>1. "cleanup" \in Acts \ (Prestops \cup {"none"}) /\ "cleanup" \notin Swaps
    BY DEF Acts, Prestops, Swaps
  <2> QED BY <1>0, <1>2, <2>1, StartSingle
<1>3. CASE /\ ~Active /\ ~cleanup /\ ~Residual /\ cleanup' = cleanup
           /\ Action # "none" /\ StartRun(Action)
  <2>1. Action \in Acts \ (Prestops \cup {"none"}) BY <1>3, ActionIsAct
  <2>2. Action = "connect" => ~connected \/ session = None BY DEF Action
  <2>3. Action \in Swaps => session # None BY DEF Action, Swaps
  <2>4. front # None => session # None
    BY <1>3, NoRunDoes DEF Single, Owned, Nobody, Starts, Typed, RunBegun
  <2>5. connected => front # None BY DEF Single, Standing, ConnectedRuns
  <2>6. ~connected => front = None /\ \A k \in SideKinds : side[k] = None
    BY <1>3 DEF Residual, ResidualWith
  <2>7. cleanup' = FALSE BY <1>3 DEF Typed, TypeOK
  <2>8. Action = "connect" => front = None /\ \A k \in SideKinds : side[k] = None
    BY <2>2, <2>4, <2>5, <2>6
  <2> QED BY <1>0, <1>3, <2>1, <2>3, <2>7, <2>8, StartSingle
<1> QED BY <1>1, <1>2, <1>3 DEF Drain

LEMMA FinishIdles == ASSUME Typed, FinishTransition \/ FinishPrestop PROVE Idle'
<1>1. gen \in Nat /\ wait \in WaitRecord /\ TargetAfter \in Node
  BY TypesNow, SettleTypes, TargetAfterIsNode
  DEF FinishTransition, FinishPrestop, selectionVars, QueueTypes
<1>2. CASE run' = NoRun BY <1>2, NoRunDoes DEF Idle
<1>3. CASE Kick(gen, wait) BY <1>1, <1>3, KickIdles
<1> QED BY <1>2, <1>3 DEF FinishTransition, FinishPrestop, GoOn

(* The end of a transition that leaves a front without a session asks for a  *)
(* cleanup.                                                                  *)
LEMMA FinishSingle ==
  ASSUME Typed, Single, FinishTransition \/ FinishPrestop PROVE Single' /\ OneCore
<1>0. /\ UNCHANGED <<connected, front, side>> /\ HotPast' /\ OneCore /\ run.pc = "finish"
  BY HotPastKept, CoresKept
  DEF FinishTransition, Finished, FinishPrestop, sessionVars, processVars, Single
<1>1. Idle' BY FinishIdles
<1>2. Carried'
  BY <1>1 DEF Idle, Carried, Placed, Brought, Bringing, BroughtAmnezia, Alone, Starts, Swaps, Prestops
<1>3. Standing'
  BY <1>0, <1>1 DEF Idle, Single, Standing, NoFront, FrontIsDown, NoSide, SidesAreDown, NoXray,
    ConnectedRuns, Bare, Starts, Swaps, Prestops
<1>4. Cleaned' /\ Kept' BY <1>1 DEF Idle, Cleaned, Kept, Swaps, Prestops
<1>5. Nobody'
  <2>1. front # None /\ session = None => cleanup
    BY <1>0 DEF Single, Owned, Nobody, Ups
  <2>2. CASE FinishPrestop
    BY <1>0, <2>1, <2>2 DEF FinishPrestop, sessionVars, Nobody
  <2>3. CASE FinishTransition
    <3>1. cleanup => cleanup' BY <2>3 DEF FinishTransition
    <3>2. front # None /\ ~connected => cleanup'
      BY <2>3 DEF FinishTransition, Residual, ResidualWith
    <3>3. session' = session \/ ~connected BY <2>3 DEF FinishTransition
    <3> QED BY <1>0, <2>1, <3>1, <3>2, <3>3 DEF Nobody
  <2> QED BY <2>2, <2>3
<1> QED BY <1>0, <1>2, <1>3, <1>4, <1>5 DEF Single, Owned

LEMMA SegmentSingle == ASSUME Typed, Single, Segment PROVE Single' /\ OneCore
<1>1. HotPast' BY SegmentFrame, HotPastKept DEF stepFrame, Single
<1>2. Carried /\ Standing /\ Owned BY DEF Single
<1> QED BY <1>1, <1>2, SegmentCarried, SegmentStanding, SegmentOwned, SegmentAlone DEF Single

-----------------------------------------------------------------------------
(* The sidecar of the served AmneziaWG session does not die while a          *)
(* replacement of that session runs.                                         *)
SidecarLasts == ~(AmneziaCrash /\ run.act \in Swaps)

LEMMA SingleAtStart == ASSUME Init PROVE Single
<1>1. run = NoRun /\ front = None /\ side = NoSides /\ connected = FALSE /\ cleanup = FALSE
      /\ hot = NoHot /\ hotGen = 0
  BY Zenon DEF Init
<1>2. Carried
  BY <1>1, NoRunDoes DEF Carried, Placed, Brought, Bringing, BroughtAmnezia, Alone, Starts, Swaps, Prestops
<1>3. Standing
  BY <1>1, NoRunDoes DEF Standing, NoFront, FrontIsDown, NoSide, SidesAreDown, NoXray,
    ConnectedRuns, Bare, Starts, Swaps, NoSides
<1>4. Owned BY <1>1, NoRunDoes DEF Owned, Nobody, Cleaned, Kept, Swaps
<1>5. HotPast BY <1>1, NoHotDoes DEF HotPast
<1> QED BY <1>2, <1>3, <1>4, <1>5 DEF Single

LEMMA SingleKept ==
  ASSUME Intended, Single, [Next]_vars, [SidecarLasts]_vars PROVE Single' /\ [OneCore]_vars
<1>0. Typed /\ Gate BY DEF Intended
<1>1. CASE UNCHANGED vars
  <2>1. Single'
    <3>1. /\ UNCHANGED <<run, front, side, connected, session, cleanup>> /\ UNCHANGED hotVars
          /\ (connected' <=> connected) /\ (cleanup' <=> cleanup)
      BY <1>1, Zenon DEF vars, sessionVars, processVars, queueVars
    <3>2. HotPast' BY <3>1, HotPastKept DEF Single
    <3> QED BY <1>0, <3>1, <3>2, WaitingSingle DEF RunWaits, CoresWait
  <2> QED BY <1>1, <2>1
<1>2. CASE Crash /\ SidecarLasts BY <1>0, <1>2, CrashSingle DEF SidecarLasts
<1>3. CASE Segment BY <1>0, <1>3, SegmentSingle
<1> QED BY <1>0, <1>1, <1>2, <1>3, UserSingle, DrainSingle, FinishSingle, HotSingle, BypassSingle,
          StepsAreSegments
  DEF Next

(* No core and no sidecar is ever started over a live one, whatever the      *)
(* servers, the clicks and the failures, while the sidecar of an AmneziaWG   *)
(* session does not die under the replacement of that session: its handler   *)
(* forgets the session (_on_amnezia_failure), and a rollback under way then  *)
(* leaves a front behind that the next connect starts over.                  *)
THEOREM OneProcessPerCore == Spec /\ [][SidecarLasts]_vars => OneProcess
<1>1. Init => Intended /\ Single BY IntendedAtStart, SingleAtStart
<1>2. Intended /\ Single /\ [Next]_vars /\ [SidecarLasts]_vars => (Intended /\ Single)'
  BY IntendedKept, SingleKept
<1>3. Intended /\ Single /\ [Next]_vars /\ [SidecarLasts]_vars => [OneCore]_vars BY SingleKept
<1>4. Spec /\ [][SidecarLasts]_vars => [][OneCore]_vars BY <1>1, <1>2, <1>3, PTL DEF Spec
<1>5. Spec /\ [][SidecarLasts]_vars => OneProcess BY <1>4 DEF OneCore, OneProcess
<1> QED BY <1>5

-----------------------------------------------------------------------------
(* What the list of servers rules out.  Without a pool there is no hot       *)
(* switch; without an AmneziaWG server no replacement waits for one to end;  *)
(* with nothing for Zapret to do no tunnel is stopped for a rule.            *)
NoPool    == \A n \in Node : ~Pooled(n)
NoAmnezia == \A n \in Node : Kind[n] # "amnezia"
NoRule    == Bypassed = {} /\ ~SitesOn

(* A sidecar serves a server of its own protocol.                            *)
Housed == \A k \in SideKinds : side[k] # None => Kind[side[k]] = k

LEMMA HousedStays ==
  ASSUME Typed, Housed,
         \/ side' \in {side, NoSides, UndoneSides}
         \/ \E k \in SideKinds, n \in MaybeNode :
              side' = [side EXCEPT ![k] = n] /\ (n # None => Kind[n] = k)
  PROVE  Housed'
<1>0. side \in [SideKinds -> MaybeNode] /\ \A k \in SideKinds : NoSides[k] = None
  BY DEF Typed, TypeOK, NoSides
<1>1. CASE side' \in {side, NoSides} BY <1>0, <1>1 DEF Housed
<1>2. ASSUME NEW k \in SideKinds, NEW n \in MaybeNode, side' = [side EXCEPT ![k] = n], n # None => Kind[n] = k
      PROVE  Housed'
  BY <1>0, <1>2 DEF Housed
<1>3. CASE side' = UndoneSides
  <2>1. \A k \in SideKinds : UndoneSides[k] \in {side[k], None} BY <1>0 DEF UndoneSides
  <2> QED BY <1>3, <2>1 DEF Housed
<1> QED BY <1>1, <1>2, <1>3

LEMMA CoreSelectsHouses ==
  ASSUME Typed, Housed, NEW n \in MaybeNode, CoreSelects(n) PROVE Housed'
<1>1. CASE Kind[n] = "hybrid"
  <2>1. "hybrid" \in SideKinds BY DEF SideKinds
  <2> QED BY <1>1, <2>1, HousedStays DEF CoreSelects
<1> QED BY <1>1, HousedStays DEF CoreSelects

LEMMA CoresWaitHoused == ASSUME Typed, Housed, CoresWait PROVE Housed'
BY HousedStays, CoreSelectsHouses DEF CoresWait, Selects, MaybeNode

LEMMA SegmentHouses == ASSUME Typed, Housed, Segment PROVE Housed'
<1>0. /\ {"hybrid", "hysteria", "amnezia"} = SideKinds /\ None \in MaybeNode
      /\ run.node \in MaybeNode
  BY DEF SideKinds, MaybeNode, Typed, TypeOK, RunRecord
<1>1. ASSUME NEW sd \in {side, UndoneSides}, FrontEnds(sd) PROVE Housed'
  <2>1. side' \in {sd, NoSides} BY <1>1, CoreDownDoes, Zenon DEF FrontEnds
  <2> QED BY <1>1, <2>1, HousedStays
<1>2. CASE StopFront \/ FrontAborted BY <1>1, <1>2 DEF StopFront, FrontAborted
<1>3. CASE StopSides \/ Unexpected BY <1>3, HousedStays DEF StopSides, Unexpected, DisconnectAll
<1>4. CASE SidecarUp
  <2>1. Relayed(run.node) => Kind[run.node] \in SideKinds BY DEF Relayed
  <2> QED BY <1>0, <1>4, <2>1, HousedStays DEF SidecarUp
<1>5. CASE FrontGivenUp \/ FrontFails BY <1>5, HousedStays DEF FrontGivenUp, FrontFails
<1>6. CASE AfterStartSwap
  BY <1>0, <1>6, HousedStays DEF AfterStartSwap
<1>7. CASE SwapOld BY <1>0, <1>7, HousedStays DEF SwapOld
<1>8. CASE SwapCapture BY <1>0, <1>8, HousedStays DEF SwapCapture
<1>9. CASE SwapAmnezia BY <1>0, <1>9, HousedStays DEF SwapAmnezia
<1>10. CASE SwapStop BY <1>0, <1>10, HousedStays DEF SwapStop
<1>11. CASE ~(\/ StopFront \/ FrontAborted \/ StopSides \/ Unexpected \/ SidecarUp \/ FrontGivenUp
              \/ FrontFails \/ AfterStartSwap \/ SwapOld \/ SwapCapture \/ SwapAmnezia \/ SwapStop)
  <2>1. side' = side
    BY <1>11, Zenon DEF Segment, processVars,
       BeginStop, BeginConnect, BeginProxyUpdate, BeginSwap,
       Connect, ProxyReleased, PlanFails, StartPlan, SidecarFails, FrontUp, Pinned,
       PinFails, AfterStartConnect, AfterStartSwapBack, ProxyDone, ProxyFails, Ready,
       SwapCommit, CandidateUp, CandidateFails, SwapStopped, RolledBack, RollbackFails,
       SwapExit, ReconnectExit
  <2> QED BY <2>1, HousedStays
<1> QED BY <1>2, <1>3, <1>4, <1>5, <1>6, <1>7, <1>8, <1>9, <1>10, <1>11

LEMMA CrashHouses == ASSUME Typed, Housed, Crash PROVE Housed'
<1>0. "hybrid" \in SideKinds /\ None \in MaybeNode BY DEF SideKinds, MaybeNode
<1>1. \A f, sd : CoreDown(f, sd) => side' \in {sd, NoSides} BY CoreDownDoes
<1>2. CASE FrontCrash BY <1>1, <1>2, HousedStays DEF FrontCrash
<1>3. CASE XrayCrash
  <2>1. side' \in {[side EXCEPT !["hybrid"] = None], NoSides} BY <1>1, <1>3 DEF XrayCrash
  <2> QED BY <1>0, <2>1, HousedStays
<1>4. CASE AmneziaCrash BY <1>4, HousedStays DEF AmneziaCrash
<1> QED BY <1>2, <1>3, <1>4 DEF Crash

(* A hot switch and a click touch the sidecars through the core only.        *)
LEMMA StartHotHouses ==
  ASSUME Typed, Housed, NEW s, NEW n \in Node, StartHot(s, n) PROVE Housed'
BY HousedStays, CoreSelectsHouses, Zenon DEF StartHot, CallCore, MaybeNode

LEMMA EndHotHouses ==
  ASSUME Typed, Housed, NEW s, EndHot(s), committed' \in Node, target' \in MaybeNode PROVE Housed'
BY HousedStays, StartHotHouses, TargetAfterIsNode DEF EndHot, Dispatch

LEMMA HotHouses == ASSUME Typed, Housed, HotStep PROVE Housed'
<1>1. committed' \in Node /\ target' \in MaybeNode BY HotStepTyped DEF Typed, TypeOK
<1>2. CASE HotStale \/ HotDone BY <1>1, <1>2, EndHotHouses DEF HotStale, HotDone
<1>3. CASE HotVerified
  <2>1. hot.node \in MaybeNode BY DEF Typed, TypeOK, HotRecord
  <2>2. CallCore(hot) => Housed' BY <2>1, HousedStays, CoreSelectsHouses DEF CallCore
  <2> QED BY <1>3, <2>2, HousedStays DEF HotVerified
<1>4. CASE HotFailed \/ HotRelay BY <1>4, HousedStays DEF HotFailed, HotRelay
<1>5. CASE HotRestore
  <2>1. hot.prev \in MaybeNode BY DEF Typed, TypeOK, HotRecord
  <2> QED BY <1>5, <2>1, CoreSelectsHouses DEF HotRestore
<1> QED BY <1>2, <1>3, <1>4, <1>5 DEF HotStep

LEMMA UserHouses == ASSUME Typed, Housed, User PROVE Housed'
<1>1. ASSUME NEW n \in Node, SelectServing(n) PROVE Housed'
  <2>1. CASE TryHot(n) BY <1>1, <2>1, HousedStays, StartHotHouses DEF TryHot
  <2> QED BY <1>1, <2>1, HousedStays DEF SelectServing, serverVars
<1>2. CASE Toggle \/ ChangeProxy \/ ChangeTun \/ \E n \in Node : SelectIdle(n)
  BY <1>2, HousedStays DEF Toggle, ChangeProxy, ChangeTun, SelectIdle, ApplySettings, serverVars
<1> QED BY <1>1, <1>2 DEF User

LEMMA HousedKept == ASSUME Typed, Housed, [Next]_vars PROVE Housed'
<1>1. CASE UNCHANGED vars \/ Bypass \/ Drain \/ FinishTransition \/ FinishPrestop
  <2>1. side' = side
    BY <1>1, Zenon DEF vars, processVars, Bypass, LookupStep, LookupObsolete, LookupFailed,
      LookupUnprotected, LookupProtected, ZapStarted, ZapGone, ZapTimeout, ZapLate, Drain,
      FinishTransition, FinishPrestop
  <2> QED BY <2>1, HousedStays
<1> QED BY <1>1, UserHouses, CrashHouses, HotHouses, SegmentHouses, StepsAreSegments DEF Next

-----------------------------------------------------------------------------
(* Nothing is forgotten.  Where there is work to do and nothing runs, an     *)
(* event is under way that takes it up: the timer of the queue, the hot      *)
(* switch of the newest generation, or the answer a preparation waits for,   *)
(* which is about the server asked for.                                      *)
HotAlive == hot.pc # "idle" /\ hot.tgen = gen

Taken ==
  \/ Active
  \/ scheduled
  \/ wait.on = "dns" /\ desired /\ Target = wait.node
  \/ wait.on = "apply" /\ desired

Heard == Needs => Taken \/ (HotAlive /\ connected)

(* The timer runs only where the queue may be drained.                       *)
Timer == scheduled => ~Active /\ wait.gen = 0

(* A hot switch of the newest generation is all that goes on; it is wanted,  *)
(* for the server asked for.                                                 *)
Sole ==
  HotAlive =>
    /\ ~Active /\ ~scheduled /\ wait.gen = 0
    /\ target = hot.node /\ hot.hgen = hotGen
    /\ connected => desired

(* A drain that finds the configuration blocked drops no other choice.       *)
Clear == target # None /\ blocked # None /\ desired /\ connected => Active \/ HotAlive

Restarted == Active /\ run.gen # gen => blocked = None \/ ~desired

(* The tunnel is stopped for the server asked for, and is down after that.   *)
Meant == run.act = "prestop_dns" /\ run.gen = gen => Target = run.node

Stopping ==
  run.act \in Prestops =>
    /\ run.pc \in {"begin", "stop", "stop_sides", "finish"}
    /\ run.pc \in {"stop_sides", "finish"} => front = None /\ ~connected

Attentive ==
  /\ ~hotPending /\ ConnectedRuns
  /\ Heard /\ Timer /\ Sole /\ Clear /\ Restarted /\ Meant /\ Stopping

(* What makes the program forget, and nothing else does: a click in the      *)
(* middle of a hot switch, one while a tunnel is stopped for its rule, a hot *)
(* switch that begins with something due in the queue, and the death of an   *)
(* Xray core that a failed transition left to a cleanup.                     *)
Undisturbed ==
  /\ User => hot = NoHot /\ run.act \notin Prestops
  /\ hot = NoHot /\ hot' # NoHot => ~scheduled /\ wait.gen = 0
  /\ XrayCrash => Active \/ connected

-----------------------------------------------------------------------------
LEMMA NoRunAttends ==
  ASSUME run' = NoRun PROVE ~Active' /\ Restarted' /\ Meant' /\ Stopping'
BY NoRunDoes, NoPrestop DEF Active, Restarted, Meant, Stopping

(* A kick that finds the gate open has the work taken up.                    *)
LEMMA KickTakes ==
  ASSUME Typed, gen' \in {gen, gen + 1}, NEW w \in WaitRecord, w.gen = 0, TargetAfter \in Node,
         Kick(gen', w)
  PROVE  Taken' /\ Timer' /\ Restarted' /\ Meant' /\ Stopping'
<1>0. gen' \in Nat /\ Target' = TargetAfter
  BY DEF Typed, TypeOK, Target, TargetAfter
<1>1. CASE /\ desired' /\ scheduled' = FALSE /\ run' = NewRun("prestop_dns", gen', TargetAfter)
  <2>1. /\ run'.act = "prestop_dns" /\ run'.gen = gen' /\ run'.node = TargetAfter
        /\ run'.pc = "begin"
    BY <1>1, SMT DEF NewRun, NoRun
  <2> QED BY <1>0, <1>1, <2>1 DEF Taken, Active, Timer, Restarted, Meant, Stopping
<1>2. CASE /\ desired' /\ scheduled' = FALSE /\ wait'.on = "dns" /\ wait'.node = TargetAfter
           /\ run' = NoRun
  BY <1>0, <1>2, NoRunAttends DEF Taken, Timer
<1>3. CASE run' = NoRun /\ wait' = w /\ scheduled' = (scheduled \/ w.gen = 0 \/ w.gen # gen')
  BY <1>3, NoRunAttends DEF Taken, Timer
<1> QED BY <1>0, <1>1, <1>2, <1>3, KickDoes

(* What a new generation leaves behind: no hot switch of it.                 *)
LEMMA Outdated ==
  ASSUME Typed, HotWanted, gen' = gen + 1, hot' = hot \/ hot' = NoHot PROVE ~HotAlive'
<1>1. gen \in Nat /\ hot.tgen \in Nat BY DEF Typed, TypeOK, HotRecord
<1> QED BY <1>1, NoHotDoes DEF HotWanted, HotAlive

LEMMA RequestAttends ==
  ASSUME Typed, Gate, HotWanted, Attentive, NEW k, Request(k),
         committed' \in Node, target' \in MaybeNode, ~k \/ ~desired',
         UNCHANGED <<connected, front>>, hot' = hot \/ hot' = NoHot, ~hotPending'
  PROVE  Attentive'
<1>1. TargetAfter \in Node /\ gen' = gen + 1 /\ gen \in Nat
  BY TargetAfterIsNode DEF Request, Typed, TypeOK
<1>2. ~HotAlive' /\ ConnectedRuns' /\ (blocked' = None \/ ~desired')
  BY <1>1, Outdated DEF Request, Attentive, ConnectedRuns
<1>3. Taken' /\ Timer' /\ Restarted' /\ Meant' /\ Stopping'
  <2>1. CASE Active
    <3>1. /\ run' = run /\ scheduled' = scheduled /\ run.gen \in Nat /\ run.gen <= gen
      BY <2>1 DEF Request, Gate, Typed, TypeOK, RunRecord
    <3> QED BY <1>1, <1>2, <2>1, <3>1
      DEF Attentive, Taken, Active, Timer, Restarted, Meant, Stopping
  <2>2. CASE ~Active
    <3>1. NoWait.gen = 0 BY DEF NoWait
    <3> QED BY <1>1, <2>2, <3>1, NoWaitType, KickTakes DEF Request
  <2> QED BY <2>1, <2>2
<1> QED BY <1>2, <1>3 DEF Attentive, Heard, Sole, Clear

LEMMA FailWaitAttends ==
  ASSUME Typed, Gate, HotWanted, Attentive, FailWait, wait.on = "apply",
         UNCHANGED <<selectionVars, connected, front, hotVars>>
  PROVE  Attentive'
<1>1. /\ TargetAfter \in Node /\ gen \in Nat /\ ~desired' /\ hot' = hot /\ ~hotPending'
      /\ wait.gen # 0 /\ ~Active
  BY TypesNow, TargetAfterIsNode
  DEF selectionVars, QueueTypes, FailWait, hotVars, Attentive, Gate
<1>2. CASE gen' = gen + 1 /\ Kick(gen', NoWait)
  <2>1. NoWait.gen = 0 BY DEF NoWait
  <2>2. ~HotAlive' BY <1>1, <1>2, Outdated
  <2>3. Taken' /\ Timer' /\ Restarted' /\ Meant' /\ Stopping'
    BY <1>1, <1>2, <2>1, NoWaitType, KickTakes
  <2> QED BY <1>1, <2>2, <2>3 DEF Attentive, Heard, Sole, Clear, ConnectedRuns
<1>3. CASE ~connected /\ wait' = NoWait /\ UNCHANGED <<gen, prepared, scheduled, run>>
  BY <1>1, <1>3
  DEF Attentive, Heard, Sole, Clear, ConnectedRuns, Needs, NeedsWith, Timer, Restarted, Meant,
    Stopping, Active, HotAlive, NoWait
<1> QED BY <1>1, <1>2, <1>3 DEF FailWait

(* A step that touches neither the queue nor what it is about.               *)
LEMMA AttentionStays ==
  ASSUME Attentive,
         UNCHANGED <<desired, tunSetting, proxySetting, committed, target, gen, scheduled, blocked,
                     run, connected, session, front, hot, hotGen, hotPending, wait>>
  PROVE  Attentive'
<1>1. ConnectedRuns' /\ Heard'
  BY DEF Attentive, ConnectedRuns, Heard, Taken, HotAlive, Needs, NeedsWith, Sig, SigOf, Target,
    TargetOf, Active
<1>2. Timer' /\ Sole' /\ Clear' /\ Restarted' /\ Meant' /\ Stopping'
  BY DEF Attentive, Timer, Sole, Clear, Restarted, Meant, Stopping, HotAlive, Target, TargetOf, Active
<1> QED BY <1>1, <1>2 DEF Attentive

(* A wait that ends with the queue open, or with nothing to do.              *)
LEMMA WaitEnds ==
  ASSUME Attentive, wait.gen # 0, ~Active, wait' = NoWait, scheduled' \/ (~Needs' /\ ~scheduled'),
         UNCHANGED <<gen, run, connected, front, hotVars>>,
         target' = None \/ UNCHANGED <<desired, target, blocked>>
  PROVE  Attentive'
<1>1. ~HotAlive' /\ ~hotPending' /\ hot' = hot /\ NoWait.gen = 0 /\ NoWait.on = "none"
  BY DEF Attentive, Sole, HotAlive, hotVars, NoWait
<1>2. run.act \notin Prestops /\ run.act # "prestop_dns" BY DEF Active, Prestops
<1>3. ConnectedRuns' /\ Heard' /\ Timer'
  BY <1>1 DEF Attentive, ConnectedRuns, Heard, Taken, Timer, Active
<1>4. Sole' /\ Clear' /\ Restarted' /\ Meant' /\ Stopping'
  BY <1>1, <1>2 DEF Attentive, Sole, Clear, Restarted, Meant, Stopping, HotAlive, Active
<1> QED BY <1>1, <1>3, <1>4 DEF Attentive

LEMMA LookupAttends ==
  ASSUME Typed, Gate, HotWanted, Attentive,
         LookupObsolete \/ LookupFailed \/ LookupUnprotected \/ \E m \in BOOLEAN : LookupProtected(m)
  PROVE  Attentive'
<1>0. /\ LookupAnswers /\ UNCHANGED <<connected, session, front, tunSetting, proxySetting>>
      /\ UNCHANGED hotVars
  BY Zenon DEF LookupObsolete, LookupFailed, LookupUnprotected, LookupProtected, sessionVars,
    processVars, settingVars
<1>1. /\ wait.gen # 0 /\ wait.gen = gen /\ ~Active /\ wait.on = "dns" /\ ~scheduled
      /\ wait.node \in Node /\ run = NoRun /\ gen \in Nat
  BY <1>0, LookupWaits DEF Attentive, Timer, Typed, TypeOK
<1>2. ASSUME ScheduleDrain(NoWait), wait' = NoWait, UNCHANGED <<gen, run, desired, target, blocked>>
      PROVE  Attentive'
  <2>1. scheduled' BY <1>1, <1>2 DEF ScheduleDrain, NoWait
  <2> QED BY <1>0, <1>1, <1>2, <2>1, WaitEnds
<1>3. CASE LookupObsolete
  <2>1. /\ wait' = NoWait /\ (~desired \/ Target # wait.node)
        /\ UNCHANGED <<desired, committed, target, gen, scheduled, blocked, run>>
    BY <1>3, Zenon DEF LookupObsolete, selectionVars, queueVars
  <2>2. ~HotAlive BY <1>1 DEF Attentive, Sole
  <2>3. ~Needs BY <1>1, <2>1, <2>2 DEF Attentive, Heard, Taken
  <2>4. ~Needs'
    BY <1>0, <2>1, <2>3 DEF Needs, NeedsWith, Sig, SigOf, Target, TargetOf
  <2> QED BY <1>0, <1>1, <2>1, <2>4, WaitEnds
<1>4. CASE LookupFailed
  <2>1. CASE CancelTarget
    <3>1. /\ desired' = connected /\ blocked' = Sig(TargetAfter) /\ target' = None
          /\ wait' = NoWait /\ UNCHANGED <<gen, scheduled, run>>
      BY <2>1 DEF CancelTarget, Settle
    <3>2. ~Needs'
      BY <1>0, <3>1 DEF Needs, NeedsWith, Sig, SigOf, Target, TargetAfter
    <3> QED BY <1>0, <1>1, <3>1, <3>2, WaitEnds
  <2>2. CASE wait' = NoWait /\ ScheduleDrain(NoWait) /\ UNCHANGED <<desired, selectionVars, blocked, gen, run>>
    BY <1>2, <2>2 DEF selectionVars
  <2> QED BY <1>4, <2>1, <2>2 DEF LookupFailed
<1>5. CASE LookupUnprotected
  <2>1. UNCHANGED selectionVars /\ committed' \in Node /\ target' \in MaybeNode
    BY <1>5, TypesNow DEF LookupUnprotected, selectionVars
  <2>2. CASE desired' = FALSE /\ Request(TRUE)
    BY <1>0, <2>1, <2>2, RequestAttends DEF hotVars, Attentive
  <2>3. CASE wait' = NoWait /\ ScheduleDrain(NoWait) /\ UNCHANGED <<desired, blocked, gen, run>>
    BY <1>2, <2>1, <2>3 DEF selectionVars
  <2> QED BY <1>5, <2>2, <2>3 DEF LookupUnprotected
<1>6. ASSUME NEW m \in BOOLEAN, LookupProtected(m) PROVE Attentive'
  <2>1. /\ desired /\ Target = wait.node
        /\ UNCHANGED <<desired, committed, target, gen, blocked>>
    BY <1>6 DEF LookupProtected, selectionVars
  <2>2. CASE wait' = NoWait /\ ScheduleDrain(NoWait) /\ UNCHANGED run BY <1>2, <2>1, <2>2
  <2>3. CASE Renew(m) /\ UNCHANGED scheduled
    <3>1. ~HotAlive' /\ ~hotPending' /\ ConnectedRuns'
      BY <1>0, <1>1, <2>1 DEF Attentive, Sole, HotAlive, hotVars, ConnectedRuns
    <3>2. CASE run' = [NewRun("prestop_apply", gen, wait.node) EXCEPT !.drop = m]
      <4>1. run'.act = "prestop_apply" /\ run'.gen = gen /\ run'.pc = "begin"
        BY <3>2, SMT DEF NewRun, NoRun
      <4> QED BY <1>1, <2>1, <2>3, <3>1, <4>1
        DEF Attentive, Heard, Taken, Active, Timer, Sole, Clear, Restarted, Meant, Stopping
    <3>3. CASE ~connected /\ wait' = [wait EXCEPT !.on = "apply"] /\ UNCHANGED run
      <4>1. run' = NoRun /\ wait'.on = "apply" BY <1>1, <3>3, WaitsToApply
      <4> QED BY <1>0, <1>1, <2>1, <2>3, <3>1, <3>3, <4>1, NoRunAttends
        DEF Attentive, Heard, Taken, Timer, Sole, Clear
    <3> QED BY <2>3, <3>2, <3>3 DEF Renew
  <2> QED BY <1>6, <2>2, <2>3 DEF LookupProtected
<1> QED BY <1>3, <1>4, <1>5, <1>6

LEMMA ZapStoppedAttends ==
  ASSUME Typed, Gate, HotWanted, Attentive, ZapStopped,
         UNCHANGED <<settingVars, selectionVars, connected, session, front, hotVars>>
  PROVE  Attentive'
<1>1. committed' \in Node /\ target' \in MaybeNode BY TypesNow DEF selectionVars
<1>2. CASE desired' = FALSE /\ Request(TRUE)
  BY <1>1, <1>2, RequestAttends DEF hotVars, Attentive
<1>3. CASE UNCHANGED <<desired, blocked, gen, scheduled, wait, run>>
  BY <1>3, AttentionStays DEF settingVars, selectionVars, hotVars
<1> QED BY <1>2, <1>3 DEF ZapStopped

LEMMA ZapAttends ==
  ASSUME Typed, Gate, HotWanted, Attentive, ZapStarted \/ ZapGone \/ ZapTimeout \/ ZapLate
  PROVE  Attentive'
<1>0. UNCHANGED <<settingVars, selectionVars, connected, session, front, hotVars>>
  BY Zenon DEF ZapStarted, ZapGone, ZapTimeout, ZapLate, sessionVars, processVars
<1>1. AnswersWait => wait.on = "apply" /\ wait.gen # 0 /\ ~Active /\ ~scheduled
  BY DEF AnswersWait, Gate, Attentive, Timer
<1>2. CASE ZapStarted
  <2>1. CASE UNCHANGED <<desired, blocked, gen, scheduled, wait, run>>
    BY <1>0, <2>1, AttentionStays DEF settingVars, selectionVars, hotVars
  <2>2. CASE AnswersWait /\ ~desired /\ wait' = NoWait
             /\ UNCHANGED <<desired, blocked, gen, scheduled, run>>
    <3>1. ~Needs BY <1>1, <2>2 DEF Attentive, Heard, Taken, Sole
    <3>2. ~Needs'
      BY <1>0, <2>2, <3>1
      DEF Needs, NeedsWith, Sig, SigOf, Target, TargetOf, settingVars, selectionVars
    <3> QED BY <1>0, <1>1, <2>2, <3>2, WaitEnds DEF selectionVars
  <2>3. CASE AnswersWait /\ wait' = NoWait /\ ScheduleDrain(NoWait)
             /\ UNCHANGED <<desired, blocked, gen, run>>
    <3>1. scheduled' BY <1>1, <2>3 DEF ScheduleDrain, NoWait
    <3> QED BY <1>0, <1>1, <2>3, <3>1, WaitEnds DEF selectionVars
  <2>4. CASE AnswersWait /\ FailWait BY <1>0, <1>1, <2>4, FailWaitAttends
  <2> QED BY <1>2, <2>1, <2>2, <2>3, <2>4 DEF ZapStarted
<1>3. CASE ZapGone \/ ZapTimeout
  BY <1>0, <1>1, <1>3, FailWaitAttends, ZapStoppedAttends DEF ZapGone, ZapTimeout
<1>4. CASE ZapLate
  BY <1>0, <1>4, AttentionStays DEF ZapLate, queueVars, settingVars, selectionVars, hotVars
<1> QED BY <1>2, <1>3, <1>4

-----------------------------------------------------------------------------
LEMMA CrashAttends ==
  ASSUME Typed, Attentive, Crash, XrayCrash => Active \/ connected PROVE Attentive'
<1>0. /\ UNCHANGED <<tunSetting, proxySetting, committed, target, gen, scheduled, blocked, run,
                     hot, hotGen, hotPending, wait>>
      /\ connected \in BOOLEAN
  BY Zenon DEF Crash, FrontCrash, XrayCrash, AmneziaCrash, crashFrame, settingVars, selectionVars,
    queueVars, hotVars, bypassVars, Typed, TypeOK
<1>1. (Active' <=> Active) /\ (HotAlive' <=> HotAlive) /\ Target' = Target
  BY <1>0 DEF Active, HotAlive, Target, TargetOf
<1>2. CASE ~desired' /\ ~connected' /\ front' = None
  BY <1>0, <1>1, <1>2
  DEF Attentive, ConnectedRuns, Heard, Needs, NeedsWith, Timer, Sole, Clear, Restarted, Meant, Stopping
<1>3. ASSUME desired' = desired, session' = session, front' \in {front, None},
             connected' \in BOOLEAN, connected' => front' # None, Active \/ connected' = connected
      PROVE  Attentive'
  <2>1. ConnectedRuns' /\ Timer' /\ Meant' /\ Restarted'
    BY <1>0, <1>1, <1>3 DEF Attentive, ConnectedRuns, Timer, Meant, Restarted
  <2>2. Heard'
    <3>1. CASE Active BY <1>1, <3>1 DEF Heard, Taken
    <3>2. CASE connected' = connected
      BY <1>0, <1>1, <1>3, <3>2 DEF Attentive, Heard, Taken, Needs, NeedsWith, Sig, SigOf
    <3> QED BY <1>3, <3>1, <3>2
  <2>3. Sole' /\ Clear' BY <1>0, <1>1, <1>3 DEF Attentive, Sole, Clear
  <2>4. Stopping' BY <1>0, <1>1, <1>3 DEF Attentive, Stopping
  <2> QED BY <1>0, <2>1, <2>2, <2>3, <2>4 DEF Attentive
<1>4. ASSUME NEW f \in {front, None}, NEW sd, CoreDown(f, sd), Active \/ connected \/ f = None
      PROVE  Attentive'
  <2>1. ConnectedWith(f, sd, session) \in BOOLEAN BY ConnectedType
  <2>2. CASE DisconnectAll /\ ~Switching
    BY <1>2, <2>2 DEF DisconnectAll, Switching, Reconnecting
  <2>3. CASE /\ ~(connected /\ ~ConnectedWith(f, sd, session) /\ ~Switching /\ ~Disconnecting)
             /\ front' = f /\ connected' = ConnectedWith(f, sd, session)
             /\ UNCHANGED <<session, desired>>
    <3>1. connected' => front' # None BY <2>3 DEF ConnectedWith
    <3>2. Switching \/ Disconnecting => Active
      BY DEF Switching, Disconnecting, Active, Swaps, Prestops
    <3>3. f = None => ~ConnectedWith(f, sd, session) BY DEF ConnectedWith
    <3>4. Active \/ connected' = connected BY <1>0, <1>4, <2>1, <2>3, <3>2, <3>3
    <3> QED BY <1>3, <2>1, <2>3, <3>1, <3>4
  <2> QED BY <1>4, <2>2, <2>3, Zenon DEF CoreDown
<1>5. CASE FrontCrash BY <1>4, <1>5 DEF FrontCrash
<1>6. CASE XrayCrash BY <1>4, <1>6 DEF XrayCrash
<1>7. CASE AmneziaCrash BY <1>2, <1>7 DEF AmneziaCrash
<1> QED BY <1>5, <1>6, <1>7 DEF Crash

-----------------------------------------------------------------------------
LEMMA StartHotFront ==
  ASSUME NEW s, NEW n, StartHot(s, n) PROVE front' \in {front, n}
BY Zenon DEF StartHot, CallCore, CoreSelects

LEMMA UserAttends ==
  ASSUME Typed, Gate, HotWanted, Attentive, Undisturbed, User PROVE Attentive'
<1>0. /\ UNCHANGED <<connected, session>> /\ hot = NoHot /\ hot.pc = "idle"
      /\ run.act \notin Prestops /\ ~hotPending /\ (hot' # NoHot => ~scheduled /\ wait.gen = 0)
  BY NoHotDoes, Zenon DEF User, Toggle, ChangeProxy, ChangeTun, SelectServing, SelectIdle, ApplySettings,
    userFrame, sessionVars, Undisturbed, Attentive
<1>1. ASSUME Request(FALSE), committed' \in Node, target' \in MaybeNode, UNCHANGED serverVars
      PROVE  Attentive'
  BY <1>0, <1>1, RequestAttends DEF serverVars
<1>2. CASE Toggle
  <2>1. committed' \in Node /\ target' \in MaybeNode
    BY <1>2, TypesNow DEF Toggle, Drop, selectionVars, MaybeNode
  <2> QED BY <1>1, <1>2, <2>1 DEF Toggle
<1>3. ASSUME NEW n \in Node, SelectServing(n) PROVE Attentive'
  <2>1. /\ committed' \in Node /\ target' \in MaybeNode /\ desired' = TRUE /\ connected
        /\ (n # committed => target' = n)
    BY <1>3, TypesNow DEF SelectServing, RequestServing, MaybeNode, Serving
  <2>2. CASE /\ n # committed /\ Precheck(session, n) /\ TryHot(n)
             /\ UNCHANGED <<blocked, pending, gen, prepared, scheduled, wait, run>>
    <3>1. /\ hotGen' = hotGen + 1 /\ hotGen' \in Nat /\ ~hotPending' /\ StartHot(session, n)
          /\ session \in Session /\ ~Active
      BY <1>0, <2>2, TypesNow DEF TryHot, Precheck, HotTypes
    <3>2. /\ hot'.pc \in {"verify", "core"} /\ hot'.node = n /\ hot'.hgen = hotGen' /\ hot'.tgen = gen
      BY <3>1, StartHotDoes
    <3>3. hot' # NoHot /\ ~scheduled /\ wait.gen = 0 BY <1>0, <3>2, NoHotDoes
    <3>4. HotAlive' /\ ~Active' BY <2>2, <3>1, <3>2 DEF HotAlive, Active
    <3>5. ConnectedRuns'
      BY <1>0, <2>1, <3>1, StartHotFront, ConnectionAssumption DEF Attentive, ConnectedRuns
    <3>6. Timer' /\ Sole' /\ Clear' /\ Heard'
      BY <1>0, <2>1, <2>2, <3>2, <3>3, <3>4 DEF Timer, Sole, Clear, Heard
    <3>7. Restarted' /\ Meant' /\ Stopping'
      BY <1>0, <2>2, <3>4 DEF Restarted, Meant, Stopping, Prestops
    <3> QED BY <3>1, <3>5, <3>6, <3>7 DEF Attentive
  <2> QED BY <1>1, <1>3, <2>1, <2>2 DEF SelectServing
(* A click that asks for nothing: nobody wants the connection.               *)
<1>4. ASSUME ~desired, ~desired', target' = None \/ UNCHANGED target, UNCHANGED serverVars,
             UNCHANGED <<blocked, pending, gen, prepared, scheduled, wait, run>>
      PROVE  Attentive'
  <2>1. ~HotAlive' /\ ~HotAlive /\ ~hotPending' /\ (Active' <=> Active)
    BY <1>0, <1>4 DEF HotAlive, serverVars, Active
  <2>2. Needs' => connected BY <1>0, <1>4 DEF Needs, NeedsWith
  <2>3. connected => Active \/ scheduled BY <1>4, <2>1 DEF Attentive, Heard, Needs, NeedsWith, Taken
  <2>4. Heard' /\ Timer' /\ Sole' /\ Clear' /\ ConnectedRuns'
    BY <1>0, <1>4, <2>1, <2>2, <2>3
    DEF Attentive, Heard, Taken, Timer, Sole, Clear, ConnectedRuns, serverVars
  <2>5. Restarted' /\ Meant' /\ Stopping'
    BY <1>0, <1>4, <2>1 DEF Restarted, Meant, Stopping, Prestops
  <2> QED BY <2>1, <2>4, <2>5 DEF Attentive
<1>5. ASSUME NEW n \in Node, SelectIdle(n) PROVE Attentive'
  <2>1. committed' \in Node /\ target' = None /\ target' \in MaybeNode
    BY <1>5 DEF SelectIdle, RequestIdle, MaybeNode
  <2> QED BY <1>1, <1>4, <1>5, <2>1 DEF SelectIdle
<1>6. CASE ChangeProxy \/ ChangeTun
  <2>1. ApplySettings /\ (desired' = desired \/ desired' = (desired \/ connected))
    BY <1>6, Zenon DEF ChangeProxy, ChangeTun
  <2>2. committed' \in Node /\ target' \in MaybeNode /\ UNCHANGED serverVars /\ UNCHANGED target
    BY <2>1, TypesNow DEF ApplySettings, selectionVars
  <2>3. CASE Request(FALSE) BY <1>1, <2>2, <2>3
  <2>4. CASE ~(connected \/ desired) /\ UNCHANGED <<blocked, pending, gen, prepared, scheduled, wait, run>>
    <3>0. ~desired /\ ~connected BY <2>4, Zenon
    <3>1. ~desired' BY <2>1, <3>0, Zenon
    <3> QED BY <1>4, <2>2, <2>4, <3>0, <3>1
  <2> QED BY <2>1, <2>3, <2>4 DEF ApplySettings
<1> QED BY <1>2, <1>3, <1>5, <1>6 DEF User

-----------------------------------------------------------------------------
LEMMA StartAttends ==
  ASSUME Attentive, NEW a \in Acts \ (Prestops \cup {"none"}), StartRun(a), scheduled,
         scheduled' = FALSE, UNCHANGED <<gen, connected, front, hotVars>>
  PROVE  Attentive'
<1>1. run'.act = a /\ run'.gen = gen BY SMT DEF StartRun, NewRun, NoRun
<1>2. ~HotAlive' /\ ~hotPending' BY DEF Attentive, Sole, HotAlive, hotVars
<1>3. Active' /\ run'.act \notin Prestops BY <1>1 DEF Active
<1> QED BY <1>1, <1>2, <1>3
  DEF Attentive, ConnectedRuns, Heard, Taken, Timer, Sole, Clear, Restarted, Meant, Stopping, Prestops

LEMMA DrainAttends == ASSUME Typed, Gate, Attentive, Drain PROVE Attentive'
<1>0. /\ scheduled /\ ~Active /\ wait.gen = 0 /\ ~HotAlive /\ scheduled' = FALSE
      /\ UNCHANGED <<desired, tunSetting, proxySetting, gen, blocked, connected, session, front, wait>>
      /\ UNCHANGED hotVars
  BY Zenon DEF Drain, Attentive, Timer, Sole, settingVars, sessionVars, processVars, bypassVars
<1>1. ~WaitingFor(gen) BY <1>0 DEF WaitingFor
<1>2. "cleanup" \in Acts \ (Prestops \cup {"none"}) BY DEF Acts, Prestops
<1>3. CASE StartRun("cleanup") BY <1>0, <1>2, <1>3, StartAttends
<1>4. CASE Action # "none" /\ StartRun(Action)
  BY <1>0, <1>4, ActionIsAct, StartAttends
<1>5. CASE Action = "none" /\ ResolveIdle /\ UNCHANGED run
  <2>1. target' = None BY <1>5 DEF ResolveIdle, Commit, Settle
  <2>2. ~Needs'
    <3>1. CASE ~desired BY <1>0, <1>5, <3>1 DEF Action, Needs, NeedsWith
    <3>2. CASE desired /\ Sig(Target) = blocked
      <4>1. blocked # None BY <3>2, SigType, TargetIsNode, NoneAssumption
      <4>2. target # None => ~connected
        BY <1>0, <3>2, <4>1 DEF Attentive, Clear
      <4>3. Target' = Target
        BY <1>5, <2>1, <4>2 DEF ResolveIdle, Settle, Target, TargetOf
      <4> QED BY <1>0, <3>2, <4>3 DEF Needs, NeedsWith, Sig
    <3>3. CASE desired /\ Sig(Target) # blocked
      <4>1. connected /\ session # None /\ session.sig = Sig(Target)
        BY <1>5, <3>3, Zenon DEF Action
      <4>2. Target' = Target
        BY <1>5, <2>1, <4>1 DEF ResolveIdle, Commit, Settle, Target, TargetOf
      <4> QED BY <1>0, <3>3, <4>1, <4>2 DEF Needs, NeedsWith, Sig
    <3> QED BY <3>1, <3>2, <3>3
  <2>3. ~HotAlive' /\ ~hotPending' /\ (Active' <=> Active) /\ run.act \notin Prestops
    BY <1>0, <1>5 DEF Attentive, HotAlive, hotVars, Active, Prestops
  <2> QED BY <1>0, <1>5, <2>1, <2>2, <2>3
    DEF Attentive, ConnectedRuns, Heard, Timer, Sole, Clear, Restarted, Meant, Stopping, Prestops
<1> QED BY <1>0, <1>1, <1>3, <1>4, <1>5 DEF Drain

-----------------------------------------------------------------------------
(* The end of a transition takes up what came meanwhile.                     *)
LEMMA FinishAttends ==
  ASSUME Typed, Gate, Attentive, FinishTransition PROVE Attentive'
<1>0. /\ Active /\ wait.gen = 0 /\ ~scheduled /\ ~HotAlive' /\ ~hotPending' /\ ConnectedRuns'
      /\ UNCHANGED <<gen, connected, tunSetting, proxySetting>>
  BY Awake DEF FinishTransition, Finished, Gate, Attentive, Timer, Sole, HotAlive, ConnectedRuns,
    hotVars, processVars, settingVars
<1>1. /\ committed' \in Node /\ target' \in MaybeNode /\ TargetAfter \in Node
      /\ wait \in WaitRecord
  BY TypesNow, SettleTypes, TargetAfterIsNode DEF FinishTransition, selectionVars, QueueTypes
<1>2. Clear'
  <2>1. CASE Superseded
    <3>1. UNCHANGED <<blocked, desired>> BY <2>1 DEF FinishTransition, Outcome
    <3>2. blocked = None \/ ~desired
      BY <1>0, <2>1 DEF Superseded, Attentive, Restarted
    <3> QED BY <3>1, <3>2 DEF Clear
  <2>2. CASE ~Superseded BY <2>2 DEF FinishTransition, Settle, Clear
  <2> QED BY <2>1, <2>2
<1>3. CASE Kick(gen, wait)
  BY <1>0, <1>1, <1>2, <1>3, KickTakes DEF Attentive, Heard, Sole
<1>4. CASE /\ ~NeedsWith(desired', blocked', connected, session', TargetAfter)
           /\ run' = NoRun /\ UNCHANGED <<scheduled, wait>>
  <2>1. ~Needs'
    BY <1>0, <1>4 DEF Needs, NeedsWith, Sig, SigOf, Target, TargetAfter, TargetOf
  <2> QED BY <1>0, <1>2, <1>4, <2>1, NoRunAttends DEF Attentive, Heard, Timer, Sole
<1> QED BY <1>3, <1>4, Zenon DEF FinishTransition, GoOn

LEMMA PrestopAttends ==
  ASSUME Typed, Gate, Attentive, FinishPrestop PROVE Attentive'
<1>0. /\ Active /\ ~scheduled /\ ~HotAlive' /\ ~hotPending' /\ ConnectedRuns'
      /\ UNCHANGED <<gen, connected, tunSetting, proxySetting, committed, target, blocked>>
  BY Awake DEF FinishPrestop, Gate, Attentive, Timer, Sole, HotAlive, ConnectedRuns,
    hotVars, processVars, sessionVars, settingVars, selectionVars
<1>1. TargetAfter \in Node /\ wait \in WaitRecord /\ gen \in Nat
  BY TypesNow, <1>0, TargetAfterIsNode DEF QueueTypes
<1>2. CASE Superseded
  <2>1. Kick(gen, wait) /\ desired' = desired BY <1>2 DEF FinishPrestop
  <2>2. wait.gen = 0 BY <1>0, <1>2 DEF Superseded, Gate
  <2>3. blocked = None \/ ~desired BY <1>0, <1>2 DEF Superseded, Attentive, Restarted
  <2>4. Clear' BY <1>0, <2>1, <2>3 DEF Clear
  <2> QED BY <1>0, <1>1, <2>1, <2>2, <2>4, KickTakes DEF Attentive, Heard, Sole
<1>3. CASE ~Superseded
  <2>1. desired' = TRUE /\ run' = NoRun /\ run.gen = gen BY <1>3 DEF FinishPrestop, Superseded
  <2>2. ~connected' BY <1>0 DEF FinishPrestop, Attentive, Stopping
  <2>3. Sole' /\ Clear' /\ Restarted' /\ Meant' /\ Stopping'
    BY <1>0, <2>1, <2>2, NoRunAttends DEF Sole, Clear
  <2>4. CASE /\ run.act = "prestop_dns" /\ UNCHANGED scheduled
             /\ wait' = [gen |-> gen, on |-> "dns", node |-> run.node]
    <3>1. Target' = run.node BY <1>0, <2>1, <2>4 DEF Attentive, Meant, Target, TargetOf
    <3>2. Taken' /\ Timer' BY <1>0, <2>1, <2>4, <3>1 DEF Taken, Timer
    <3> QED BY <1>0, <2>3, <3>2 DEF Attentive, Heard
  <2>5. CASE /\ wait' = IF zap'.st = "on" THEN NoWait
                        ELSE [gen |-> gen, on |-> "apply", node |-> run.node]
             /\ scheduled' = (scheduled \/ zap'.st = "on")
    <3>1. Taken' /\ Timer'
      BY <1>0, <2>1, <2>5, NoRunAttends DEF Taken, Timer, NoWait
    <3> QED BY <1>0, <2>3, <3>1 DEF Attentive, Heard
  <2> QED BY <1>3, <2>4, <2>5 DEF FinishPrestop
<1> QED BY <1>2, <1>3

-----------------------------------------------------------------------------
(* A hot switch that is over: it was of an older generation, or the          *)
(* connection is gone, which has the queue at work.                          *)
LEMMA SwitchOver ==
  ASSUME Attentive, ~HotAlive \/ ~connected, hot' = NoHot, hotPending' = FALSE, hotGen' = hotGen,
         UNCHANGED <<desired, tunSetting, proxySetting, committed, target, gen, scheduled, blocked,
                     run, connected, session, front, wait>>
  PROVE  Attentive'
<1>1. ~HotAlive' BY NoHotDoes DEF HotAlive
<1>2. Heard'
  BY DEF Attentive, Heard, Taken, Needs, NeedsWith, Sig, SigOf, Target, TargetOf, Active
<1>3. Clear' BY DEF Attentive, Clear, Active
<1>4. ConnectedRuns' /\ Timer' /\ Restarted' /\ Meant' /\ Stopping'
  BY DEF Attentive, ConnectedRuns, Timer, Restarted, Meant, Stopping, Target, TargetOf, Active
<1> QED BY <1>1, <1>2, <1>3, <1>4 DEF Attentive, Sole

(* A call of a hot switch in flight: the switch stays what it is.            *)
LEMMA SwitchGoesOn ==
  ASSUME Typed, Attentive, HotAlive, SameSwitch(hot), hot'.pc # "idle",
         front' = front \/ front' \in Node, UNCHANGED <<hotGen, hotPending>>, queueUntouched,
         UNCHANGED <<desired, tunSetting, proxySetting, committed, target, connected, session>>
  PROVE  Attentive'
<1>1. HotAlive' /\ hot'.node = hot.node /\ hot'.hgen = hot.hgen
  BY DEF HotAlive, SameSwitch, queueUntouched
<1>2. ConnectedRuns' BY ConnectionAssumption DEF Attentive, ConnectedRuns
<1>3. Heard'
  BY <1>1 DEF Attentive, Heard, Taken, Needs, NeedsWith, Sig, SigOf, Target, TargetOf, Active,
    queueUntouched
<1>4. ~Active /\ ~Active' /\ run' = run /\ run.act \notin Prestops /\ run.act # "prestop_dns"
  BY DEF Attentive, Sole, Active, queueUntouched, Prestops
<1>5. Timer' /\ Sole' /\ Clear' BY <1>1, <1>4 DEF Attentive, Timer, Sole, Clear, queueUntouched
<1>6. Restarted' /\ Meant' /\ Stopping' BY <1>4 DEF Restarted, Meant, Stopping
<1> QED BY <1>2, <1>3, <1>5, <1>6 DEF Attentive

(* A hot switch that succeeds leaves nothing to do.                          *)
LEMMA HotDoneAttends == ASSUME Typed, Attentive, HotDone PROVE Attentive'
<1>0. /\ hot.ok /\ HotCurrent /\ hot.pc # "idle" /\ hot.node \in Node /\ hot.tun \in BOOLEAN
  BY NoHotDoes DEF HotDone, Typed, TypeOK, HotBegun, HotRecord
<1>1. HotAlive /\ connected BY <1>0 DEF HotCurrent, HotAlive
<1>2. ~Active /\ ~scheduled /\ wait.gen = 0 /\ target = hot.node /\ desired /\ ~hotPending
  BY <1>1 DEF Attentive, Sole
<1>3. /\ hot' = NoHot /\ hotPending' = FALSE /\ queueUntouched
      /\ UNCHANGED <<desired, tunSetting, proxySetting, connected, front>>
  BY <1>2 DEF HotDone, EndHot, hotFrame, settingVars
<1>4. committed' = hot.node /\ target' = None
  BY <1>2 DEF HotDone, Mismatch, Commit
<1>5. session' # None /\ session'.sig = Sig(hot.node)
  <2>1. session' = Capture(hot.node, hot.tun) BY DEF HotDone
  <2> QED BY <1>0, <2>1, CaptureIsSession DEF Capture
<1>6. ~Needs'
  BY <1>1, <1>2, <1>3, <1>4, <1>5 DEF Needs, NeedsWith, Sig, SigOf, Target, TargetOf
<1>7. ~HotAlive' BY <1>3, NoHotDoes DEF HotAlive
<1>8. ~Active' /\ ~scheduled' /\ run' = run BY <1>2, <1>3 DEF Active, queueUntouched
<1> QED BY <1>2, <1>3, <1>4, <1>6, <1>7, <1>8
  DEF Attentive, ConnectedRuns, Heard, Timer, Sole, Clear, Restarted, Meant, Stopping, Active, Prestops

LEMMA HotAttends ==
  ASSUME Typed, Gate, HotWanted, Attentive, HotStep PROVE Attentive'
<1>0. UNCHANGED <<desired, tunSetting, proxySetting, connected>>
  BY DEF HotStep, HotStale, HotVerified, HotFailed, HotRelay, HotRestore, HotDone, hotFrame,
    settingVars
<1>1. ASSUME hot' = NoHot, hotPending' = FALSE, Request(FALSE), front' = front, UNCHANGED selectionVars
      PROVE  Attentive'
  <2>1. committed' \in Node /\ target' \in MaybeNode BY <1>1, TypesNow DEF selectionVars
  <2> QED BY <1>0, <1>1, <2>1, RequestAttends
<1>2. ASSUME HotCurrent, hot.pc # "idle" PROVE HotAlive BY <1>2 DEF HotCurrent, HotAlive
<1>3. ASSUME hot.pc # "idle" PROVE hot \in HotRecord /\ hot.node \in Node /\ hot.prev \in Node
  BY <1>3 DEF Typed, TypeOK, HotBegun
<1>4. \A n \in Node : CoreSelects(n) => front' = front \/ front' \in Node
  BY DEF CoreSelects
<1>5. CASE HotStale
  <2>1. ~hotPending BY DEF Attentive
  <2>2. /\ hot' = NoHot /\ hotPending' = FALSE /\ hotGen' = hotGen /\ front' = front
        /\ queueUntouched /\ UNCHANGED <<session, selectionVars>>
    BY <1>5, <2>1 DEF HotStale, EndHot
  <2>3. ~HotAlive \/ ~connected
    BY <1>5 DEF HotStale, HotCurrent, HotAlive, Attentive, Sole
  <2> QED BY <1>0, <2>2, <2>3, SwitchOver DEF queueUntouched, selectionVars
<1>6. CASE HotVerified
  <2>1. HotCurrent /\ hot.pc # "idle" /\ UNCHANGED <<session, selectionVars>>
    BY <1>6 DEF HotVerified
  <2>2. CASE CallCore(hot) /\ UNCHANGED <<hotGen, hotPending>> /\ queueUntouched
    <3>1. SameSwitch(hot) /\ hot'.pc # "idle" BY <1>3, <2>1, <2>2, CallCoreDoes
    <3>2. front' = front \/ front' \in Node BY <1>3, <1>4, <2>1, <2>2, CallCoreDoes
    <3> QED BY <1>0, <1>2, <2>1, <2>2, <3>1, <3>2, SwitchGoesOn DEF selectionVars
  <2>3. CASE hot' = NoHot /\ hotPending' = FALSE /\ Request(FALSE) /\ front' = front
    BY <1>1, <2>1, <2>3
  <2> QED BY <1>6, <2>2, <2>3 DEF HotVerified
<1>7. CASE HotFailed BY <1>1, <1>7 DEF HotFailed
<1>8. CASE HotRelay
  <2>1. HotCurrent /\ hot.pc # "idle" /\ UNCHANGED <<session, selectionVars, hotGen, hotPending, front>>
        /\ queueUntouched
    BY <1>8 DEF HotRelay
  <2>2. SameSwitch(hot) /\ hot'.pc # "idle"
    BY <1>3, <1>8, <2>1, HotMoves, HotGoes DEF HotRelay, HotPcs
  <2> QED BY <1>0, <1>2, <2>1, <2>2, SwitchGoesOn DEF selectionVars
<1>9. CASE HotRestore
  <2>1. HotCurrent /\ hot.pc # "idle" /\ UNCHANGED <<session, selectionVars, hotGen, hotPending>>
        /\ queueUntouched /\ CoreSelects(hot.prev)
    BY <1>9 DEF HotRestore
  <2>2. SameSwitch(hot) /\ hot'.pc # "idle"
    BY <1>3, <1>9, <2>1, HotGoes DEF HotRestore, HotPcs
  <2> QED BY <1>0, <1>2, <1>3, <1>4, <2>1, <2>2, SwitchGoesOn DEF selectionVars
<1> QED BY <1>5, <1>6, <1>7, <1>8, <1>9, HotDoneAttends DEF HotStep

-----------------------------------------------------------------------------
(* While a transition runs, it is what takes the work up.                    *)
LEMMA SegmentRuns == ASSUME Typed, ConnectedRuns, Segment PROVE ConnectedRuns'
<1>1. CASE StopFront \/ FrontAborted
  BY <1>1, FrontEndsDoes DEF StopFront, FrontAborted, ConnectedRuns
<1>2. CASE StopSides \/ SwapOld \/ SwapExit \/ ReconnectExit
  <2>1. /\ front' = front
        /\ connected' = connected \/ \E sd : connected' = ConnectedWith(front, sd, session)
    BY <1>2 DEF StopSides, SwapOld, SwapExit, ReconnectExit, processVars
  <2> QED BY <2>1 DEF ConnectedWith, ConnectedRuns
<1>3. CASE FrontUp BY <1>3 DEF FrontUp, ConnectedWith, ConnectedRuns
<1>4. CASE RolledBack BY <1>4 DEF RolledBack, ConnectedWith, ConnectedRuns
<1>5. CASE SwapStop \/ Unexpected BY <1>5 DEF SwapStop, Unexpected, DisconnectAll, ConnectedRuns
<1>6. CASE AfterStartSwapBack \/ SwapCapture \/ SwapStopped
  <2>1. (front' = None /\ connected' = FALSE) \/ UNCHANGED <<front, connected>>
    BY <1>6 DEF AfterStartSwapBack, SwapCapture, SwapStopped, FallBack
  <2> QED BY <2>1 DEF ConnectedRuns
<1>7. CASE ~(\/ StopFront \/ FrontAborted \/ StopSides \/ SwapOld \/ SwapExit \/ ReconnectExit
             \/ FrontUp \/ RolledBack \/ SwapStop \/ Unexpected
             \/ AfterStartSwapBack \/ SwapCapture \/ SwapStopped)
  <2>1. UNCHANGED <<front, connected>>
    BY <1>7, Zenon DEF Segment, sessionVars, processVars,
       BeginStop, BeginConnect, BeginProxyUpdate, BeginSwap,
       Connect, ProxyReleased, PlanFails, StartPlan, SidecarUp,
       SidecarFails, FrontGivenUp, FrontFails, Pinned,
       PinFails, AfterStartConnect, AfterStartSwap,
       ProxyDone, ProxyFails, Ready, SwapAmnezia,
       SwapCommit, CandidateUp, CandidateFails, RollbackFails
  <2> QED BY <2>1 DEF ConnectedRuns
<1> QED BY <1>1, <1>2, <1>3, <1>4, <1>5, <1>6, <1>7

(* The stop before a new rule has three segments.                            *)
LEMMA PrestopSegments ==
  ASSUME Segment, Stopping, run.act \in Prestops PROVE BeginStop \/ StopFront \/ StopSides
<1>1. ~(BeginConnect \/ BeginProxyUpdate \/ BeginSwap)
  BY DEF BeginConnect, BeginProxyUpdate, BeginSwap, Swaps, Prestops
<1>2. run.pc \in {"begin", "stop", "stop_sides", "finish"} BY DEF Stopping
<1>3. ~(\/ Connect \/ ProxyReleased \/ PlanFails \/ StartPlan
        \/ SidecarUp \/ SidecarFails \/ FrontUp \/ FrontGivenUp \/ FrontFails
        \/ Pinned \/ PinFails \/ FrontAborted
        \/ AfterStartConnect \/ AfterStartSwapBack \/ AfterStartSwap \/ SwapOld)
  BY <1>2 DEF At,
       Connect, ProxyReleased, PlanFails, StartPlan, SidecarUp,
       SidecarFails, FrontUp, FrontGivenUp, FrontFails, Pinned,
       PinFails, FrontAborted, AfterStartConnect, AfterStartSwapBack, AfterStartSwap, SwapOld
<1>4. ~(\/ ProxyDone \/ ProxyFails \/ Ready \/ SwapCapture \/ SwapAmnezia \/ SwapCommit
        \/ CandidateUp \/ CandidateFails \/ SwapStop \/ SwapStopped
        \/ RolledBack \/ RollbackFails \/ Unexpected \/ SwapExit \/ ReconnectExit)
  BY <1>2 DEF At,
       ProxyDone, ProxyFails, Ready, SwapCapture, SwapAmnezia, SwapCommit,
       CandidateUp, CandidateFails, SwapStop, SwapStopped,
       RolledBack, RollbackFails, Unexpected, SwapExit, ReconnectExit
<1> QED BY <1>1, <1>3, <1>4 DEF Segment

LEMMA PrestopStops ==
  ASSUME Typed, Attentive, Segment PROVE Meant' /\ Stopping'
<1>0. /\ run'.act = run.act /\ run'.gen = run.gen /\ gen' = gen /\ ConnectedRuns
  BY SegmentFrame DEF stepFrame, queueVars, Attentive
<1>1. CASE run.act \notin Prestops BY <1>0, <1>1 DEF Meant, Stopping, Prestops
<1>2. CASE run.act \in Prestops
  <2>1. BeginStop \/ StopFront \/ StopSides BY <1>2, PrestopSegments DEF Attentive
  <2>2. run'.node = run.node /\ UNCHANGED <<committed, target>>
    BY <2>1, BeginStopMoves, StopFrontMoves, StopSidesMoves
    DEF SameGoal, SameRun, BeginStop, StopFront, StopSides, selectionVars
  <2>3. Meant' BY <1>0, <2>2 DEF Attentive, Meant, Target, TargetOf
  <2>4. CASE BeginStop
    <3>1. run'.pc = "stop" BY <2>4, BeginStopMoves
    <3> QED BY <2>3, <3>1 DEF Stopping
  <2>5. CASE StopFront
    <3>1. run'.pc = "stop_sides" BY <2>5, StopFrontMoves
    <3>2. front' = None /\ connected' = FALSE BY <1>0, <2>5, FrontEndsDoes DEF StopFront
    <3> QED BY <2>3, <3>1, <3>2 DEF Stopping
  <2>6. CASE StopSides
    <3>1. run'.pc = "finish"
      BY <1>2, <2>6, StopSidesMoves DEF ExitTo, Swaps, Prestops
    <3>2. front = None BY <1>2, <2>6 DEF StopSides, At, Attentive, Stopping
    <3>3. front' = None /\ ~connected' BY <2>6, <3>2 DEF StopSides, ConnectedWith
    <3> QED BY <2>3, <3>1, <3>3 DEF Stopping
  <2> QED BY <2>1, <2>4, <2>5, <2>6
<1> QED BY <1>1, <1>2

LEMMA SegmentAttends == ASSUME Typed, Attentive, Segment PROVE Attentive'
<1>1. /\ Active /\ Active' /\ run'.gen = run.gen /\ (desired' => desired)
      /\ UNCHANGED <<gen, scheduled, blocked, hot, hotPending>>
  BY SegmentFrame, SegmentWithdraws DEF stepFrame, queueVars, hotVars, Active
<1>2. ~HotAlive' /\ ~scheduled' BY <1>1 DEF Attentive, Sole, Timer, HotAlive
<1> QED BY <1>1, <1>2, SegmentRuns, PrestopStops
  DEF Attentive, Heard, Taken, Timer, Sole, Clear, Restarted

-----------------------------------------------------------------------------
(* Whatever is wanted has an event that takes it up.                         *)
LEMMA AttentiveAtStart == ASSUME Init PROVE Attentive
<1>1. /\ run = NoRun /\ front = None /\ connected = FALSE /\ desired = FALSE /\ scheduled = FALSE
      /\ hot = NoHot /\ hotPending = FALSE
  BY Zenon DEF Init
<1> QED BY <1>1, NoRunDoes, NoHotDoes
  DEF Attentive, ConnectedRuns, Heard, Needs, NeedsWith, Timer, Sole, HotAlive, Clear, Restarted,
    Meant, Stopping, Active, Prestops

LEMMA AttentiveKept ==
  ASSUME Intended, Attentive, [Next]_vars, [Undisturbed]_vars PROVE Attentive'
<1>0. Typed /\ Gate /\ HotWanted BY DEF Intended, Wanted
<1>1. CASE UNCHANGED vars
  BY <1>1, AttentionStays
  DEF vars, settingVars, selectionVars, queueVars, sessionVars, processVars, hotVars, bypassVars
<1>2. CASE Undisturbed /\ User BY <1>0, <1>2, UserAttends
<1>3. CASE Undisturbed /\ Crash BY <1>0, <1>3, CrashAttends DEF Undisturbed
<1>4. CASE Segment BY <1>0, <1>4, SegmentAttends
<1>5. CASE Bypass BY <1>0, <1>5, LookupAttends, ZapAttends DEF Bypass, LookupStep
<1> QED BY <1>0, <1>1, <1>2, <1>3, <1>4, <1>5, DrainAttends, FinishAttends, PrestopAttends,
          HotAttends, StepsAreSegments
  DEF Next

(* Hysteria and AmneziaWG servers share no core, so no hot switch begins.    *)
LEMMA NeverHot == ASSUME Typed, NoPool, hot = NoHot, [Next]_vars PROVE hot' = NoHot
<1>1. ~HotStep BY NoHotDoes DEF HotStep, HotStale, HotVerified, HotFailed, HotRelay, HotRestore, HotDone
<1>2. CASE User
  <2>1. ASSUME NEW n \in Node, SelectServing(n) PROVE hot' = NoHot
    <3>1. ~Precheck(session, n)
      BY DEF Precheck, SamePool, NoPool, Typed, TypeOK, Session
    <3> QED BY <2>1, <3>1 DEF SelectServing, serverVars
  <2> QED BY <1>2, <2>1
    DEF User, Toggle, ChangeProxy, ChangeTun, SelectIdle, ApplySettings, serverVars
<1>3. CASE UNCHANGED vars \/ Bypass \/ Drain \/ Crash \/ FinishTransition \/ FinishPrestop
  BY <1>3, Zenon DEF vars, hotVars, Bypass, LookupStep, LookupObsolete, LookupFailed,
    LookupUnprotected, LookupProtected, ZapStarted, ZapGone, ZapTimeout, ZapLate, Drain,
    Crash, FrontCrash, XrayCrash, AmneziaCrash, crashFrame, FinishTransition, FinishPrestop
<1>4. CASE Segment BY <1>4, SegmentFrame DEF stepFrame, hotVars
<1> QED BY <1>1, <1>2, <1>3, <1>4, StepsAreSegments DEF Next

(* Where Zapret has nothing to do it never runs, and no tunnel is stopped.   *)
NeverRuled == zap = ZapOff /\ run.act \notin Prestops

LEMMA ZapIsOff ==
  ASSUME NoRule, zap = ZapOff
  PROVE  /\ zap.st = "off" /\ RuleDropped(zap) = zap /\ Released(zap) = zap
         /\ \A n : ~HasRule(zap, n) /\ ReadyFor(n)
<1>1. zap.st = "off" /\ zap.rule = None BY DEF ZapOff
<1> QED BY <1>1 DEF NoRule, RuleDropped, Released, HasRule, ReadyFor, ReadyWith

LEMMA KickRuns ==
  ASSUME NoRule, zap = ZapOff, NEW g \in Nat, NEW w \in WaitRecord, TargetAfter \in Node, Kick(g, w)
  PROVE  run' = NoRun
BY ZapIsOff, KickDoes, Zenon

LEMMA RequestRuns ==
  ASSUME Typed, NoRule, zap = ZapOff, NEW k, Request(k), committed' \in Node, target' \in MaybeNode
  PROVE  run' \in {run, NoRun}
<1>1. gen + 1 \in Nat /\ TargetAfter \in Node BY TargetAfterIsNode DEF Typed, TypeOK
<1> QED BY <1>1, NoWaitType, KickRuns DEF Request

LEMMA NeverRuledKept ==
  ASSUME Typed, NoPool, NoRule, hot = NoHot, NeverRuled, [Next]_vars PROVE NeverRuled'
<1>0. /\ zap = ZapOff /\ run.act \notin Prestops /\ zap.st = "off"
      /\ committed' \in Node /\ target' \in MaybeNode
  BY ZapIsOff, TypesKept DEF NeverRuled, Typed, TypeOK
<1>1. ASSUME zap' = zap, run' \in {run, NoRun} PROVE NeverRuled'
  BY <1>0, <1>1, NoPrestop DEF NeverRuled
<1>2. CASE UNCHANGED vars \/ Crash
  BY <1>1, <1>2 DEF vars, bypassVars, Crash, FrontCrash, XrayCrash, AmneziaCrash, crashFrame
<1>3. CASE User
  <2>1. zap' = zap /\ (run' = run \/ Request(FALSE))
    BY <1>3, Zenon DEF User, Toggle, ChangeProxy, ChangeTun, SelectServing, SelectIdle, ApplySettings,
      userFrame
  <2> QED BY <1>0, <1>1, <2>1, RequestRuns
<1>4. CASE Bypass
  <2>1. ~(ZapStarted \/ ZapGone \/ ZapTimeout \/ ZapLate) /\ \A m : ~LookupProtected(m)
    BY <1>0, ZapIsOff DEF ZapStarted, ZapGone, ZapTimeout, ZapLate, LookupProtected
  <2>2. zap' = zap /\ run' = run
    BY <1>0, <1>4, <2>1, ZapIsOff
    DEF Bypass, LookupStep, LookupObsolete, LookupFailed, LookupUnprotected, CancelTarget
  <2> QED BY <1>1, <2>2
<1>5. CASE Drain
  <2>1. zap' = zap BY <1>5 DEF Drain, bypassVars
  <2>2. ASSUME NEW a \in Acts \ Prestops, StartRun(a) PROVE NeverRuled'
    <3>1. run'.act = a BY <2>2, SMT DEF StartRun, NewRun, NoRun
    <3> QED BY <1>0, <2>1, <2>2, <3>1 DEF NeverRuled
  <2>3. "cleanup" \in Acts \ Prestops BY DEF Acts, Prestops
  <2> QED BY <1>1, <1>5, <2>1, <2>2, <2>3, ActionIsAct DEF Drain
<1>6. CASE FinishTransition
  <2>1. gen \in Nat /\ wait \in WaitRecord /\ TargetAfter \in Node
    BY <1>0, TargetAfterIsNode DEF Typed, TypeOK
  <2>2. zap' = zap /\ run' = NoRun
    BY <1>0, <1>6, <2>1, ZapIsOff, KickRuns DEF FinishTransition, GoOn
  <2> QED BY <1>1, <2>2
<1>7. ~FinishPrestop BY <1>0 DEF FinishPrestop
<1>8. ~HotStep BY NoHotDoes DEF HotStep, HotStale, HotVerified, HotFailed, HotRelay, HotRestore, HotDone
<1>9. CASE Segment BY <1>0, <1>9, SegmentFrame DEF stepFrame, bypassVars, NeverRuled
<1> QED BY <1>2, <1>3, <1>4, <1>5, <1>6, <1>7, <1>8, <1>9, StepsAreSegments DEF Next

(* A list without pools and without work for Zapret.                         *)
Plainly == Typed /\ Housed /\ hot = NoHot /\ NeverRuled

LEMMA PlainlyAtStart == ASSUME Init, NoRule PROVE Plainly
<1>1. /\ side = NoSides /\ hot = NoHot /\ run = NoRun
      /\ zap = IF SitesOn THEN [rule |-> None, st |-> "on"] ELSE ZapOff
  BY Zenon DEF Init
<1> QED BY <1>1, TypesAtStart, NoPrestop DEF Plainly, Housed, NoSides, NeverRuled, NoRule

LEMMA PlainlyKept ==
  ASSUME NoPool, NoRule, Plainly, [Next]_vars PROVE Plainly' /\ Undisturbed
<1>1. Plainly' BY TypesKept, HousedKept, NeverHot, NeverRuledKept DEF Plainly
<1>2. ~XrayCrash
  <2>1. "hybrid" \in SideKinds /\ side["hybrid"] \in MaybeNode BY DEF SideKinds, Plainly, Typed, TypeOK
  <2>2. side["hybrid"] = None
    BY <2>1 DEF Plainly, Housed, NoPool, Pooled, MaybeNode
  <2> QED BY <2>2 DEF XrayCrash
<1> QED BY <1>1, <1>2 DEF Plainly, NeverRuled, Undisturbed

(* The coordinator never rests with work left.  With nothing in flight and   *)
(* no timer running, a wanted connection is up for the server and settings   *)
(* asked for, or that configuration has failed, and an unwanted one is down: *)
(* for any number of Hysteria and AmneziaWG servers that Zapret leaves alone,*)
(* and every order of clicks, failures, crashes and answers                  *)
(* (_schedule_transition_drain, _kick_transition, all that call them).       *)
THEOREM NothingIsForgotten == ASSUME NoPool, NoRule PROVE Spec => []NothingForgotten
<1>1. Init => Intended /\ Attentive /\ Plainly BY IntendedAtStart, AttentiveAtStart, PlainlyAtStart
<1>2. Intended /\ Attentive /\ Plainly /\ [Next]_vars => (Intended /\ Attentive /\ Plainly)'
  BY IntendedKept, AttentiveKept, PlainlyKept
<1>3. Intended /\ Attentive => NothingForgotten
  BY NoHotDoes DEF Intended, Gate, Attentive, Heard, Taken, HotAlive, NothingForgotten, Quiet
<1> QED BY <1>1, <1>2, <1>3, PTL DEF Spec

-----------------------------------------------------------------------------
(* The selection moves with the session.  A session is of the server its     *)
(* signature names, and a replacement that has captured its session, and     *)
(* waits for the old AmneziaWG core, commits the server of that session.     *)
Named    == session # None => session.sig.node = session.node
Captured == run.pc \in {"swap_amnezia", "commit"} /\ session # None => session.node = run.node
Faithful == Named /\ Captured

Follows == Serves /\ committed' # committed => session' # None /\ committed' = session'.node

(* A hot switch to another server that is accepted meanwhile would put its   *)
(* own session under the commit of the replacement.                          *)
SwitchesApart == ~(HotDone /\ run.pc = "swap_amnezia" /\ hot.node # run.node)

LEMMA CaptureNames ==
  ASSUME Typed, NEW n \in Node, NEW t \in BOOLEAN, session' = Capture(n, t)
  PROVE  session' # None /\ session'.node = n /\ Named'
<1>1. session' # None BY CaptureIsSession
<1>2. session'.node = n /\ session'.sig.node = n BY DEF Capture, Sig, SigOf
<1> QED BY <1>1, <1>2 DEF Named

(* Only the capture of a replacement, and the end of the old AmneziaWG core, *)
(* lead to the commit.                                                       *)
LEMMA CommitPlaces ==
  ASSUME Typed, Segment, run'.pc \in {"swap_amnezia", "commit"} PROVE SwapCapture \/ SwapAmnezia
<1>1. ~(BeginStop \/ BeginConnect \/ BeginProxyUpdate \/ BeginSwap \/ StopFront \/ StopSides)
  BY BeginStopMoves, BeginConnectMoves, BeginProxyUpdateMoves, BeginSwapMoves, StopFrontMoves,
    StopSidesMoves, ExitPlace
<1>2. ~(Connect \/ ProxyReleased \/ PlanFails \/ StartPlan \/ SidecarUp \/ SidecarFails \/ FrontUp)
  BY ConnectMoves, ProxyReleasedMoves, PlanFailsMoves, StartPlanMoves, SidecarUpMoves,
    SidecarFailsMoves, FrontUpMoves, ExitPlace
<1>3. ~(FrontGivenUp \/ FrontFails \/ Pinned \/ PinFails \/ FrontAborted \/ AfterStartConnect)
  BY FrontGivenUpMoves, FrontFailsMoves, PinnedMoves, PinFailsMoves, FrontAbortedMoves,
    AfterStartConnectMoves, ExitPlace DEF FrontFails, At
<1>4. ~(AfterStartSwapBack \/ AfterStartSwap \/ SwapOld \/ ProxyDone \/ ProxyFails \/ Ready)
  BY AfterStartSwapBackMoves, AfterStartSwapMoves, SwapOldMoves, ProxyDoneMoves, ProxyFailsMoves,
    ReadyMoves, ExitPlace
<1>5. ~(SwapCommit \/ CandidateUp \/ CandidateFails \/ SwapStop \/ SwapStopped)
  BY SwapCommitMoves, CandidateUpMoves, CandidateFailsMoves, SwapStopMoves, SwapStoppedMoves, ExitPlace
<1>6. ~(RolledBack \/ RollbackFails \/ Unexpected \/ SwapExit \/ ReconnectExit)
  BY RolledBackMoves, RollbackFailsMoves, UnexpectedMoves, SwapExitMoves, ReconnectExitMoves, ExitPlace
<1> QED BY <1>1, <1>2, <1>3, <1>4, <1>5, <1>6, Zenon DEF Segment

(* What a segment does to the session, and when it moves the selection.      *)
LEMMA SegmentCaptures ==
  ASSUME Typed, Segment
  PROVE  \/ session' \in {session, None}
         \/ ProxyDone /\ session' = Capture(committed, FALSE)
         \/ (Ready \/ SwapCapture) /\ ~Stale /\ session' = Capture(run.node, run.tun)
<1>1. CASE StopFront \/ FrontAborted \/ Unexpected
  <2>1. \A f, sd : CoreDown(f, sd) => session' \in {session, None}
    BY DEF CoreDown, DisconnectAll
  <2>2. \A sd : FrontEnds(sd) => session' \in {session, None}
    BY <2>1 DEF FrontEnds, sessionVars
  <2> QED BY <1>1, <2>2 DEF StopFront, FrontAborted, Unexpected, DisconnectAll
<1>2. CASE StopSides BY <1>2 DEF StopSides
<1>3. CASE ProxyDone BY <1>3 DEF ProxyDone
<1>4. CASE Ready BY <1>4 DEF Ready
<1>5. CASE SwapCapture BY <1>5 DEF SwapCapture
<1>6. CASE ~(StopFront \/ FrontAborted \/ Unexpected \/ StopSides \/ ProxyDone \/ Ready \/ SwapCapture)
  <2>1. UNCHANGED session
    BY <1>6, Zenon DEF Segment, sessionVars,
       BeginStop, BeginConnect, BeginProxyUpdate, BeginSwap,
       Connect, ProxyReleased, PlanFails, StartPlan, SidecarUp,
       SidecarFails, FrontUp, FrontGivenUp, FrontFails, Pinned,
       PinFails, AfterStartConnect, AfterStartSwapBack, AfterStartSwap, SwapOld,
       ProxyFails, SwapAmnezia,
       SwapCommit, CandidateUp, CandidateFails, SwapStop, SwapStopped,
       RolledBack, RollbackFails, SwapExit, ReconnectExit
  <2> QED BY <2>1
<1> QED BY <1>1, <1>2, <1>3, <1>4, <1>5, <1>6

LEMMA SegmentSelects ==
  ASSUME Typed, Segment
  PROVE  \/ UNCHANGED selectionVars
         \/ ((Ready /\ ~Stale) \/ SwapCommit) /\ Commit(run.node)
         \/ SwapExit /\ Settle(connected)
<1>1. CASE Ready BY <1>1 DEF Ready
<1>2. CASE SwapCommit BY <1>2 DEF SwapCommit
<1>3. CASE SwapExit BY <1>3 DEF SwapExit
<1>4. CASE ~(Ready \/ SwapCommit \/ SwapExit)
  <2>1. UNCHANGED selectionVars
    BY <1>4, Zenon DEF Segment, selectionVars,
       BeginStop, BeginConnect, BeginProxyUpdate, BeginSwap, StopFront, StopSides,
       Connect, ProxyReleased, PlanFails, StartPlan, SidecarUp,
       SidecarFails, FrontUp, FrontGivenUp, FrontFails, Pinned,
       PinFails, FrontAborted, AfterStartConnect, AfterStartSwapBack, AfterStartSwap, SwapOld,
       ProxyDone, ProxyFails, SwapCapture, SwapAmnezia,
       CandidateUp, CandidateFails, SwapStop, SwapStopped,
       RolledBack, RollbackFails, Unexpected, ReconnectExit
  <2> QED BY <2>1
<1> QED BY <1>1, <1>2, <1>3, <1>4

LEMMA SegmentFollows ==
  ASSUME Typed, Faithful, Segment PROVE Faithful' /\ Follows
<1>1. /\ Ready \/ SwapCapture \/ SwapAmnezia \/ SwapCommit => run.node \in Node
      /\ committed \in Node /\ run.tun \in BOOLEAN /\ FALSE \in BOOLEAN
  BY DEF Typed, TypeOK, RunRecord, RunBegun, Manned, Ready, SwapCapture, SwapAmnezia, SwapCommit, At
<1>2. Named'
  BY <1>1, SegmentCaptures, CaptureNames DEF Faithful, Named
<1>3. Captured'
  <2>1. CASE SwapCapture /\ run'.pc = "swap_amnezia"
    <3>1. run'.node = run.node /\ session' = Capture(run.node, run.tun)
      BY <2>1, SwapCaptureMoves DEF SameGoal
    <3> QED BY <1>1, <2>1, <3>1, CaptureNames DEF Captured
  <2>2. CASE SwapCapture /\ run'.pc # "swap_amnezia"
    <3>1. run'.pc \in {"rollback", "unexpected"} BY <2>2, SwapCaptureMoves
    <3> QED BY <3>1 DEF Captured
  <2>3. CASE SwapAmnezia
    <3>1. run.pc = "swap_amnezia" /\ session' = session /\ run'.node = run.node
      BY <2>3, SwapAmneziaMoves DEF SwapAmnezia, At, SameRun, sessionVars
    <3> QED BY <3>1 DEF Faithful, Captured
  <2> QED BY <2>1, <2>2, <2>3, CommitPlaces DEF Captured
<1>4. Follows
  <2>1. CASE UNCHANGED selectionVars BY <2>1 DEF Follows, selectionVars
  <2>2. CASE Ready /\ Commit(run.node)
    <3>1. CASE session' = Capture(run.node, run.tun)
      BY <1>1, <2>2, <3>1, CaptureNames DEF Follows, Commit
    <3>2. CASE UNCHANGED selectionVars BY <3>2 DEF Follows, selectionVars
    <3> QED BY <2>2, <3>1, <3>2, ReadyMoves
  <2>3. CASE SwapCommit /\ Commit(run.node)
    <3>1. run.pc = "commit" /\ session' = session BY <2>3 DEF SwapCommit, At
    <3> QED BY <2>3, <3>1 DEF Faithful, Captured, Follows, Serves, Commit
  <2>4. CASE Settle(connected) BY <2>4 DEF Follows, Serves, Settle
  <2> QED BY <2>1, <2>2, <2>3, <2>4, SegmentSelects
<1> QED BY <1>2, <1>3, <1>4 DEF Faithful

-----------------------------------------------------------------------------
(* The other steps leave the transition where it is, or start one.           *)
Elsewhere == run'.pc \notin {"swap_amnezia", "commit"}

LEMMA SameSession ==
  ASSUME Faithful, session' \in {session, None}, run' = run \/ Elsewhere PROVE Faithful'
BY DEF Faithful, Named, Captured, Elsewhere

LEMMA WaitsElsewhere == ASSUME RunWaits PROVE run' = run \/ Elsewhere
BY DEF RunWaits, Idle, Elsewhere

LEMMA UserFollows == ASSUME Typed, Faithful, User PROVE Faithful' /\ Follows
<1>1. session' = session
  BY Zenon DEF User, Toggle, ChangeProxy, ChangeTun, SelectServing, SelectIdle, ApplySettings,
    userFrame, sessionVars
<1>2. Follows
  <2>1. ASSUME NEW n \in Node, SelectIdle(n) PROVE Follows BY <2>1 DEF SelectIdle, Follows, Serving, Serves
  <2>2. ASSUME NEW n \in Node, SelectServing(n) PROVE Follows
    BY <2>2 DEF SelectServing, RequestServing, Follows
  <2>3. CASE Toggle BY <2>3 DEF Toggle, Drop, selectionVars, Follows
  <2>4. CASE ChangeProxy \/ ChangeTun
    BY <2>4 DEF ChangeProxy, ChangeTun, ApplySettings, selectionVars, Follows
  <2> QED BY <2>1, <2>2, <2>3, <2>4 DEF User
<1>3. RunWaits
  <2>1. /\ committed' \in Node /\ target' \in MaybeNode
    BY TypesKept DEF Next, Typed, TypeOK
  <2>2. run' = run \/ Request(FALSE)
    BY Zenon DEF User, Toggle, ChangeProxy, ChangeTun, SelectServing, SelectIdle, ApplySettings
  <2> QED BY <2>1, <2>2, RequestWaits DEF RunWaits
<1> QED BY <1>1, <1>2, <1>3, WaitsElsewhere, SameSession

LEMMA BypassFollows == ASSUME Typed, Gate, Faithful, Bypass PROVE Faithful' /\ Follows
<1>1. session' = session
  BY Zenon DEF Bypass, LookupStep, LookupObsolete, LookupFailed, LookupUnprotected,
    LookupProtected, ZapStarted, ZapGone, ZapTimeout, ZapLate, sessionVars
<1>2. Follows
  <2>1. CASE LookupFailed
    BY <2>1 DEF LookupFailed, CancelTarget, Settle, selectionVars, Follows, Serves
  <2>2. CASE Bypass /\ ~LookupFailed
    <3>1. committed' = committed
      BY <2>2, Zenon DEF Bypass, LookupStep, LookupObsolete, LookupUnprotected,
        LookupProtected, ZapStarted, ZapGone, ZapTimeout, ZapLate, selectionVars
    <3> QED BY <3>1 DEF Follows
  <2> QED BY <2>1, <2>2
<1>3. RunWaits BY BypassWaits
<1> QED BY <1>1, <1>2, <1>3, WaitsElsewhere, SameSession

LEMMA CrashFollows == ASSUME Typed, Faithful, Crash PROVE Faithful' /\ Follows
<1>1. \A f, sd : CoreDown(f, sd) => session' \in {session, None}
  BY DEF CoreDown, DisconnectAll
<1>2. session' \in {session, None}
  BY <1>1 DEF Crash, FrontCrash, XrayCrash, AmneziaCrash
<1>3. run' = run /\ committed' = committed
  BY DEF Crash, FrontCrash, XrayCrash, AmneziaCrash, crashFrame, selectionVars
<1> QED BY <1>2, <1>3, SameSession DEF Follows

(* The queue commits a choice that the session serves already.               *)
LEMMA DrainFollows == ASSUME Typed, Faithful, Drain PROVE Faithful' /\ Follows
<1>1. session' = session BY DEF Drain, sessionVars
<1>2. run' = run \/ Elsewhere
  <2>1. ASSUME NEW a, StartRun(a) PROVE Elsewhere
    <3>1. run'.pc = "begin" BY <2>1, SMT DEF StartRun, NewRun, NoRun
    <3> QED BY <3>1 DEF Elsewhere
  <2> QED BY <2>1 DEF Drain
<1>3. Follows
  <2>1. CASE UNCHANGED selectionVars BY <2>1 DEF Follows, selectionVars
  <2>2. CASE ResolveIdle
    <3>1. CASE Settle(connected) BY <3>1 DEF Follows, Serves, Settle
    <3>2. CASE session # None /\ session.sig = Sig(target) /\ Commit(target)
      <4>1. session.sig.node = target BY <3>2 DEF Sig, SigOf
      <4> QED BY <1>1, <3>2, <4>1 DEF Faithful, Named, Follows, Commit
    <3> QED BY <2>2, <3>1, <3>2 DEF ResolveIdle
  <2> QED BY <2>1, <2>2 DEF Drain
<1> QED BY <1>1, <1>2, <1>3, SameSession

LEMMA FinishFollows ==
  ASSUME Typed, Faithful, FinishTransition \/ FinishPrestop PROVE Faithful' /\ Follows
<1>1. session' \in {session, None} BY DEF FinishTransition, FinishPrestop, sessionVars
<1>2. Elsewhere BY FinishIdles DEF Idle, Elsewhere
<1>3. Follows
  BY DEF FinishTransition, FinishPrestop, Settle, selectionVars, Follows, Serves
<1> QED BY <1>1, <1>2, <1>3, SameSession

(* A hot switch that is accepted commits the server of its session.          *)
LEMMA HotFollows ==
  ASSUME Typed, Faithful, HotStep, SwitchesApart PROVE Faithful' /\ Follows
<1>1. committed' \in Node /\ target' \in MaybeNode /\ session' \in Session \cup {None}
  BY HotStepTyped DEF Typed, TypeOK
<1>2. \A s \in Session \cup {None} : EndHot(s) => run' = run \/ Elsewhere
  <2>1. ASSUME NEW s \in Session \cup {None}, EndHot(s) PROVE run' = run \/ Elsewhere
    <3>1. CASE queueUntouched BY <3>1 DEF queueUntouched
    <3>2. CASE Request(FALSE) BY <1>1, <3>2, RequestWaits, WaitsElsewhere
    <3> QED BY <2>1, <3>1, <3>2 DEF EndHot, Dispatch
  <2> QED BY <2>1
<1>3. CASE HotDone
  <2>1. hot.pc # "idle" /\ hot.node \in Node /\ hot.tun \in BOOLEAN
    BY <1>3 DEF HotDone, Typed, TypeOK, HotBegun, HotRecord
  <2>2. session' # None /\ session'.node = hot.node /\ Named'
    BY <1>3, <2>1, CaptureNames DEF HotDone
  <2>3. Follows BY <1>3, <2>2 DEF HotDone, Commit, selectionVars, Follows
  <2>4. run.pc \in {"swap_amnezia", "commit"} => hot.node = run.node
    BY <1>3 DEF HotDone, GuiFree, Inline, SwitchesApart
  <2>5. run' = run \/ Elsewhere BY <1>1, <1>2, <1>3 DEF HotDone
  <2> QED BY <2>2, <2>3, <2>4, <2>5 DEF Faithful, Captured, Elsewhere
<1>4. CASE HotStale \/ HotVerified \/ HotFailed \/ HotRelay \/ HotRestore
  <2>1. session' = session /\ committed' = committed
    BY <1>4, Zenon DEF HotStale, HotVerified, HotFailed, HotRelay, HotRestore, selectionVars
  <2>2. run' = run \/ Request(FALSE) \/ EndHot(session)
    BY <1>4, Zenon DEF HotStale, HotVerified, HotFailed, HotRelay, HotRestore, queueUntouched
  <2>3. run' = run \/ Elsewhere
    BY <1>1, <1>2, <2>1, <2>2, RequestWaits, WaitsElsewhere
  <2> QED BY <2>1, <2>3, SameSession DEF Follows
<1> QED BY <1>3, <1>4 DEF HotStep

LEMMA StepFollows ==
  ASSUME Typed, Gate, Faithful, [Next]_vars, [SwitchesApart]_vars
  PROVE  Faithful' /\ [Follows]_vars
<1>1. CASE UNCHANGED vars
  BY <1>1 DEF vars, sessionVars, Faithful, Named, Captured
<1>2. CASE HotStep
  <2>1. CASE SwitchesApart BY <1>2, <2>1, HotFollows
  <2> QED BY <1>1, <2>1
<1>3. CASE InlineStep \/ WaitStep BY <1>3, StepsAreSegments, SegmentFollows, FinishFollows
<1> QED BY <1>1, <1>2, <1>3, UserFollows, CrashFollows, DrainFollows, BypassFollows DEF Next

-----------------------------------------------------------------------------
(* A replacement never waits for an AmneziaWG core where there is none.      *)
Held == run.pc = "swap_amnezia" => run.now

LEMMA HeldKept ==
  ASSUME Typed, Gate, Housed, NoAmnezia, Held, [Next]_vars PROVE Held'
<1>0. side["amnezia"] = None
  <2>1. "amnezia" \in SideKinds /\ side["amnezia"] \in MaybeNode BY DEF SideKinds, Typed, TypeOK
  <2> QED BY <2>1 DEF Housed, NoAmnezia, MaybeNode
<1>1. ASSUME run' = run \/ Elsewhere PROVE Held' BY <1>1 DEF Held, Elsewhere
<1>2. CASE Segment
  <2>1. SwapCapture => Held' BY <1>0, SwapCaptureMoves DEF Held
  <2>2. SwapAmnezia => Held' BY SwapAmneziaMoves DEF Held
  <2> QED BY <1>2, <2>1, <2>2, CommitPlaces DEF Held
<1>3. CASE UNCHANGED vars \/ Crash
  BY <1>1, <1>3 DEF vars, Crash, FrontCrash, XrayCrash, AmneziaCrash, crashFrame
<1>4. CASE FinishTransition \/ FinishPrestop
  BY <1>1, <1>4, FinishIdles DEF Idle, Elsewhere
<1>5. CASE Bypass BY <1>1, <1>5, BypassWaits, WaitsElsewhere
<1>6. CASE Drain
  <2>1. ASSUME NEW a, StartRun(a) PROVE Elsewhere
    <3>1. run'.pc = "begin" BY <2>1, SMT DEF StartRun, NewRun, NoRun
    <3> QED BY <3>1 DEF Elsewhere
  <2> QED BY <1>1, <1>6, <2>1 DEF Drain
<1>7. CASE User
  <2>1. committed' \in Node /\ target' \in MaybeNode BY TypesKept DEF Typed, TypeOK
  <2>2. run' = run \/ Request(FALSE)
    BY <1>7, Zenon DEF User, Toggle, ChangeProxy, ChangeTun, SelectServing, SelectIdle, ApplySettings
  <2> QED BY <1>1, <2>1, <2>2, RequestWaits, WaitsElsewhere
<1>8. CASE HotStep
  <2>1. committed' \in Node /\ target' \in MaybeNode BY TypesKept DEF Typed, TypeOK
  <2>2. run' = run \/ Request(FALSE)
    BY <1>8, Zenon DEF HotStep, HotStale, HotVerified, HotFailed, HotRelay, HotRestore, HotDone, EndHot,
      Dispatch, queueUntouched
  <2> QED BY <1>1, <2>1, <2>2, RequestWaits, WaitsElsewhere
<1> QED BY <1>2, <1>3, <1>4, <1>5, <1>6, <1>7, <1>8, StepsAreSegments DEF Next

(* Nothing but a hot switch accepted in that wait puts the session apart.    *)
Parted == \/ NoPool /\ hot = NoHot
          \/ NoAmnezia /\ Held

LEMMA PartedApart == ASSUME Parted PROVE SwitchesApart
<1>1. hot = NoHot => ~HotDone BY NoHotDoes DEF HotDone
<1>2. HotDone => ~run.now BY DEF HotDone, GuiFree
<1> QED BY <1>1, <1>2 DEF Parted, Held, SwitchesApart

(* While a session serves, the saved selection moves only to the server of   *)
(* the session: no click, no failed transition and no end of a superseded    *)
(* one moves it (request, commit, drop and settle of ServerSelection, all    *)
(* that call them), hot switches and replacements of cores included, for any *)
(* list that does not mix AmneziaWG servers with servers that share a core.  *)
THEOREM SelectionFollowsSession ==
  ASSUME NoPool \/ NoAmnezia PROVE Spec => CommitOnlyServing
<1> DEFINE Inv == Intended /\ Faithful /\ Housed /\ Parted
<1>1. Init => Inv
  <2>1. ASSUME Init PROVE Faithful /\ Housed /\ Parted
    <3>1. session = None /\ run.pc = "idle" /\ hot = NoHot /\ side = NoSides
      BY <2>1, NoRunDoes DEF Init
    <3> QED BY <3>1 DEF Faithful, Named, Captured, Housed, NoSides, Parted, Held
  <2> QED BY <2>1, IntendedAtStart
<1>2. Inv /\ [Next]_vars => Inv' /\ [Follows]_vars
  <2>1. ASSUME Inv, [Next]_vars PROVE Inv' /\ [Follows]_vars
    <3>1. Typed /\ Gate BY <2>1 DEF Intended
    <3>2. SwitchesApart BY <2>1, PartedApart
    <3>3. Parted' BY <2>1, <3>1, NeverHot, HeldKept DEF Parted
    <3> QED BY <2>1, <3>1, <3>2, <3>3, IntendedKept, StepFollows, HousedKept
  <2> QED BY <2>1
<1>3. Spec => [][Follows]_vars
  <2> HIDE DEF Inv
  <2> QED BY <1>1, <1>2, PTL DEF Spec
<1> QED BY <1>3 DEF Follows, CommitOnlyServing
=============================================================================
