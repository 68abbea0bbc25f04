--------------------------- MODULE XrayPool_proofs ---------------------------
(* Theorems about the pool of the Xray core, for any set of servers, any     *)
(* number of tries and any failures: the chosen server serves, the user is   *)
(* told the truth, and starts that are refused converge.                     *)
EXTENDS XrayPool, FiniteSetTheorems, TLAPS

(* --- The inductive invariant ---------------------------------------------- *)

Launch ==
  [pc : Steps, chosen : Member \cup {Nobody}, conf : SUBSET Member, tags : SUBSET Member,
   tries : 0..Retries, held : BOOLEAN, single : BOOLEAN, stuck : BOOLEAN, ok : BOOLEAN]

PoolTypes ==
  /\ PoolTypeOK
  /\ launch \in Launch /\ errors \in Nat /\ fruitless \in Nat

Begun == launch.pc # "idle"

(* Once the core has read its configuration it takes all of it.              *)
Read == launch.pc \in {"listens", "up", "select"}

(* While a start is under way nothing is served, and it has not failed yet.  *)
Underway ==
  /\ Begun => launch.chosen \in Member /\ served = Closed /\ launch.ok
  /\ launch.pc \in {"stop", "ports"} /\ ~launch.single => launch.tries = 0 /\ launch.conf = launch.tags
  /\ launch.pc = "clear" => launch.single

(* The chosen server is in the configuration, unless the core refused it.    *)
ChosenIn ==
  /\ Begun => launch.chosen \in launch.conf \cup refused
  /\ launch.pc \in {"stop", "ports", "select", "clear"} => launch.chosen \in launch.conf
  /\ Begun /\ (alone \/ launch.single) => launch.conf \subseteq {launch.chosen}
  /\ Begun /\ launch.single => made[launch.chosen].takes /\ launch.conf = {launch.chosen}
  /\ Read => Refusable = {}

(* What the core did not refuse in this start is in its configuration.       *)
TagsIn ==
  /\ Begun /\ ~launch.single /\ launch.pc \notin {"over", "drop"} => launch.tags \subseteq launch.conf \cup refused
  /\ launch.pc = "select" /\ ~launch.single => launch.tags \subseteq launch.conf

(* A failure of the core is held back until it is told or made good.         *)
Held ==
  /\ launch.pc \in {"wait", "listens"} => IF xproc THEN ~xmgr.noted ELSE launch.held
  /\ launch.pc = "over" => launch.held \/ errors > 0
  /\ launch.pc = "drop" => errors > 0
  /\ launch.pc \notin {"idle", "over", "drop"} /\ ~launch.stuck => errors = 0

(* Every try of a start has cost one server, none of them banned before.     *)
Counted ==
  /\ launch.pc \in {"spawn", "wait", "listens", "up"} /\ ~launch.single =>
       /\ refused \cup launch.conf \subseteq launch.tags /\ refused \cap launch.conf = {}
       /\ Cardinality(refused) = launch.tries
  /\ launch.pc = "over" /\ ~launch.single /\ launch.tries = Retries /\ refused \cap launch.conf # {} =>
       Cardinality(refused \cap launch.tags) >= Retries + 1
  /\ Begun => \A m \in launch.tags \ {launch.chosen} : banned[m] = 0

(* Since the last replacement every ban is of the outbound there is.         *)
Current == Begun \/ fruitless > 0 => \A m \in Member : banned[m] \in {0, made[m].id}

Start   == Underway /\ ChosenIn /\ TagsIn /\ Held
Bans    == Counted /\ Current /\ Converges
PoolInv == PoolTypes /\ Start /\ ServesChosen /\ PoolLoaded /\ StoryTold /\ Bans

(* --- Facts used below ------------------------------------------------------ *)

BannedNow == {m \in Member : banned[m] # 0}

(* A set that is not empty counts one at least.                              *)
LEMMA OneAtLeast ==
  ASSUME NEW S \in SUBSET Member, S # {}
  PROVE  Cardinality(S) >= 1
BY PoolAssumption, FS_Subset, FS_CardinalityType, FS_EmptySet DEF PoolAssumption

(* The servers, those banned and those refused can be counted.               *)
LEMMA Countable ==
  ASSUME NEW S \in SUBSET Member
  PROVE  IsFiniteSet(S) /\ Cardinality(S) \in Nat
BY PoolAssumption, FS_Subset, FS_CardinalityType DEF PoolAssumption

(* While a start is under way nothing is served: what is promised of the     *)
(* server in use and of the end of a start holds.                            *)
LEMMA NothingServed ==
  ASSUME launch'.pc # "idle", served' = Closed
  PROVE  ServesChosen' /\ PoolLoaded' /\ StoryTold'
BY DEF ServesChosen, PoolLoaded, StoryTold, Closed

(* Where bans, outbounds and the history stay, so does what they promise.    *)
LEMMA BansStay ==
  ASSUME PoolInv, Begun, UNCHANGED <<banned, made, fruitless>>
  PROVE  Current' /\ Converges'
BY DEF PoolInv, Bans, Current, Converges, Begun

Manager == [running : BOOLEAN, noted : BOOLEAN, told : BOOLEAN]
Server  == [at : Member \cup {Nobody}, pool : SUBSET Member, pin : Member \cup {Nobody}]

(* The types of a step are those of what it assigns.                         *)
LEMMA TypesKept ==
  ASSUME PoolTypes, launch' \in Launch, errors' \in Nat, xproc' \in BOOLEAN, xmgr' \in Manager,
         refused' \subseteq Member, fruitless' \in Nat, banned' \in [Member -> 0..MaxVersions],
         alone' \in BOOLEAN, served' \in Server, made' = made
  PROVE  PoolTypes'
BY DEF PoolTypes, PoolTypeOK, Launch, Manager, Server

(* Most steps assign only the start, the process and the errors.             *)
LEMMA TypesStay ==
  ASSUME PoolTypes, launch' \in Launch, errors' \in Nat, xproc' \in BOOLEAN, xmgr' \in Manager,
         refused' \subseteq Member, UNCHANGED <<made, banned, alone, served, fruitless>>
  PROVE  PoolTypes'
<1>1. /\ fruitless' \in Nat /\ banned' \in [Member -> 0..MaxVersions]
      /\ alone' \in BOOLEAN /\ served' \in Server
  BY DEF PoolTypes, PoolTypeOK, Server
<1> QED
  BY <1>1, TypesKept

(* --- The steps ------------------------------------------------------------- *)

(* At first nothing was started, refused or banned.                          *)
LEMMA PoolStarts == PoolInit => PoolInv
<1> SUFFICES ASSUME PoolInit PROVE PoolInv
  OBVIOUS
<1> USE PoolAssumption DEF PoolAssumption
<1>1. launch = NoLaunch /\ launch \in Launch /\ launch.pc = "idle" /\ launch.ok
  BY DEF PoolInit, NoLaunch, Launch, Steps
<1>2. PoolTypes
  <2>1. made \in [Member -> [id : 1..MaxVersions, takes : BOOLEAN]]
    BY DEF PoolInit
  <2>2. xmgr \in [running : BOOLEAN, noted : BOOLEAN, told : BOOLEAN]
    BY DEF PoolInit
  <2>3. served \in [at : Member \cup {Nobody}, pool : SUBSET Member, pin : Member \cup {Nobody}]
    BY DEF PoolInit, Closed
  <2>4. banned \in [Member -> 0..MaxVersions]
    BY DEF PoolInit
  <2> QED
    BY <1>1, <2>1, <2>2, <2>3, <2>4 DEF PoolInit, PoolTypes, PoolTypeOK, Launch
<1>3. Start
  BY <1>1 DEF PoolInit, Start, Underway, ChosenIn, TagsIn, Held, Begun, Read
<1>4. ServesChosen /\ PoolLoaded /\ StoryTold
  BY <1>1 DEF PoolInit, ServesChosen, PoolLoaded, StoryTold, Closed
<1>5. Counted /\ Current
  BY <1>1 DEF PoolInit, Counted, Current, Begun
<1>6. Converges
  BY <1>1, Countable DEF PoolInit, Converges
<1> QED
  BY <1>2, <1>3, <1>4, <1>5, <1>6 DEF PoolInv, Bans

(* The plan of a start: bans of a replaced outbound are lifted, the others   *)
(* are kept out, except of the chosen server.                                *)
LEMMA PlanKeeps ==
  ASSUME PoolInv, NEW c \in Member, banned' = Looked, launch' = Planned(c), served' = Closed, errors' = 0,
         UNCHANGED <<made, refused, alone, xproc, xmgr, fruitless>>
  PROVE  PoolInv'
<1> USE PoolAssumption DEF PoolAssumption
<1>1. /\ launch'.pc = "stop" /\ launch'.chosen = c /\ launch'.conf = Pool(c) /\ launch'.tags = Pool(c)
      /\ launch'.tries = 0 /\ ~launch'.held /\ ~launch'.single /\ ~launch'.stuck /\ launch'.ok
      /\ Pool(c) \subseteq Member
  BY DEF Planned, NoLaunch, Pool, Reasons
<1>a. launch' \in Launch
  <2>1. NoLaunch \in Launch
    BY DEF NoLaunch, Launch, Steps
  <2> QED
    BY <1>1, <2>1 DEF Planned, Launch, Steps
<1>2. \A m \in Member : banned'[m] = IF banned[m] = made[m].id THEN banned[m] ELSE 0
  BY DEF Looked, Reasons
<1>3. PoolTypes'
  <2>1. banned' \in [Member -> 0..MaxVersions]
    BY <1>2 DEF Looked, PoolInv, PoolTypes, PoolTypeOK
  <2>2. served' \in Server
    BY DEF Closed, Server
  <2>3. alone' \in BOOLEAN /\ xproc' \in BOOLEAN /\ xmgr' \in Manager /\ refused' \subseteq Member
    BY DEF PoolInv, PoolTypes, PoolTypeOK, Manager
  <2>4. fruitless' \in Nat /\ errors' \in Nat
    BY DEF PoolInv, PoolTypes
  <2> QED
    BY <1>a, <2>1, <2>2, <2>3, <2>4, TypesKept DEF PoolInv
<1>4. Start'
  BY <1>1 DEF PoolInv, Start, Underway, ChosenIn, TagsIn, Held, Begun, Read, Pool
<1>5. Counted'
  <2>1. \A m \in Pool(c) \ {c} : banned'[m] = 0
    BY <1>1, <1>2 DEF Pool, Reasons
  <2> QED
    BY <1>1, <2>1 DEF Counted
<1>6. Current'
  BY <1>2 DEF Current
<1>7. Converges'
  <2>1. CASE fruitless = 0
    BY <2>1, Countable DEF Converges
  <2>2. CASE fruitless # 0
    <3>1. \A m \in Member : banned'[m] = banned[m]
      BY <1>2, <2>2 DEF PoolInv, PoolTypes, Bans, Current
    <3>2. {m \in Member : banned'[m] # 0} = {m \in Member : banned[m] # 0}
      BY <3>1
    <3> QED
      BY <3>2 DEF PoolInv, Bans, Converges
  <2> QED
    BY <2>1, <2>2
<1> QED
  BY <1>1, <1>3, <1>4, <1>5, <1>6, <1>7, NothingServed DEF PoolInv, Bans

(* The old core is stopped, or stays.                                        *)
LEMMA StopsOldKeeps == PoolInv /\ StopsOld => PoolInv'
<1> SUFFICES ASSUME PoolInv, StopsOld PROVE PoolInv'
  OBVIOUS
<1> USE PoolAssumption DEF PoolAssumption
<1>1. ASSUME launch.pc = "stop",
             launch' = [launch EXCEPT !.pc = "ports"],
             xproc' = FALSE, xmgr' = [xmgr EXCEPT !.running = FALSE],
             UNCHANGED <<errors, refused>>,
             UNCHANGED <<made, banned, alone, served, fruitless>>
      PROVE  PoolInv'
  <2>1. /\ launch' \in Launch
        /\ launch'.pc = "ports"
        /\ UNCHANGED <<launch.chosen, launch.conf, launch.tags, launch.tries, launch.held, launch.single, launch.stuck, launch.ok>>
    BY <1>1 DEF PoolInv, PoolTypes, Launch, Steps
  <2>2. PoolTypes'
    <3>1. errors' \in Nat /\ xproc' \in BOOLEAN /\ refused' \subseteq Member
      BY <1>1, <2>1 DEF PoolInv, PoolTypes, PoolTypeOK
    <3>2. xmgr' \in Manager
      BY <1>1 DEF PoolInv, PoolTypes, PoolTypeOK, Manager
    <3> QED
      BY <1>1, <2>1, <3>1, <3>2, TypesStay DEF PoolInv
  <2>3. Underway'
    BY <1>1, <2>1 DEF PoolInv, Start, Underway, Begun
  <2>4. ChosenIn'
    BY <1>1, <2>1
    DEF PoolInv, PoolTypes, PoolTypeOK, Launch, Start, Underway, ChosenIn, Begun, Read, Refusable
  <2>5. TagsIn'
    BY <1>1, <2>1 DEF PoolInv, Start, Underway, ChosenIn, TagsIn, Begun
  <2>6. Held'
    BY <1>1, <2>1 DEF PoolInv, PoolTypes, PoolTypeOK, Start, Held
  <2>7. Counted'
    BY <1>1, <2>1 DEF PoolInv, PoolTypes, Start, Underway, ChosenIn, Bans, Counted, Begun
  <2> QED
    BY <1>1, <2>1, <2>2, <2>3, <2>4, <2>5, <2>6, <2>7, NothingServed, BansStay
    DEF PoolInv, Start, Underway, Bans, Begun
<1>2. ASSUME launch.pc = "stop",
             launch' = [launch EXCEPT !.pc = "over", !.stuck = TRUE],
             errors' = errors + 1,
             UNCHANGED <<xproc, xmgr, refused>>,
             UNCHANGED <<made, banned, alone, served, fruitless>>
      PROVE  PoolInv'
  <2>1. /\ launch' \in Launch
        /\ launch'.pc = "over" /\ launch'.stuck
        /\ UNCHANGED <<launch.chosen, launch.conf, launch.tags, launch.tries, launch.held, launch.single, launch.ok>>
    BY <1>2 DEF PoolInv, PoolTypes, Launch, Steps
  <2>2. PoolTypes'
    <3>1. errors' \in Nat /\ xproc' \in BOOLEAN /\ refused' \subseteq Member
      BY <1>2, <2>1 DEF PoolInv, PoolTypes, PoolTypeOK
    <3>2. xmgr' \in Manager
      BY <1>2 DEF PoolInv, PoolTypes, PoolTypeOK, Manager
    <3> QED
      BY <1>2, <2>1, <3>1, <3>2, TypesStay DEF PoolInv
  <2>3. Underway'
    BY <1>2, <2>1 DEF PoolInv, Start, Underway, Begun
  <2>4. ChosenIn'
    BY <1>2, <2>1
    DEF PoolInv, PoolTypes, PoolTypeOK, Launch, Start, Underway, ChosenIn, Begun, Read, Refusable
  <2>5. TagsIn'
    BY <1>2, <2>1 DEF PoolInv, Start, Underway, ChosenIn, TagsIn, Begun
  <2>6. Held'
    BY <1>2, <2>1 DEF PoolInv, PoolTypes, PoolTypeOK, Start, Held
  <2>7. Counted'
    <3>1. launch.single \/ launch.tags = launch.conf
      BY <1>2 DEF PoolInv, Start, Underway
    <3>2. refused \cap launch.tags # {} => Cardinality(refused \cap launch.tags) >= 1
      BY OneAtLeast DEF PoolInv, PoolTypes, PoolTypeOK
    <3>3. launch.single \/ launch.tries = 0
      BY <1>2 DEF PoolInv, Start, Underway
    <3> QED
      BY <1>2, <2>1, <3>1, <3>2, <3>3 DEF PoolInv, Bans, Counted, Begun
  <2> QED
    BY <1>2, <2>1, <2>2, <2>3, <2>4, <2>5, <2>6, <2>7, NothingServed, BansStay
    DEF PoolInv, Start, Underway, Bans, Begun
<1> QED
  BY <1>1, <1>2 DEF StopsOld, Stops, Mishap

(* The ports are free, or the start is over.                                 *)
LEMMA ChecksPortsKeeps == PoolInv /\ ChecksPorts => PoolInv'
<1> SUFFICES ASSUME PoolInv, ChecksPorts PROVE PoolInv'
  OBVIOUS
<1> USE PoolAssumption DEF PoolAssumption
<1>1. ASSUME launch.pc = "ports",
             launch' = [launch EXCEPT !.pc = "spawn", !.tries = 0],
             refused' = {},
             UNCHANGED <<xproc, xmgr, errors>>,
             UNCHANGED <<made, banned, alone, served, fruitless>>
      PROVE  PoolInv'
  <2>1. /\ launch' \in Launch
        /\ launch'.pc = "spawn" /\ launch'.tries = 0
        /\ UNCHANGED <<launch.chosen, launch.conf, launch.tags, launch.held, launch.single, launch.stuck, launch.ok>>
    <3>1. 0 \in 0..Retries
      BY <1>1 DEF PoolInv, PoolTypes, PoolTypeOK
    <3> QED
      BY <1>1, <3>1 DEF PoolInv, PoolTypes, Launch, Steps
  <2>2. PoolTypes'
    <3>1. errors' \in Nat /\ xproc' \in BOOLEAN /\ refused' \subseteq Member
      BY <1>1, <2>1 DEF PoolInv, PoolTypes, PoolTypeOK
    <3>2. xmgr' \in Manager
      BY <1>1 DEF PoolInv, PoolTypes, PoolTypeOK, Manager
    <3> QED
      BY <1>1, <2>1, <3>1, <3>2, TypesStay DEF PoolInv
  <2>3. Underway'
    BY <1>1, <2>1 DEF PoolInv, Start, Underway, Begun
  <2>4. ChosenIn'
    BY <1>1, <2>1
    DEF PoolInv, PoolTypes, PoolTypeOK, Launch, Start, Underway, ChosenIn, Begun, Read, Refusable
  <2>5. TagsIn'
    BY <1>1, <2>1 DEF PoolInv, Start, Underway, ChosenIn, TagsIn, Begun
  <2>6. Held'
    BY <1>1, <2>1 DEF PoolInv, PoolTypes, PoolTypeOK, Start, Held
  <2>7. Counted'
    BY <1>1, <2>1, FS_EmptySet
    DEF PoolInv, PoolTypes, Start, Underway, ChosenIn, Bans, Counted, Begun
  <2> QED
    BY <1>1, <2>1, <2>2, <2>3, <2>4, <2>5, <2>6, <2>7, NothingServed, BansStay
    DEF PoolInv, Start, Underway, Bans, Begun
<1>2. ASSUME launch.pc = "ports",
             launch' = [launch EXCEPT !.pc = "over"],
             errors' = errors + 1,
             UNCHANGED <<xproc, xmgr, refused>>,
             UNCHANGED <<made, banned, alone, served, fruitless>>
      PROVE  PoolInv'
  <2>1. /\ launch' \in Launch
        /\ launch'.pc = "over"
        /\ UNCHANGED <<launch.chosen, launch.conf, launch.tags, launch.tries, launch.held, launch.single, launch.stuck, launch.ok>>
    BY <1>2 DEF PoolInv, PoolTypes, Launch, Steps
  <2>2. PoolTypes'
    <3>1. errors' \in Nat /\ xproc' \in BOOLEAN /\ refused' \subseteq Member
      BY <1>2, <2>1 DEF PoolInv, PoolTypes, PoolTypeOK
    <3>2. xmgr' \in Manager
      BY <1>2 DEF PoolInv, PoolTypes, PoolTypeOK, Manager
    <3> QED
      BY <1>2, <2>1, <3>1, <3>2, TypesStay DEF PoolInv
  <2>3. Underway'
    BY <1>2, <2>1 DEF PoolInv, Start, Underway, Begun
  <2>4. ChosenIn'
    BY <1>2, <2>1
    DEF PoolInv, PoolTypes, PoolTypeOK, Launch, Start, Underway, ChosenIn, Begun, Read, Refusable
  <2>5. TagsIn'
    BY <1>2, <2>1 DEF PoolInv, Start, Underway, ChosenIn, TagsIn, Begun
  <2>6. Held'
    BY <1>2, <2>1 DEF PoolInv, PoolTypes, PoolTypeOK, Start, Held
  <2>7. Counted'
    <3>1. launch.single \/ launch.tags = launch.conf
      BY <1>2 DEF PoolInv, Start, Underway
    <3>2. refused \cap launch.tags # {} => Cardinality(refused \cap launch.tags) >= 1
      BY OneAtLeast DEF PoolInv, PoolTypes, PoolTypeOK
    <3>3. launch.single \/ launch.tries = 0
      BY <1>2 DEF PoolInv, Start, Underway
    <3> QED
      BY <1>2, <2>1, <3>1, <3>2, <3>3 DEF PoolInv, Bans, Counted, Begun
  <2> QED
    BY <1>2, <2>1, <2>2, <2>3, <2>4, <2>5, <2>6, <2>7, NothingServed, BansStay
    DEF PoolInv, Start, Underway, Bans, Begun
<1> QED
  BY <1>1, <1>2 DEF ChecksPorts, Mishap

(* The process begins, or cannot.                                            *)
LEMMA SpawnsKeeps == PoolInv /\ Spawns => PoolInv'
<1> SUFFICES ASSUME PoolInv, Spawns PROVE PoolInv'
  OBVIOUS
<1> USE PoolAssumption DEF PoolAssumption
<1>1. ASSUME launch.pc = "spawn",
             launch' = [launch EXCEPT !.pc = "wait"],
             xproc' = TRUE, xmgr' = Unnoted,
             UNCHANGED <<errors, refused>>,
             UNCHANGED <<made, banned, alone, served, fruitless>>
      PROVE  PoolInv'
  <2>1. /\ launch' \in Launch
        /\ launch'.pc = "wait"
        /\ UNCHANGED <<launch.chosen, launch.conf, launch.tags, launch.tries, launch.held, launch.single, launch.stuck, launch.ok>>
    BY <1>1 DEF PoolInv, PoolTypes, Launch, Steps, Unnoted
  <2>2. PoolTypes'
    <3>1. errors' \in Nat /\ xproc' \in BOOLEAN /\ refused' \subseteq Member
      BY <1>1, <2>1 DEF PoolInv, PoolTypes, PoolTypeOK, Unnoted
    <3>2. xmgr' \in Manager
      BY <1>1 DEF PoolInv, PoolTypes, PoolTypeOK, Manager, Unnoted
    <3> QED
      BY <1>1, <2>1, <3>1, <3>2, TypesStay DEF PoolInv
  <2>3. Underway'
    BY <1>1, <2>1 DEF PoolInv, Start, Underway, Begun
  <2>4. ChosenIn'
    BY <1>1, <2>1
    DEF PoolInv, PoolTypes, PoolTypeOK, Launch, Start, Underway, ChosenIn, Begun, Read, Refusable
  <2>5. TagsIn'
    BY <1>1, <2>1 DEF PoolInv, Start, Underway, ChosenIn, TagsIn, Begun
  <2>6. Held'
    BY <1>1, <2>1 DEF PoolInv, PoolTypes, PoolTypeOK, Start, Held, Unnoted
  <2>7. Counted'
    BY <1>1, <2>1 DEF PoolInv, PoolTypes, Start, Underway, ChosenIn, Bans, Counted, Begun
  <2> QED
    BY <1>1, <2>1, <2>2, <2>3, <2>4, <2>5, <2>6, <2>7, NothingServed, BansStay
    DEF PoolInv, Start, Underway, Bans, Begun
<1>2. ASSUME launch.pc = "spawn",
             launch' = [[launch EXCEPT !.pc = "over"] EXCEPT !.held = TRUE],
             xmgr' = [Unnoted EXCEPT !.noted = TRUE],
             UNCHANGED <<xproc, errors, refused>>,
             UNCHANGED <<made, banned, alone, served, fruitless>>
      PROVE  PoolInv'
  <2>1. /\ launch' \in Launch
        /\ launch'.pc = "over" /\ launch'.held
        /\ UNCHANGED <<launch.chosen, launch.conf, launch.tags, launch.tries, launch.single, launch.stuck, launch.ok>>
    BY <1>2 DEF PoolInv, PoolTypes, Launch, Steps, Unnoted
  <2>2. PoolTypes'
    <3>1. errors' \in Nat /\ xproc' \in BOOLEAN /\ refused' \subseteq Member
      BY <1>2, <2>1 DEF PoolInv, PoolTypes, PoolTypeOK, Unnoted
    <3>2. xmgr' \in Manager
      BY <1>2 DEF PoolInv, PoolTypes, PoolTypeOK, Manager, Unnoted
    <3> QED
      BY <1>2, <2>1, <3>1, <3>2, TypesStay DEF PoolInv
  <2>3. Underway'
    BY <1>2, <2>1 DEF PoolInv, Start, Underway, Begun
  <2>4. ChosenIn'
    BY <1>2, <2>1
    DEF PoolInv, PoolTypes, PoolTypeOK, Launch, Start, Underway, ChosenIn, Begun, Read, Refusable
  <2>5. TagsIn'
    BY <1>2, <2>1 DEF PoolInv, Start, Underway, ChosenIn, TagsIn, Begun
  <2>6. Held'
    BY <1>2, <2>1 DEF PoolInv, PoolTypes, PoolTypeOK, Start, Held
  <2>7. Counted'
    BY <1>2, <2>1 DEF PoolInv, PoolTypes, Start, Underway, ChosenIn, Bans, Counted, Begun
  <2> QED
    BY <1>2, <2>1, <2>2, <2>3, <2>4, <2>5, <2>6, <2>7, NothingServed, BansStay
    DEF PoolInv, Start, Underway, Bans, Begun
<1> QED
  BY <1>1, <1>2 DEF Spawns, Holds, Mishap, Unnoted, PoolInv, PoolTypes, PoolTypeOK

(* The core ends before it serves.                                           *)
LEMMA CoreQuitsKeeps == PoolInv /\ CoreQuits => PoolInv'
<1> SUFFICES ASSUME PoolInv, CoreQuits PROVE PoolInv'
  OBVIOUS
<1> USE PoolAssumption DEF PoolAssumption
<1>1. ASSUME launch.pc \in {"wait", "listens"}, xproc,
             launch' = [launch EXCEPT !.held = TRUE],
             xproc' = FALSE, xmgr' = [[xmgr EXCEPT !.running = FALSE] EXCEPT !.noted = TRUE],
             UNCHANGED <<errors, refused>>,
             UNCHANGED <<made, banned, alone, served, fruitless>>
      PROVE  PoolInv'
  <2>1. /\ launch' \in Launch
        /\ launch'.pc = launch.pc /\ launch'.held
        /\ UNCHANGED <<launch.chosen, launch.conf, launch.tags, launch.tries, launch.single, launch.stuck, launch.ok>>
    BY <1>1 DEF PoolInv, PoolTypes, Launch, Steps
  <2>2. PoolTypes'
    <3>1. errors' \in Nat /\ xproc' \in BOOLEAN /\ refused' \subseteq Member
      BY <1>1, <2>1 DEF PoolInv, PoolTypes, PoolTypeOK
    <3>2. xmgr' \in Manager
      BY <1>1 DEF PoolInv, PoolTypes, PoolTypeOK, Manager
    <3> QED
      BY <1>1, <2>1, <3>1, <3>2, TypesStay DEF PoolInv
  <2>3. Underway'
    BY <1>1, <2>1 DEF PoolInv, Start, Underway, Begun
  <2>4. ChosenIn'
    BY <1>1, <2>1
    DEF PoolInv, PoolTypes, PoolTypeOK, Launch, Start, Underway, ChosenIn, Begun, Read, Refusable
  <2>5. TagsIn'
    BY <1>1, <2>1 DEF PoolInv, Start, Underway, ChosenIn, TagsIn, Begun
  <2>6. Held'
    BY <1>1, <2>1 DEF PoolInv, PoolTypes, PoolTypeOK, Start, Held
  <2>7. Counted'
    BY <1>1, <2>1 DEF PoolInv, PoolTypes, Start, Underway, ChosenIn, Bans, Counted, Begun
  <2> QED
    BY <1>1, <2>1, <2>2, <2>3, <2>4, <2>5, <2>6, <2>7, NothingServed, BansStay
    DEF PoolInv, Start, Underway, Bans, Begun
<1> QED
  BY <1>1 DEF CoreQuits, Holds, PoolInv, PoolTypes, PoolTypeOK, Start, Held

(* The core has taken its configuration.                                     *)
LEMMA ListensKeeps == PoolInv /\ Listens => PoolInv'
<1> SUFFICES ASSUME PoolInv, Listens PROVE PoolInv'
  OBVIOUS
<1> USE PoolAssumption DEF PoolAssumption
<1>1. ASSUME launch.pc = "wait", xproc, Refusable = {},
             launch' = [launch EXCEPT !.pc = "listens"],
             UNCHANGED <<xproc, xmgr, errors, refused>>,
             UNCHANGED <<made, banned, alone, served, fruitless>>
      PROVE  PoolInv'
  <2>1. /\ launch' \in Launch
        /\ launch'.pc = "listens"
        /\ UNCHANGED <<launch.chosen, launch.conf, launch.tags, launch.tries, launch.held, launch.single, launch.stuck, launch.ok>>
    BY <1>1 DEF PoolInv, PoolTypes, Launch, Steps
  <2>2. PoolTypes'
    <3>1. errors' \in Nat /\ xproc' \in BOOLEAN /\ refused' \subseteq Member
      BY <1>1, <2>1 DEF PoolInv, PoolTypes, PoolTypeOK
    <3>2. xmgr' \in Manager
      BY <1>1 DEF PoolInv, PoolTypes, PoolTypeOK, Manager
    <3> QED
      BY <1>1, <2>1, <3>1, <3>2, TypesStay DEF PoolInv
  <2>3. Underway'
    BY <1>1, <2>1 DEF PoolInv, Start, Underway, Begun
  <2>4. ChosenIn'
    BY <1>1, <2>1
    DEF PoolInv, PoolTypes, PoolTypeOK, Launch, Start, Underway, ChosenIn, Begun, Read, Refusable
  <2>5. TagsIn'
    BY <1>1, <2>1 DEF PoolInv, Start, Underway, ChosenIn, TagsIn, Begun
  <2>6. Held'
    BY <1>1, <2>1 DEF PoolInv, PoolTypes, PoolTypeOK, Start, Held
  <2>7. Counted'
    BY <1>1, <2>1 DEF PoolInv, PoolTypes, Start, Underway, ChosenIn, Bans, Counted, Begun
  <2> QED
    BY <1>1, <2>1, <2>2, <2>3, <2>4, <2>5, <2>6, <2>7, NothingServed, BansStay
    DEF PoolInv, Start, Underway, Bans, Begun
<1> QED
  BY <1>1 DEF Listens

(* The failed wait: a server is cut out and the core tried again, or the     *)
(* start is over.                                                            *)
LEMMA NoticesEndKeeps == PoolInv /\ NoticesEnd => PoolInv'
<1> SUFFICES ASSUME PoolInv, NoticesEnd PROVE PoolInv'
  OBVIOUS
<1> USE PoolAssumption DEF PoolAssumption
<1>1. ASSUME launch.pc = "wait", ~xproc, Refusable = {},
             launch' = [launch EXCEPT !.pc = "over"],
             UNCHANGED <<xproc, xmgr, errors, refused>>,
             UNCHANGED <<made, banned, alone, served, fruitless>>
      PROVE  PoolInv'
  <2>1. /\ launch' \in Launch
        /\ launch'.pc = "over"
        /\ UNCHANGED <<launch.chosen, launch.conf, launch.tags, launch.tries, launch.held, launch.single, launch.stuck, launch.ok>>
    BY <1>1 DEF PoolInv, PoolTypes, Launch, Steps
  <2>2. PoolTypes'
    <3>1. errors' \in Nat /\ xproc' \in BOOLEAN /\ refused' \subseteq Member
      BY <1>1, <2>1 DEF PoolInv, PoolTypes, PoolTypeOK
    <3>2. xmgr' \in Manager
      BY <1>1 DEF PoolInv, PoolTypes, PoolTypeOK, Manager
    <3> QED
      BY <1>1, <2>1, <3>1, <3>2, TypesStay DEF PoolInv
  <2>3. Underway'
    BY <1>1, <2>1 DEF PoolInv, Start, Underway, Begun
  <2>4. ChosenIn'
    BY <1>1, <2>1
    DEF PoolInv, PoolTypes, PoolTypeOK, Launch, Start, Underway, ChosenIn, Begun, Read, Refusable
  <2>5. TagsIn'
    BY <1>1, <2>1 DEF PoolInv, Start, Underway, ChosenIn, TagsIn, Begun
  <2>6. Held'
    BY <1>1, <2>1 DEF PoolInv, PoolTypes, PoolTypeOK, Start, Held
  <2>7. Counted'
    BY <1>1, <2>1 DEF PoolInv, PoolTypes, Start, Underway, ChosenIn, Bans, Counted, Begun
  <2> QED
    BY <1>1, <2>1, <2>2, <2>3, <2>4, <2>5, <2>6, <2>7, NothingServed, BansStay
    DEF PoolInv, Start, Underway, Bans, Begun
<1>2. ASSUME launch.pc = "wait", ~xproc, NEW m \in Refusable, TriesLeft,
             launch' = Pruned(m), refused' = refused \cup {m},
             UNCHANGED <<xproc, xmgr, errors>>,
             UNCHANGED <<made, banned, alone, served, fruitless>>
      PROVE  PoolInv'
  <2>1. /\ launch' \in Launch
        /\ launch'.pc = "spawn" /\ launch'.conf = launch.conf \ {m} /\ launch'.tries = launch.tries + 1 /\ ~launch'.held
        /\ UNCHANGED <<launch.chosen, launch.tags, launch.single, launch.stuck, launch.ok>>
        /\ m \in launch.conf /\ m \in Member
    <3>1. launch.tries + 1 \in 0..Retries
      BY <1>2 DEF PoolInv, PoolTypes, PoolTypeOK, Pruned, TriesLeft, Refusable
    <3> QED
      BY <1>2, <3>1 DEF PoolInv, PoolTypes, Launch, Steps, Pruned, TriesLeft, Refusable
  <2>2. PoolTypes'
    <3>1. errors' \in Nat /\ xproc' \in BOOLEAN /\ refused' \subseteq Member
      BY <1>2, <2>1 DEF PoolInv, PoolTypes, PoolTypeOK, Pruned, TriesLeft, Refusable
    <3>2. xmgr' \in Manager
      BY <1>2 DEF PoolInv, PoolTypes, PoolTypeOK, Manager, Pruned, TriesLeft, Refusable
    <3> QED
      BY <1>2, <2>1, <3>1, <3>2, TypesStay DEF PoolInv
  <2>3. Underway'
    BY <1>2, <2>1 DEF PoolInv, Start, Underway, Begun
  <2>4. ChosenIn'
    BY <1>2, <2>1
    DEF PoolInv, PoolTypes, PoolTypeOK, Launch, Start, Underway, ChosenIn, Begun, Read, Refusable
  <2>5. TagsIn'
    BY <1>2, <2>1 DEF PoolInv, Start, Underway, ChosenIn, TagsIn, Begun
  <2>6. Held'
    BY <1>2, <2>1 DEF PoolInv, PoolTypes, PoolTypeOK, Start, Held
  <2>7. Counted'
    <3>1. ~launch.single /\ m \in launch.conf
      BY <1>2 DEF PoolInv, Start, ChosenIn, Begun, Refusable
    <3>2. m \notin refused /\ Cardinality(refused) = launch.tries
      BY <1>2, <3>1 DEF PoolInv, Bans, Counted
    <3>3. Cardinality(refused') = launch.tries + 1
      BY <1>2, <3>2, Countable, FS_AddElement DEF PoolInv, PoolTypes, PoolTypeOK
    <3> QED
      BY <1>2, <2>1, <3>1, <3>3 DEF PoolInv, Bans, Counted, Begun
  <2> QED
    BY <1>2, <2>1, <2>2, <2>3, <2>4, <2>5, <2>6, <2>7, NothingServed, BansStay
    DEF PoolInv, Start, Underway, Bans, Begun
<1>3. ASSUME launch.pc = "wait", ~xproc, NEW m \in Refusable, ~TriesLeft,
             launch' = [launch EXCEPT !.pc = "over"], refused' = refused \cup {m},
             UNCHANGED <<xproc, xmgr, errors>>,
             UNCHANGED <<made, banned, alone, served, fruitless>>
      PROVE  PoolInv'
  <2>1. /\ launch' \in Launch
        /\ launch'.pc = "over"
        /\ UNCHANGED <<launch.chosen, launch.conf, launch.tags, launch.tries, launch.held, launch.single, launch.stuck, launch.ok>>
        /\ m \in launch.conf /\ m \in Member
    BY <1>3 DEF PoolInv, PoolTypes, Launch, Steps, TriesLeft, Refusable
  <2>2. PoolTypes'
    <3>1. errors' \in Nat /\ xproc' \in BOOLEAN /\ refused' \subseteq Member
      BY <1>3, <2>1 DEF PoolInv, PoolTypes, PoolTypeOK, TriesLeft, Refusable
    <3>2. xmgr' \in Manager
      BY <1>3 DEF PoolInv, PoolTypes, PoolTypeOK, Manager, TriesLeft, Refusable
    <3> QED
      BY <1>3, <2>1, <3>1, <3>2, TypesStay DEF PoolInv
  <2>3. Underway'
    BY <1>3, <2>1 DEF PoolInv, Start, Underway, Begun
  <2>4. ChosenIn'
    BY <1>3, <2>1
    DEF PoolInv, PoolTypes, PoolTypeOK, Launch, Start, Underway, ChosenIn, Begun, Read, Refusable
  <2>5. TagsIn'
    BY <1>3, <2>1 DEF PoolInv, Start, Underway, ChosenIn, TagsIn, Begun
  <2>6. Held'
    BY <1>3, <2>1 DEF PoolInv, PoolTypes, PoolTypeOK, Start, Held
  <2>7. Counted'
    <3>1. ~launch.single /\ m \in launch.conf
      BY <1>3 DEF PoolInv, Start, ChosenIn, Begun, Refusable
    <3>2. m \notin refused /\ Cardinality(refused) = launch.tries /\ refused' \subseteq launch.tags
      BY <1>3, <3>1 DEF PoolInv, Bans, Counted
    <3>3. Cardinality(refused') = launch.tries + 1
      BY <1>3, <3>2, Countable, FS_AddElement DEF PoolInv, PoolTypes, PoolTypeOK
    <3>4. refused' \cap launch'.tags = refused' /\ launch'.tries = launch.tries /\ launch.tries \in Nat
      BY <2>1, <3>2 DEF PoolInv, PoolTypes, PoolTypeOK
    <3>5. Cardinality(refused' \cap launch'.tags) = launch'.tries + 1
      BY <3>3, <3>4
    <3> QED
      BY <1>3, <2>1, <3>1, <3>4, <3>5 DEF PoolInv, Bans, Counted, Begun
  <2> QED
    BY <1>3, <2>1, <2>2, <2>3, <2>4, <2>5, <2>6, <2>7, NothingServed, BansStay
    DEF PoolInv, Start, Underway, Bans, Begun
<1> QED
  BY <1>1, <1>2, <1>3 DEF NoticesEnd

(* The ports never open.                                                     *)
LEMMA NeverListensKeeps == PoolInv /\ NeverListens => PoolInv'
<1> SUFFICES ASSUME PoolInv, NeverListens PROVE PoolInv'
  OBVIOUS
<1> USE PoolAssumption DEF PoolAssumption
<1>1. ASSUME launch.pc = "wait", xproc,
             launch' = [[launch EXCEPT !.pc = "over"] EXCEPT !.held = TRUE],
             xproc' = FALSE, xmgr' = [[xmgr EXCEPT !.running = FALSE] EXCEPT !.noted = TRUE],
             UNCHANGED <<errors, refused>>,
             UNCHANGED <<made, banned, alone, served, fruitless>>
      PROVE  PoolInv'
  <2>1. /\ launch' \in Launch
        /\ launch'.pc = "over" /\ launch'.held
        /\ UNCHANGED <<launch.chosen, launch.conf, launch.tags, launch.tries, launch.single, launch.stuck, launch.ok>>
    BY <1>1 DEF PoolInv, PoolTypes, Launch, Steps
  <2>2. PoolTypes'
    <3>1. errors' \in Nat /\ xproc' \in BOOLEAN /\ refused' \subseteq Member
      BY <1>1, <2>1 DEF PoolInv, PoolTypes, PoolTypeOK
    <3>2. xmgr' \in Manager
      BY <1>1 DEF PoolInv, PoolTypes, PoolTypeOK, Manager
    <3> QED
      BY <1>1, <2>1, <3>1, <3>2, TypesStay DEF PoolInv
  <2>3. Underway'
    BY <1>1, <2>1 DEF PoolInv, Start, Underway, Begun
  <2>4. ChosenIn'
    BY <1>1, <2>1
    DEF PoolInv, PoolTypes, PoolTypeOK, Launch, Start, Underway, ChosenIn, Begun, Read, Refusable
  <2>5. TagsIn'
    BY <1>1, <2>1 DEF PoolInv, Start, Underway, ChosenIn, TagsIn, Begun
  <2>6. Held'
    BY <1>1, <2>1 DEF PoolInv, PoolTypes, PoolTypeOK, Start, Held
  <2>7. Counted'
    BY <1>1, <2>1 DEF PoolInv, PoolTypes, Start, Underway, ChosenIn, Bans, Counted, Begun
  <2> QED
    BY <1>1, <2>1, <2>2, <2>3, <2>4, <2>5, <2>6, <2>7, NothingServed, BansStay
    DEF PoolInv, Start, Underway, Bans, Begun
<1> QED
  BY <1>1 DEF NeverListens, Holds, PoolInv, PoolTypes, PoolTypeOK, Start, Held

(* The start has succeeded; what was held back is forgotten.                 *)
LEMMA MarksRunningKeeps == PoolInv /\ MarksRunning => PoolInv'
<1> SUFFICES ASSUME PoolInv, MarksRunning PROVE PoolInv'
  OBVIOUS
<1> USE PoolAssumption DEF PoolAssumption
<1>1. ASSUME launch.pc = "listens",
             launch' = [launch EXCEPT !.pc = "up", !.held = FALSE],
             xmgr' = [xmgr EXCEPT !.running = TRUE],
             UNCHANGED <<xproc, errors, refused>>,
             UNCHANGED <<made, banned, alone, served, fruitless>>
      PROVE  PoolInv'
  <2>1. /\ launch' \in Launch
        /\ launch'.pc = "up" /\ ~launch'.held
        /\ UNCHANGED <<launch.chosen, launch.conf, launch.tags, launch.tries, launch.single, launch.stuck, launch.ok>>
    BY <1>1 DEF PoolInv, PoolTypes, Launch, Steps
  <2>2. PoolTypes'
    <3>1. errors' \in Nat /\ xproc' \in BOOLEAN /\ refused' \subseteq Member
      BY <1>1, <2>1 DEF PoolInv, PoolTypes, PoolTypeOK
    <3>2. xmgr' \in Manager
      BY <1>1 DEF PoolInv, PoolTypes, PoolTypeOK, Manager
    <3> QED
      BY <1>1, <2>1, <3>1, <3>2, TypesStay DEF PoolInv
  <2>3. Underway'
    BY <1>1, <2>1 DEF PoolInv, Start, Underway, Begun
  <2>4. ChosenIn'
    BY <1>1, <2>1
    DEF PoolInv, PoolTypes, PoolTypeOK, Launch, Start, Underway, ChosenIn, Begun, Read, Refusable
  <2>5. TagsIn'
    BY <1>1, <2>1 DEF PoolInv, Start, Underway, ChosenIn, TagsIn, Begun
  <2>6. Held'
    BY <1>1, <2>1 DEF PoolInv, PoolTypes, PoolTypeOK, Start, Held
  <2>7. Counted'
    BY <1>1, <2>1 DEF PoolInv, PoolTypes, Start, Underway, ChosenIn, Bans, Counted, Begun
  <2> QED
    BY <1>1, <2>1, <2>2, <2>3, <2>4, <2>5, <2>6, <2>7, NothingServed, BansStay
    DEF PoolInv, Start, Underway, Bans, Begun
<1> QED
  BY <1>1 DEF MarksRunning

(* A ban of the refused servers: they and none else are banned now.          *)
LEMMA BannedThen ==
  ASSUME PoolInv, Begun, banned' = Banned, made' = made
  PROVE  /\ banned' \in [Member -> 0..MaxVersions] /\ Current'
         /\ {m \in Member : banned'[m] # 0} = BannedNow \cup (refused \cap launch.tags)
         /\ \A m \in launch.tags \ refused : banned'[m] = banned[m]
<1> USE PoolAssumption DEF PoolAssumption
<1>1. \A m \in Member : made[m].id \in 1..MaxVersions
  BY DEF PoolInv, PoolTypes, PoolTypeOK
<1>2. \A m \in Member : banned'[m] = IF m \in refused \cap launch.tags THEN made[m].id ELSE banned[m]
  BY DEF Banned
<1>3. banned' \in [Member -> 0..MaxVersions]
  BY <1>1 DEF Banned, PoolInv, PoolTypes, PoolTypeOK
<1>4. refused \cup launch.tags \subseteq Member
  BY DEF PoolInv, PoolTypes, PoolTypeOK
<1>5. {m \in Member : banned'[m] # 0} = BannedNow \cup (refused \cap launch.tags)
  BY <1>1, <1>2, <1>4 DEF BannedNow
<1>6. Current'
  BY <1>2 DEF PoolInv, Bans, Current
<1>7. \A m \in launch.tags \ refused : banned'[m] = banned[m]
  BY <1>2, <1>4
<1> QED
  BY <1>3, <1>5, <1>6, <1>7

(* More bans do not undo that starts converge.                               *)
LEMMA ConvergesStill ==
  ASSUME PoolInv, Begun, banned' = Banned, UNCHANGED <<made, fruitless>>
  PROVE  Converges'
<1>1. BannedNow \subseteq {m \in Member : banned'[m] # 0} /\ {m \in Member : banned'[m] # 0} \subseteq Member
  BY BannedThen
<1>2. Cardinality(BannedNow) <= Cardinality({m \in Member : banned'[m] # 0})
  BY <1>1, Countable, FS_Subset
<1>3. Cardinality({m \in Member : banned'[m] # 0}) \in Nat /\ Cardinality(BannedNow) \in Nat
  BY Countable DEF BannedNow
<1>4. fruitless \in Nat /\ Retries \in Nat
  BY PoolAssumption DEF PoolInv, PoolTypes, PoolAssumption
<1>5. fruitless * (Retries + 1) \in Nat
  BY <1>4
<1>6. fruitless * (Retries + 1) <= Cardinality(BannedNow)
  BY DEF PoolInv, Bans, Converges, BannedNow
<1> QED
  BY <1>2, <1>3, <1>5, <1>6 DEF Converges

(* A start that ran out of tries bans as many servers as it tried.           *)
LEMMA ShareTaken ==
  ASSUME PoolInv, launch.pc = "over", ~launch.single, launch.tries = Retries, OutOfTries,
         banned' = Banned, made' = made, fruitless' = fruitless + 1
  PROVE  Converges'
<1> DEFINE new == refused \cap launch.tags
<1>1. Cardinality(new) >= Retries + 1
  BY DEF PoolInv, Bans, Counted, OutOfTries
<1>2. {m \in Member : banned'[m] # 0} = BannedNow \cup new
  BY BannedThen DEF Begun
<1>3. BannedNow \subseteq Member /\ new \subseteq Member
  BY DEF BannedNow, PoolInv, PoolTypes, PoolTypeOK
<1>4. BannedNow \cap new = {}
  BY DEF PoolInv, Bans, Counted, OutOfTries, Begun, BannedNow
<1>5. Cardinality(BannedNow \cup new) = Cardinality(BannedNow) + Cardinality(new)
  <2>1. IsFiniteSet(BannedNow) /\ IsFiniteSet(new) /\ Cardinality(BannedNow) \in Nat /\ Cardinality(new) \in Nat
    BY <1>3, Countable
  <2>2. Cardinality(BannedNow \cap new) = 0
    BY <1>4, FS_EmptySet
  <2> HIDE DEF new
  <2>3. Cardinality(BannedNow \cup new) = Cardinality(BannedNow) + Cardinality(new) - Cardinality(BannedNow \cap new)
    BY <2>1, FS_Union, Zenon
  <2> QED
    BY <2>1, <2>2, <2>3
<1>6. fruitless * (Retries + 1) <= Cardinality(BannedNow)
  BY DEF PoolInv, Bans, Converges, BannedNow
<1>7. (fruitless + 1) * (Retries + 1) = fruitless * (Retries + 1) + (Retries + 1) /\ fruitless * (Retries + 1) \in Nat
  BY PoolAssumption DEF PoolAssumption, PoolInv, PoolTypes
<1>8. Cardinality(BannedNow) \in Nat /\ Cardinality(new) \in Nat /\ Retries \in Nat
  BY <1>3, Countable, PoolAssumption DEF PoolAssumption
<1> DEFINE taken == fruitless * (Retries + 1)
<1>9. taken + (Retries + 1) <= Cardinality(BannedNow) + Cardinality(new)
  <2> HIDE DEF new
  <2>1. taken \in Nat /\ taken <= Cardinality(BannedNow)
    BY <1>6, <1>7
  <2> HIDE DEF taken
  <2> QED
    BY <1>1, <1>8, <2>1
<1>10. fruitless' * (Retries + 1) = taken + (Retries + 1)
  BY <1>7
<1> HIDE DEF new, taken
<1> QED
  BY <1>2, <1>5, <1>9, <1>10 DEF Converges

(* The failed start is told and the refused servers are banned; after the    *)
(* fallback the core is dropped.                                             *)
LEMMA SwapOverKeeps == PoolInv /\ SwapOver => PoolInv'
<1> SUFFICES ASSUME PoolInv, SwapOver PROVE PoolInv'
  OBVIOUS
<1> USE PoolAssumption DEF PoolAssumption
<1>1. ASSUME launch.pc = "over", launch.single,
             launch' = [launch EXCEPT !.pc = "drop", !.held = FALSE],
             errors' = errors + (IF launch.held THEN 1 ELSE 0),
             UNCHANGED <<xproc, xmgr, refused>>,
             UNCHANGED <<made, banned, alone, served, fruitless>>
      PROVE  PoolInv'
  <2>1. /\ launch' \in Launch
        /\ launch'.pc = "drop" /\ ~launch'.held
        /\ UNCHANGED <<launch.chosen, launch.conf, launch.tags, launch.tries, launch.single, launch.stuck, launch.ok>>
    BY <1>1 DEF PoolInv, PoolTypes, Launch, Steps
  <2>2. PoolTypes'
    <3>1. errors' \in Nat /\ xproc' \in BOOLEAN /\ refused' \subseteq Member
      BY <1>1, <2>1 DEF PoolInv, PoolTypes, PoolTypeOK
    <3>2. xmgr' \in Manager
      BY <1>1 DEF PoolInv, PoolTypes, PoolTypeOK, Manager
    <3> QED
      BY <1>1, <2>1, <3>1, <3>2, TypesStay DEF PoolInv
  <2>3. Underway'
    BY <1>1, <2>1 DEF PoolInv, Start, Underway, Begun
  <2>4. ChosenIn'
    BY <1>1, <2>1
    DEF PoolInv, PoolTypes, PoolTypeOK, Launch, Start, Underway, ChosenIn, Begun, Read, Refusable
  <2>5. TagsIn'
    BY <1>1, <2>1 DEF PoolInv, Start, Underway, ChosenIn, TagsIn, Begun
  <2>6. Held'
    BY <1>1, <2>1 DEF PoolInv, PoolTypes, PoolTypeOK, Start, Held
  <2>7. Counted'
    BY <1>1, <2>1 DEF PoolInv, PoolTypes, Start, Underway, ChosenIn, Bans, Counted, Begun
  <2> QED
    BY <1>1, <2>1, <2>2, <2>3, <2>4, <2>5, <2>6, <2>7, NothingServed, BansStay
    DEF PoolInv, Start, Underway, Bans, Begun
<1>2. ASSUME launch.pc = "over", ~launch.single,
             launch' = [launch EXCEPT !.pc = "idle", !.ok = FALSE, !.held = FALSE],
             errors' = errors + (IF launch.held THEN 1 ELSE 0),
             banned' = Banned,
             fruitless' = IF launch.tries = Retries /\ OutOfTries THEN fruitless + 1 ELSE fruitless,
             UNCHANGED <<xproc, xmgr, refused, made, alone, served>>
      PROVE  PoolInv'
  <2>1. /\ launch' \in Launch
        /\ launch'.pc = "idle" /\ ~launch'.held /\ ~launch'.ok
        /\ UNCHANGED <<launch.chosen, launch.conf, launch.tags, launch.tries, launch.single, launch.stuck>>
    BY <1>2 DEF PoolInv, PoolTypes, Launch, Steps
  <2>2. PoolTypes'
    <3>1. errors' \in Nat /\ xproc' \in BOOLEAN /\ refused' \subseteq Member
      BY <1>2, <2>1 DEF PoolInv, PoolTypes, PoolTypeOK
    <3>2. xmgr' \in Manager
      BY <1>2 DEF PoolInv, PoolTypes, PoolTypeOK, Manager
    <3>3. fruitless' \in Nat /\ banned' \in [Member -> 0..MaxVersions]
      BY <1>2, BannedThen DEF PoolInv, PoolTypes, PoolTypeOK, Begun
    <3>4. alone' \in BOOLEAN /\ served' \in Server
      BY <1>2 DEF PoolInv, PoolTypes, PoolTypeOK, Server
    <3> QED
      BY <1>2, <2>1, <3>1, <3>2, <3>3, <3>4, TypesKept DEF PoolInv
  <2>3. Underway'
    BY <1>2, <2>1 DEF PoolInv, Start, Underway, Begun
  <2>4. ChosenIn'
    BY <1>2, <2>1
    DEF PoolInv, PoolTypes, PoolTypeOK, Launch, Start, Underway, ChosenIn, Begun, Read, Refusable
  <2>5. TagsIn'
    BY <1>2, <2>1 DEF PoolInv, Start, Underway, ChosenIn, TagsIn, Begun
  <2>6. Held'
    BY <1>2, <2>1 DEF PoolInv, PoolTypes, PoolTypeOK, Start, Held
  <2>7. Counted'
    BY <1>2, <2>1 DEF PoolInv, PoolTypes, Start, Underway, ChosenIn, Bans, Counted, Begun
  <2>8. ServesChosen' /\ PoolLoaded' /\ StoryTold'
    BY <1>2, <2>1
    DEF ServesChosen, PoolLoaded, StoryTold, PoolInv, PoolTypes, Start, Underway, Held, Begun,
        Closed
  <2>9. Current' /\ Converges'
    BY <1>2, BannedThen, ConvergesStill, ShareTaken DEF Begun
  <2> QED
    BY <2>2, <2>3, <2>4, <2>5, <2>6, <2>7, <2>8, <2>9 DEF PoolInv, Start, Bans
<1> QED
  BY <1>1, <1>2 DEF SwapOver

(* The refused servers are banned; was it the chosen one, the core is        *)
(* dropped.                                                                  *)
LEMMA UpKeeps == PoolInv /\ Up => PoolInv'
<1> SUFFICES ASSUME PoolInv, Up PROVE PoolInv'
  OBVIOUS
<1> USE PoolAssumption DEF PoolAssumption
<1>1. ASSUME launch.pc = "up", launch.single,
             launch' = [launch EXCEPT !.pc = "select"],
             UNCHANGED <<xproc, xmgr, refused, errors>>,
             UNCHANGED <<made, banned, alone, served, fruitless>>
      PROVE  PoolInv'
  <2>1. /\ launch' \in Launch
        /\ launch'.pc = "select"
        /\ UNCHANGED <<launch.chosen, launch.conf, launch.tags, launch.tries, launch.held, launch.single, launch.stuck, launch.ok>>
    BY <1>1 DEF PoolInv, PoolTypes, Launch, Steps
  <2>2. PoolTypes'
    <3>1. errors' \in Nat /\ xproc' \in BOOLEAN /\ refused' \subseteq Member
      BY <1>1, <2>1 DEF PoolInv, PoolTypes, PoolTypeOK
    <3>2. xmgr' \in Manager
      BY <1>1 DEF PoolInv, PoolTypes, PoolTypeOK, Manager
    <3> QED
      BY <1>1, <2>1, <3>1, <3>2, TypesStay DEF PoolInv
  <2>3. Underway'
    BY <1>1, <2>1 DEF PoolInv, Start, Underway, Begun
  <2>4. ChosenIn'
    BY <1>1, <2>1
    DEF PoolInv, PoolTypes, PoolTypeOK, Launch, Start, Underway, ChosenIn, Begun, Read, Refusable
  <2>5. TagsIn'
    BY <1>1, <2>1 DEF PoolInv, Start, Underway, ChosenIn, TagsIn, Begun
  <2>6. Held'
    BY <1>1, <2>1 DEF PoolInv, PoolTypes, PoolTypeOK, Start, Held
  <2>7. Counted'
    BY <1>1, <2>1 DEF PoolInv, PoolTypes, Start, Underway, ChosenIn, Bans, Counted, Begun
  <2> QED
    BY <1>1, <2>1, <2>2, <2>3, <2>4, <2>5, <2>6, <2>7, NothingServed, BansStay
    DEF PoolInv, Start, Underway, Bans, Begun
<1>2. ASSUME launch.pc = "up", ~launch.single, launch.chosen \in refused,
             launch' = [launch EXCEPT !.pc = "drop", !.tags = TagsLeft],
             errors' = errors + 1,
             banned' = Banned,
             UNCHANGED <<xproc, xmgr, refused, made, alone, served, fruitless>>
      PROVE  PoolInv'
  <2>1. /\ launch' \in Launch
        /\ launch'.pc = "drop" /\ launch'.tags = TagsLeft
        /\ UNCHANGED <<launch.chosen, launch.conf, launch.tries, launch.held, launch.single, launch.stuck, launch.ok>>
    BY <1>2 DEF PoolInv, PoolTypes, Launch, Steps, TagsLeft
  <2>2. PoolTypes'
    <3>1. errors' \in Nat /\ xproc' \in BOOLEAN /\ refused' \subseteq Member
      BY <1>2, <2>1 DEF PoolInv, PoolTypes, PoolTypeOK
    <3>2. xmgr' \in Manager
      BY <1>2 DEF PoolInv, PoolTypes, PoolTypeOK, Manager
    <3>3. fruitless' \in Nat /\ banned' \in [Member -> 0..MaxVersions]
      BY <1>2, BannedThen DEF PoolInv, PoolTypes, PoolTypeOK, Begun
    <3>4. alone' \in BOOLEAN /\ served' \in Server
      BY <1>2 DEF PoolInv, PoolTypes, PoolTypeOK, Server
    <3> QED
      BY <1>2, <2>1, <3>1, <3>2, <3>3, <3>4, TypesKept DEF PoolInv
  <2>3. Underway'
    BY <1>2, <2>1 DEF PoolInv, Start, Underway, Begun
  <2>4. ChosenIn'
    BY <1>2, <2>1
    DEF PoolInv, PoolTypes, PoolTypeOK, Launch, Start, Underway, ChosenIn, Begun, Read, Refusable
  <2>5. TagsIn'
    BY <1>2, <2>1 DEF PoolInv, Start, Underway, ChosenIn, TagsIn, Begun
  <2>6. Held'
    BY <1>2, <2>1 DEF PoolInv, PoolTypes, PoolTypeOK, Start, Held
  <2>7. Counted'
    BY <1>2, <2>1, BannedThen
    DEF PoolInv, PoolTypes, Start, Underway, ChosenIn, Bans, Counted, Begun, Begun, PoolTypeOK,
        TagsLeft
  <2>8. ServesChosen' /\ PoolLoaded' /\ StoryTold'
    BY <1>2, <2>1, NothingServed DEF PoolInv, Start, Underway, Begun
  <2>9. Current' /\ Converges'
    BY <1>2, BannedThen, ConvergesStill DEF Begun
  <2> QED
    BY <2>2, <2>3, <2>4, <2>5, <2>6, <2>7, <2>8, <2>9 DEF PoolInv, Start, Bans
<1>3. ASSUME launch.pc = "up", ~launch.single, launch.chosen \notin refused,
             launch' = [launch EXCEPT !.pc = "select", !.tags = TagsLeft],
             errors' = errors,
             banned' = Banned,
             UNCHANGED <<xproc, xmgr, refused, made, alone, served, fruitless>>
      PROVE  PoolInv'
  <2>1. /\ launch' \in Launch
        /\ launch'.pc = "select" /\ launch'.tags = TagsLeft
        /\ UNCHANGED <<launch.chosen, launch.conf, launch.tries, launch.held, launch.single, launch.stuck, launch.ok>>
    BY <1>3 DEF PoolInv, PoolTypes, Launch, Steps, TagsLeft
  <2>2. PoolTypes'
    <3>1. errors' \in Nat /\ xproc' \in BOOLEAN /\ refused' \subseteq Member
      BY <1>3, <2>1 DEF PoolInv, PoolTypes, PoolTypeOK
    <3>2. xmgr' \in Manager
      BY <1>3 DEF PoolInv, PoolTypes, PoolTypeOK, Manager
    <3>3. fruitless' \in Nat /\ banned' \in [Member -> 0..MaxVersions]
      BY <1>3, BannedThen DEF PoolInv, PoolTypes, PoolTypeOK, Begun
    <3>4. alone' \in BOOLEAN /\ served' \in Server
      BY <1>3 DEF PoolInv, PoolTypes, PoolTypeOK, Server
    <3> QED
      BY <1>3, <2>1, <3>1, <3>2, <3>3, <3>4, TypesKept DEF PoolInv
  <2>3. Underway'
    BY <1>3, <2>1 DEF PoolInv, Start, Underway, Begun
  <2>4. ChosenIn'
    BY <1>3, <2>1
    DEF PoolInv, PoolTypes, PoolTypeOK, Launch, Start, Underway, ChosenIn, Begun, Read, Refusable
  <2>5. TagsIn'
    BY <1>3, <2>1 DEF PoolInv, Start, Underway, ChosenIn, TagsIn, Begun, TagsLeft
  <2>6. Held'
    BY <1>3, <2>1 DEF PoolInv, PoolTypes, PoolTypeOK, Start, Held
  <2>7. Counted'
    BY <1>3, <2>1, BannedThen
    DEF PoolInv, PoolTypes, Start, Underway, ChosenIn, Bans, Counted, Begun, Begun, PoolTypeOK,
        TagsLeft
  <2>8. ServesChosen' /\ PoolLoaded' /\ StoryTold'
    BY <1>3, <2>1, NothingServed DEF PoolInv, Start, Underway, Begun
  <2>9. Current' /\ Converges'
    BY <1>3, BannedThen, ConvergesStill DEF Begun
  <2> QED
    BY <2>2, <2>3, <2>4, <2>5, <2>6, <2>7, <2>8, <2>9 DEF PoolInv, Start, Bans
<1>4. CASE launch.single
  BY <1>1, <1>4 DEF Up
<1>5. CASE ~launch.single /\ launch.chosen \in refused
  BY <1>2, <1>5 DEF Up
<1>6. CASE ~launch.single /\ launch.chosen \notin refused
  <2>1. errors + 0 = errors
    BY DEF PoolInv, PoolTypes
  <2> QED
    BY <1>3, <1>6, <2>1 DEF Up
<1> QED
  BY <1>4, <1>5, <1>6

(* The balancer is pinned, or the core is started again with one server.     *)
LEMMA SelectsKeeps == PoolInv /\ Selects => PoolInv'
<1> SUFFICES ASSUME PoolInv, Selects PROVE PoolInv'
  OBVIOUS
<1> USE PoolAssumption DEF PoolAssumption
<1>1. ASSUME launch.pc = "select",
             served' = [at |-> launch.chosen, pool |-> launch.tags, pin |-> Pin],
             alone' = (alone \/ launch.single),
             launch' = [launch EXCEPT !.pc = "idle"],
             UNCHANGED <<xproc, xmgr, refused, made, banned, errors, fruitless>>
      PROVE  PoolInv'
  <2>1. /\ launch' \in Launch
        /\ launch'.pc = "idle"
        /\ UNCHANGED <<launch.chosen, launch.conf, launch.tags, launch.tries, launch.held, launch.single, launch.stuck, launch.ok>>
    BY <1>1 DEF PoolInv, PoolTypes, Launch, Steps
  <2>2. PoolTypes'
    <3>1. errors' \in Nat /\ xproc' \in BOOLEAN /\ refused' \subseteq Member
      BY <1>1, <2>1 DEF PoolInv, PoolTypes, PoolTypeOK
    <3>2. xmgr' \in Manager
      BY <1>1 DEF PoolInv, PoolTypes, PoolTypeOK, Manager
    <3>3. fruitless' \in Nat /\ banned' \in [Member -> 0..MaxVersions]
      BY <1>1 DEF PoolInv, PoolTypes, PoolTypeOK, Begun
    <3>4. alone' \in BOOLEAN /\ served' \in Server
      BY <1>1 DEF PoolInv, PoolTypes, PoolTypeOK, Server, Launch, Pin
    <3> QED
      BY <1>1, <2>1, <3>1, <3>2, <3>3, <3>4, TypesKept DEF PoolInv
  <2>3. Underway'
    BY <1>1, <2>1 DEF PoolInv, Start, Underway, Begun
  <2>4. ChosenIn'
    BY <1>1, <2>1
    DEF PoolInv, PoolTypes, PoolTypeOK, Launch, Start, Underway, ChosenIn, Begun, Read, Refusable
  <2>5. TagsIn'
    BY <1>1, <2>1 DEF PoolInv, Start, Underway, ChosenIn, TagsIn, Begun
  <2>6. Held'
    BY <1>1, <2>1 DEF PoolInv, PoolTypes, PoolTypeOK, Start, Held
  <2>7. Counted'
    BY <1>1, <2>1 DEF PoolInv, PoolTypes, Start, Underway, ChosenIn, Bans, Counted, Begun
  <2>8. ServesChosen' /\ PoolLoaded' /\ StoryTold'
    BY <1>1, <2>1
    DEF ServesChosen, PoolLoaded, StoryTold, PoolInv, PoolTypes, PoolTypeOK, Launch, Start,
        Underway, ChosenIn, TagsIn, Held, Begun, Pin
  <2>9. Current' /\ Converges'
    BY <1>1, BansStay DEF Begun
  <2> QED
    BY <2>2, <2>3, <2>4, <2>5, <2>6, <2>7, <2>8, <2>9 DEF PoolInv, Start, Bans
<1>2. ASSUME launch.pc = "select", ~launch.single,
             launch' = [launch EXCEPT !.pc = "clear", !.conf = {launch.chosen}, !.single = TRUE],
             UNCHANGED <<xproc, xmgr, refused, errors>>,
             UNCHANGED <<made, banned, alone, served, fruitless>>
      PROVE  PoolInv'
  <2>1. /\ launch' \in Launch
        /\ launch'.pc = "clear" /\ launch'.conf = {launch.chosen} /\ launch'.single
        /\ UNCHANGED <<launch.chosen, launch.tags, launch.tries, launch.held, launch.stuck, launch.ok>>
    BY <1>2 DEF PoolInv, PoolTypes, Launch, Steps, Start, Underway, Begun
  <2>2. PoolTypes'
    <3>1. errors' \in Nat /\ xproc' \in BOOLEAN /\ refused' \subseteq Member
      BY <1>2, <2>1 DEF PoolInv, PoolTypes, PoolTypeOK, Start, Underway, Begun
    <3>2. xmgr' \in Manager
      BY <1>2 DEF PoolInv, PoolTypes, PoolTypeOK, Manager, Start, Underway, Begun
    <3> QED
      BY <1>2, <2>1, <3>1, <3>2, TypesStay DEF PoolInv
  <2>3. Underway'
    BY <1>2, <2>1 DEF PoolInv, Start, Underway, Begun
  <2>4. ChosenIn'
    BY <1>2, <2>1
    DEF PoolInv, PoolTypes, PoolTypeOK, Launch, Start, Underway, ChosenIn, Begun, Read, Refusable
  <2>5. TagsIn'
    BY <1>2, <2>1 DEF PoolInv, Start, Underway, ChosenIn, TagsIn, Begun
  <2>6. Held'
    BY <1>2, <2>1 DEF PoolInv, PoolTypes, PoolTypeOK, Start, Held
  <2>7. Counted'
    BY <1>2, <2>1 DEF PoolInv, PoolTypes, Start, Underway, ChosenIn, Bans, Counted, Begun
  <2> QED
    BY <1>2, <2>1, <2>2, <2>3, <2>4, <2>5, <2>6, <2>7, NothingServed, BansStay
    DEF PoolInv, Start, Underway, Bans, Begun
<1> QED
  BY <1>1, <1>2 DEF Selects

(* The stop before the fallback.                                             *)
LEMMA ClearsKeeps == PoolInv /\ Clears => PoolInv'
<1> SUFFICES ASSUME PoolInv, Clears PROVE PoolInv'
  OBVIOUS
<1> USE PoolAssumption DEF PoolAssumption
<1>1. ASSUME launch.pc = "clear",
             launch' = [launch EXCEPT !.pc = "stop"],
             xproc' = FALSE, xmgr' = [xmgr EXCEPT !.running = FALSE],
             UNCHANGED <<errors, refused>>,
             UNCHANGED <<made, banned, alone, served, fruitless>>
      PROVE  PoolInv'
  <2>1. /\ launch' \in Launch
        /\ launch'.pc = "stop"
        /\ UNCHANGED <<launch.chosen, launch.conf, launch.tags, launch.tries, launch.held, launch.single, launch.stuck, launch.ok>>
    BY <1>1 DEF PoolInv, PoolTypes, Launch, Steps
  <2>2. PoolTypes'
    <3>1. errors' \in Nat /\ xproc' \in BOOLEAN /\ refused' \subseteq Member
      BY <1>1, <2>1 DEF PoolInv, PoolTypes, PoolTypeOK
    <3>2. xmgr' \in Manager
      BY <1>1 DEF PoolInv, PoolTypes, PoolTypeOK, Manager
    <3> QED
      BY <1>1, <2>1, <3>1, <3>2, TypesStay DEF PoolInv
  <2>3. Underway'
    BY <1>1, <2>1 DEF PoolInv, Start, Underway, Begun
  <2>4. ChosenIn'
    BY <1>1, <2>1
    DEF PoolInv, PoolTypes, PoolTypeOK, Launch, Start, Underway, ChosenIn, Begun, Read, Refusable
  <2>5. TagsIn'
    BY <1>1, <2>1 DEF PoolInv, Start, Underway, ChosenIn, TagsIn, Begun
  <2>6. Held'
    BY <1>1, <2>1 DEF PoolInv, PoolTypes, PoolTypeOK, Start, Held
  <2>7. Counted'
    BY <1>1, <2>1 DEF PoolInv, PoolTypes, Start, Underway, ChosenIn, Bans, Counted, Begun
  <2> QED
    BY <1>1, <2>1, <2>2, <2>3, <2>4, <2>5, <2>6, <2>7, NothingServed, BansStay
    DEF PoolInv, Start, Underway, Bans, Begun
<1>2. ASSUME launch.pc = "clear",
             launch' = [[launch EXCEPT !.pc = "stop"] EXCEPT !.stuck = TRUE],
             errors' = errors + 1,
             UNCHANGED <<xproc, xmgr, refused>>,
             UNCHANGED <<made, banned, alone, served, fruitless>>
      PROVE  PoolInv'
  <2>1. /\ launch' \in Launch
        /\ launch'.pc = "stop" /\ launch'.stuck
        /\ UNCHANGED <<launch.chosen, launch.conf, launch.tags, launch.tries, launch.held, launch.single, launch.ok>>
    BY <1>2 DEF PoolInv, PoolTypes, Launch, Steps
  <2>2. PoolTypes'
    <3>1. errors' \in Nat /\ xproc' \in BOOLEAN /\ refused' \subseteq Member
      BY <1>2, <2>1 DEF PoolInv, PoolTypes, PoolTypeOK
    <3>2. xmgr' \in Manager
      BY <1>2 DEF PoolInv, PoolTypes, PoolTypeOK, Manager
    <3> QED
      BY <1>2, <2>1, <3>1, <3>2, TypesStay DEF PoolInv
  <2>3. Underway'
    BY <1>2, <2>1 DEF PoolInv, Start, Underway, Begun
  <2>4. ChosenIn'
    BY <1>2, <2>1
    DEF PoolInv, PoolTypes, PoolTypeOK, Launch, Start, Underway, ChosenIn, Begun, Read, Refusable
  <2>5. TagsIn'
    BY <1>2, <2>1 DEF PoolInv, Start, Underway, ChosenIn, TagsIn, Begun
  <2>6. Held'
    BY <1>2, <2>1 DEF PoolInv, PoolTypes, PoolTypeOK, Start, Held
  <2>7. Counted'
    BY <1>2, <2>1 DEF PoolInv, PoolTypes, Start, Underway, ChosenIn, Bans, Counted, Begun
  <2> QED
    BY <1>2, <2>1, <2>2, <2>3, <2>4, <2>5, <2>6, <2>7, NothingServed, BansStay
    DEF PoolInv, Start, Underway, Bans, Begun
<1> QED
  BY <1>1, <1>2 DEF Clears, Stops, Mishap

(* The core is stopped after a failure.                                      *)
LEMMA DropsKeeps == PoolInv /\ Drops => PoolInv'
<1> SUFFICES ASSUME PoolInv, Drops PROVE PoolInv'
  OBVIOUS
<1> USE PoolAssumption DEF PoolAssumption
<1>1. ASSUME launch.pc = "drop",
             launch' = [launch EXCEPT !.pc = "idle", !.ok = FALSE],
             xproc' = FALSE, xmgr' = [xmgr EXCEPT !.running = FALSE],
             UNCHANGED <<errors, refused>>,
             UNCHANGED <<made, banned, alone, served, fruitless>>
      PROVE  PoolInv'
  <2>1. /\ launch' \in Launch
        /\ launch'.pc = "idle" /\ ~launch'.ok
        /\ UNCHANGED <<launch.chosen, launch.conf, launch.tags, launch.tries, launch.held, launch.single, launch.stuck>>
    BY <1>1 DEF PoolInv, PoolTypes, Launch, Steps
  <2>2. PoolTypes'
    <3>1. errors' \in Nat /\ xproc' \in BOOLEAN /\ refused' \subseteq Member
      BY <1>1, <2>1 DEF PoolInv, PoolTypes, PoolTypeOK
    <3>2. xmgr' \in Manager
      BY <1>1 DEF PoolInv, PoolTypes, PoolTypeOK, Manager
    <3> QED
      BY <1>1, <2>1, <3>1, <3>2, TypesStay DEF PoolInv
  <2>3. Underway'
    BY <1>1, <2>1 DEF PoolInv, Start, Underway, Begun
  <2>4. ChosenIn'
    BY <1>1, <2>1
    DEF PoolInv, PoolTypes, PoolTypeOK, Launch, Start, Underway, ChosenIn, Begun, Read, Refusable
  <2>5. TagsIn'
    BY <1>1, <2>1 DEF PoolInv, Start, Underway, ChosenIn, TagsIn, Begun
  <2>6. Held'
    BY <1>1, <2>1 DEF PoolInv, PoolTypes, PoolTypeOK, Start, Held
  <2>7. Counted'
    BY <1>1, <2>1 DEF PoolInv, PoolTypes, Start, Underway, ChosenIn, Bans, Counted, Begun
  <2>8. ServesChosen' /\ PoolLoaded' /\ StoryTold'
    BY <1>1, <2>1
    DEF ServesChosen, PoolLoaded, StoryTold, PoolInv, PoolTypes, Start, Underway, Held, Begun,
        Closed
  <2>9. Current' /\ Converges'
    BY <1>1, BansStay DEF Begun
  <2> QED
    BY <2>2, <2>3, <2>4, <2>5, <2>6, <2>7, <2>8, <2>9 DEF PoolInv, Start, Bans
<1>2. ASSUME launch.pc = "drop",
             launch' = [[launch EXCEPT !.pc = "idle", !.ok = FALSE] EXCEPT !.stuck = TRUE],
             errors' = errors + 1,
             UNCHANGED <<xproc, xmgr, refused>>,
             UNCHANGED <<made, banned, alone, served, fruitless>>
      PROVE  PoolInv'
  <2>1. /\ launch' \in Launch
        /\ launch'.pc = "idle" /\ launch'.stuck /\ ~launch'.ok
        /\ UNCHANGED <<launch.chosen, launch.conf, launch.tags, launch.tries, launch.held, launch.single>>
    BY <1>2 DEF PoolInv, PoolTypes, Launch, Steps
  <2>2. PoolTypes'
    <3>1. errors' \in Nat /\ xproc' \in BOOLEAN /\ refused' \subseteq Member
      BY <1>2, <2>1 DEF PoolInv, PoolTypes, PoolTypeOK
    <3>2. xmgr' \in Manager
      BY <1>2 DEF PoolInv, PoolTypes, PoolTypeOK, Manager
    <3> QED
      BY <1>2, <2>1, <3>1, <3>2, TypesStay DEF PoolInv
  <2>3. Underway'
    BY <1>2, <2>1 DEF PoolInv, Start, Underway, Begun
  <2>4. ChosenIn'
    BY <1>2, <2>1
    DEF PoolInv, PoolTypes, PoolTypeOK, Launch, Start, Underway, ChosenIn, Begun, Read, Refusable
  <2>5. TagsIn'
    BY <1>2, <2>1 DEF PoolInv, Start, Underway, ChosenIn, TagsIn, Begun
  <2>6. Held'
    BY <1>2, <2>1 DEF PoolInv, PoolTypes, PoolTypeOK, Start, Held
  <2>7. Counted'
    BY <1>2, <2>1 DEF PoolInv, PoolTypes, Start, Underway, ChosenIn, Bans, Counted, Begun
  <2>8. ServesChosen' /\ PoolLoaded' /\ StoryTold'
    BY <1>2, <2>1
    DEF ServesChosen, PoolLoaded, StoryTold, PoolInv, PoolTypes, Start, Underway, Held, Begun,
        Closed
  <2>9. Current' /\ Converges'
    BY <1>2, BansStay DEF Begun
  <2> QED
    BY <2>2, <2>3, <2>4, <2>5, <2>6, <2>7, <2>8, <2>9 DEF PoolInv, Start, Bans
<1> QED
  BY <1>1, <1>2 DEF Drops, Stops, Mishap

(* Between starts: a switch inside the running core.                         *)
LEMMA SwitchKeeps ==
  ASSUME PoolInv, NEW m \in served.pool, launch.pc = "idle", served.at # Nobody, ~alone,
         served' = [served EXCEPT !.at = m, !.pin = m],
         UNCHANGED <<made, banned, refused, alone, xproc, xmgr, launch, errors, fruitless>>
  PROVE  PoolInv'
<1>1. m \in Member /\ served' \in Server /\ served'.at = m /\ served'.pin = m /\ served'.pool = served.pool
  BY DEF PoolInv, PoolTypes, PoolTypeOK, Server
<1>2. PoolTypes'
  BY <1>1 DEF PoolInv, PoolTypes, PoolTypeOK, Server
<1>3. Start'
  BY DEF PoolInv, Start, Underway, ChosenIn, TagsIn, Held, Begun, Read, Refusable
<1>4. ServesChosen' /\ PoolLoaded' /\ StoryTold'
  BY <1>1 DEF PoolInv, ServesChosen, PoolLoaded, StoryTold
<1>5. Bans'
  BY DEF PoolInv, Bans, Counted, Current, Converges, Begun
<1> QED
  BY <1>2, <1>3, <1>4, <1>5 DEF PoolInv

(* Between starts: the core ends by itself.                                  *)
LEMMA DiesKeeps == PoolInv /\ Dies => PoolInv'
<1> SUFFICES ASSUME PoolInv, Dies PROVE PoolInv'
  OBVIOUS
<1>1. PoolTypes'
  <2>1. xmgr' \in Manager /\ xproc' \in BOOLEAN /\ served' \in Server
    BY DEF Dies, Closed, Server, Manager, PoolInv, PoolTypes, PoolTypeOK
  <2>2. errors' \in Nat
    BY DEF Dies, PoolInv, PoolTypes
  <2> QED
    BY <2>1, <2>2, TypesKept DEF Dies, PoolInv, PoolTypes, PoolTypeOK
<1>2. Start'
  BY DEF Dies, PoolInv, Start, Underway, ChosenIn, TagsIn, Held, Begun, Read, Refusable
<1>3. ServesChosen' /\ PoolLoaded' /\ StoryTold'
  BY DEF Dies, PoolInv, PoolTypes, ServesChosen, PoolLoaded, StoryTold, Closed
<1>4. Bans'
  BY DEF Dies, PoolInv, Bans, Counted, Current, Converges, Begun
<1> QED
  BY <1>1, <1>2, <1>3, <1>4 DEF PoolInv

(* Between starts: the outbound of a server is replaced.                     *)
LEMMA ReplacedKeeps ==
  ASSUME PoolInv, NEW m \in Member, NEW takes \in BOOLEAN, Replaced(m, takes)
  PROVE  PoolInv'
<1> USE PoolAssumption DEF PoolAssumption
<1>1. PoolTypes'
  <2>1. made[m].id + 1 \in 1..MaxVersions
    BY DEF Replaced, PoolInv, PoolTypes, PoolTypeOK
  <2>2. made' \in [Member -> [id : 1..MaxVersions, takes : BOOLEAN]]
    BY <2>1 DEF Replaced, PoolInv, PoolTypes, PoolTypeOK
  <2> QED
    BY <2>2 DEF Replaced, PoolInv, PoolTypes, PoolTypeOK
<1>2. Start'
  BY DEF Replaced, PoolInv, Start, Underway, ChosenIn, TagsIn, Held, Begun, Read
<1>3. ServesChosen' /\ PoolLoaded' /\ StoryTold'
  BY DEF Replaced, PoolInv, ServesChosen, PoolLoaded, StoryTold
<1>4. Counted' /\ Current'
  BY DEF Replaced, Counted, Current, Begun
<1>5. Converges'
  BY Countable DEF Replaced, Converges
<1> QED
  BY <1>1, <1>2, <1>3, <1>4, <1>5 DEF PoolInv, Bans

(* --- What follows ---------------------------------------------------------- *)

(* Every step keeps the invariant.                                           *)
LEMMA PoolKeeps == PoolInv /\ [PoolNext]_poolVars => PoolInv'
<1> SUFFICES ASSUME PoolInv, [PoolNext]_poolVars PROVE PoolInv'
  OBVIOUS
<1>1. ASSUME NEW m \in Member, NEW takes \in BOOLEAN, Replaced(m, takes) PROVE PoolInv'
  BY <1>1, ReplacedKeeps
<1>2. ASSUME NEW m \in Member, Connects(m) PROVE PoolInv'
  BY <1>2, PlanKeeps DEF Connects
<1>3. ASSUME NEW m \in Member, HotSwitches(m) PROVE PoolInv'
  BY <1>3, PlanKeeps, SwitchKeeps DEF HotSwitches
<1>4. CASE UNCHANGED poolVars
  BY <1>4
  DEF poolVars, PoolInv, PoolTypes, PoolTypeOK, Start, Underway, ChosenIn, TagsIn, Held, Begun,
      Read, Refusable,
              ServesChosen, PoolLoaded, StoryTold, Bans, Counted, Current, Converges
<1> QED
  BY <1>1, <1>2, <1>3, <1>4, StopsOldKeeps, ChecksPortsKeeps, SpawnsKeeps, CoreQuitsKeeps, ListensKeeps,
     NoticesEndKeeps, NeverListensKeeps, MarksRunningKeeps, SwapOverKeeps, UpKeeps, SelectsKeeps, ClearsKeeps,
     DropsKeeps, DiesKeeps
  DEF PoolNext

(* For any servers, any number of tries and any failures: the traffic goes   *)
(* to the chosen server, no hot switch leaves the running core, the user     *)
(* hears of every failure and of none that was made good, and every start    *)
(* that runs out of tries takes its share of servers out for good.           *)
THEOREM PoolIsSafe == PoolSpec => []PoolSafe
<1>1. PoolInit => PoolInv
  BY PoolStarts
<1>2. PoolInv /\ [PoolNext]_poolVars => PoolInv'
  BY PoolKeeps
<1>3. PoolInv => PoolSafe
  BY DEF PoolInv, PoolTypes, Bans, PoolSafe
<1> QED
  BY <1>1, <1>2, <1>3, PTL DEF PoolSpec

=============================================================================
