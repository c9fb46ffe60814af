------------------------------- MODULE VmSetup -------------------------------
(***************************************************************************)
(* OpenStackBaseCase: a test matches its plan to the nodes, clears the     *)
(* servers of the test before, and creates its own: a volume from the pool *)
(* of the available ones, a flavor, for a bound virtual machine an         *)
(* aggregate of its node, the server, and a live migration when the server *)
(* came up elsewhere.  OpenStack keeps volumes, flavors, aggregates and    *)
(* servers from test to test; what the test reads of them it reads once.   *)
(***************************************************************************)
EXTENDS Integers, FiniteSets

CONSTANTS Hosts,         \* the compute nodes
          PlanNodes,     \* the names of the nodes in the topology files
          MasterNode,    \* the plan node whose role is master
          Vms,           \* the virtual machines: [name, node, removable, pinned]
          Servers,       \* identities of servers
          Volumes,       \* identities of volumes
          MaxTests, MaxFaults,   \* bounds: tests of the session, commands that fail
          Missing        \* no such thing

ASSUME VmSetupAssumption ==
    /\ MasterNode \in PlanNodes
    /\ IsFiniteSet(Hosts) /\ IsFiniteSet(PlanNodes) /\ Cardinality(PlanNodes) <= Cardinality(Hosts)
    /\ \A vm \in Vms : vm.node \in PlanNodes /\ vm.removable \in BOOLEAN /\ vm.pinned \in BOOLEAN
    /\ IsFiniteSet(Servers) /\ IsFiniteSet(Volumes)
    /\ Missing \notin Hosts \cup PlanNodes \cup Vms \cup Servers \cup Volumes
    /\ \A group \in SUBSET Hosts : Missing # group
    /\ MaxTests \in Nat /\ MaxFaults \in Nat

VARIABLES
    servers,     \* OpenStack: per server its record, or Missing
    volumes,     \* OpenStack: the status of each volume
    flavors,     \* OpenStack: per flavor "none", "bare" or with its "metadata"
    aggregates,  \* OpenStack: per plan node the hosts of <node>_only, Missing before it is created
    known,       \* the test's copies: resource_dict; listed: that of the volumes is not empty
    used,        \* volume_use_list
    nodeDict,    \* node_dict: the host of each plan node
    at,          \* where the test is: the operation's next command and its locals
    todo,        \* the virtual machines still to create
    made,        \* the virtual machines the test asked for
    tests, faults

cloud == <<servers, volumes, flavors, aggregates>>
session == <<known, used, nodeDict, todo, made, tests>>
vmVars == <<cloud, session, at, faults>>

\* One flavor for each plan node's bound machines, one for the removable ones.
Flavors == PlanNodes \cup {"any"}
FlavorOf(vm) == IF vm.removable THEN "any" ELSE vm.node

Status == {"BUILD", "ACTIVE", "ERROR", "MIGRATING"}
Server == [vm : Vms, volume : Volumes, status : Status, host : Hosts \cup {Missing},
           target : Hosts \cup {Missing}, flavor : {"bare", "metadata"}, deleted : BOOLEAN]
PCs == {"out", "clear", "prepare", "idle", "volume", "volumeWait", "flavor", "aggregate", "update",
        "metadata", "server", "poll", "await", "failed"}

VMTypeOK ==
    /\ servers \in [Servers -> Server \cup {Missing}]
    /\ volumes \in [Volumes -> {"none", "creating", "available", "in-use", "error"}]
    /\ flavors \in [Flavors -> {"none", "bare", "metadata"}]
    /\ \A n \in PlanNodes : aggregates[n] = Missing \/ aggregates[n] \subseteq Hosts
    /\ known \in [volumes : SUBSET Volumes, listed : BOOLEAN, flavors : SUBSET Flavors,
                 aggregates : SUBSET PlanNodes]
    /\ used \subseteq Volumes
    /\ nodeDict \in [PlanNodes -> Hosts \cup {Missing}]
    /\ at \in [pc : PCs, vm : Vms \cup {Missing}, volume : Volumes \cup {Missing}]
    /\ todo \subseteq Vms /\ made \subseteq Vms
    /\ (at.vm = Missing) <=> at.pc \in {"out", "clear", "prepare", "idle", "failed"}
    /\ tests \in 0..MaxTests
    /\ faults \in 0..MaxFaults

Nothing == [volumes |-> {}, listed |-> FALSE, flavors |-> {}, aggregates |-> {}]
Out(pc) == [pc |-> pc, vm |-> Missing, volume |-> Missing]

VMInit ==
    /\ servers = [s \in Servers |-> Missing]
    /\ volumes \in [Volumes -> {"none", "available"}]
    /\ flavors \in {[f \in Flavors |-> "none"], [f \in Flavors |-> "metadata"]}
    /\ aggregates \in {[n \in PlanNodes |-> Missing]} \cup [PlanNodes -> {{h} : h \in Hosts}]
    /\ known = Nothing
    /\ used = {}
    /\ nodeDict = [n \in PlanNodes |-> Missing]
    /\ at = Out("out")
    /\ todo = {} /\ made = {}
    /\ tests = 0 /\ faults = 0

---------------------------------------------------------------------------
(* One command of the test: it works, or it fails (run() then returns no   *)
(* stdout), and may have taken effect all the same when only the answer    *)
(* was lost.                                                               *)

Working == UNCHANGED faults
Failing == faults < MaxFaults /\ faults' = faults + 1
Either == Working \/ Failing

Go(pc) == at' = [at EXCEPT !.pc = pc]

\* Faulty variant: what the operation held survives the exception.
RaiseHolding == Go("failed")

\* An exception nobody catches: the test ends, its teardown follows.
Raise == at' = Out("failed")

Present(s) == servers[s] # Missing

---------------------------------------------------------------------------
(* The test and its topology.                                              *)

\* inject_openstack_basecase_dependencies() and _match_node().  A node whose slot
\* could not be read is taken for an agent: a plan without a master then.
BeginTest ==
    /\ at.pc = "out"
    /\ tests < MaxTests
    /\ tests' = tests + 1
    /\ known' = Nothing /\ used' = {}
    /\ \E hosts \in [PlanNodes -> Hosts] :
          /\ \A m, n \in PlanNodes : hosts[m] = hosts[n] => m = n
          /\ \/ nodeDict' = hosts /\ Working
             \/ nodeDict' = [hosts EXCEPT ![MasterNode] = Missing] /\ Failing
    /\ todo' \in SUBSET Vms /\ made' = {}
    /\ at' = Out("clear")
    /\ UNCHANGED cloud

\* clear_server(): every server is asked to go, none is waited for; memory a node
\* has not given back after five minutes raises, for want of the node's hostname.
Clear(next, late) ==
    /\ \/ \E kept \in SUBSET {s \in Servers : Present(s)} :
             /\ servers' = [s \in Servers |->
                              IF Present(s) /\ s \notin kept THEN [servers[s] EXCEPT !.deleted = TRUE]
                              ELSE servers[s]]
             /\ faults + Cardinality(kept) <= MaxFaults
             /\ faults' = faults + Cardinality(kept)
             /\ at' \in {Out(next)} \cup {Out(pc) : pc \in IF \E s \in Servers : Present(s) THEN {late} ELSE {}}
       \/ at' = Out(next) /\ Failing /\ UNCHANGED servers
    /\ UNCHANGED <<volumes, flavors, aggregates, session>>

ClearFirst == at.pc = "clear" /\ Clear("prepare", "failed")
ClearAgain == at.pc = "idle" /\ todo = {} /\ Clear("idle", "failed")

\* The huge pages of the nodes, and nova-compute up again.
Prepare ==
    /\ at.pc = "prepare"
    /\ \/ used' = {} /\ Go("idle") /\ Working
       \/ UNCHANGED used /\ Raise /\ Failing
    /\ UNCHANGED <<cloud, known, nodeDict, todo, made, tests>>

\* teardown_method(), after the test or after what it raised.
Teardown == at.pc = "failed" /\ Clear("out", "out")

EndTest ==
    /\ at.pc = "idle" /\ todo = {}
    /\ at' = Out("failed")
    /\ UNCHANGED <<cloud, session, faults>>

\* A test may create more servers after those of its topology.
MoreServers ==
    /\ at.pc = "idle" /\ todo = {}
    /\ \E vm \in Vms \ made : todo' = {vm}
    /\ UNCHANGED <<cloud, at, known, used, nodeDict, made, tests, faults>>

---------------------------------------------------------------------------
(* create_server().                                                        *)

\* _load_volumes(): only an empty list is loaded again.  Which of them hold the image
\* is read too; a volume that could not be shown is on the list and never matches.
CreateServer ==
    /\ at.pc = "idle"
    /\ \E vm \in todo :
          /\ todo' = todo \ {vm} /\ made' = made \cup {vm}
          /\ \/ /\ ~known.listed
                /\ \/ Raise /\ Failing /\ UNCHANGED known
                   \/ \E unread \in SUBSET {v \in Volumes : volumes[v] = "available"} :
                         /\ known' = [known EXCEPT
                                !.volumes = {v \in Volumes : volumes[v] = "available"} \ unread,
                                !.listed = \E v \in Volumes : volumes[v] = "available"]
                         /\ faults + Cardinality(unread) <= MaxFaults
                         /\ faults' = faults + Cardinality(unread)
                         /\ at' = [pc |-> "volume", vm |-> vm, volume |-> Missing]
             \/ /\ known.listed
                /\ at' = [pc |-> "volume", vm |-> vm, volume |-> Missing]
                /\ UNCHANGED <<known, faults>>
    /\ UNCHANGED <<cloud, used, nodeDict, tests>>

Unused == known.volumes \ used

\* Faulty variant: the volume that was picked is not kept in volume_use_list.
PickVolumeUnlisted ==
    /\ at.pc = "volume"
    /\ \E v \in Unused : at' = [at EXCEPT !.pc = "flavor", !.volume = v]
    /\ UNCHANGED <<cloud, session, faults>>

PickVolume ==
    /\ at.pc = "volume"
    /\ \E v \in Unused :
          /\ used' = used \cup {v}
          /\ at' = [at EXCEPT !.pc = "flavor", !.volume = v]
    /\ UNCHANGED <<cloud, known, nodeDict, todo, made, tests, faults>>

\* create_volume_with_image(); the quota of volumes may be used up.
NewVolume ==
    /\ at.pc = "volume"
    /\ Unused = {}
    /\ \/ \E v \in {w \in Volumes : volumes[w] = "none"} :
             \/ /\ volumes' = [volumes EXCEPT ![v] = "creating"]
                /\ at' = [at EXCEPT !.pc = "volumeWait", !.volume = v]
                /\ Working
             \/ /\ volumes' \in {volumes, [volumes EXCEPT ![v] = "creating"]}
                /\ Raise /\ Failing
       \/ /\ "none" \notin {volumes[v] : v \in Volumes}
          /\ Raise /\ Working /\ UNCHANGED volumes
    /\ UNCHANGED <<servers, flavors, aggregates, session>>

\* Faulty variant: the wait is over only when the volume is available.
VolumeWaitAvailable ==
    /\ at.pc = "volumeWait"
    /\ \/ /\ volumes[at.volume] = "available"
          /\ known' = [known EXCEPT !.volumes = @ \cup {at.volume}, !.listed = TRUE]
          /\ used' = used \cup {at.volume}
          /\ Go("flavor") /\ Working
       \/ Raise /\ Failing /\ UNCHANGED <<known, used>>
    /\ UNCHANGED <<cloud, nodeDict, todo, made, tests>>

\* The volume is shown until it is made; only one that is available is kept.
VolumeWait ==
    /\ at.pc = "volumeWait"
    /\ \/ /\ volumes[at.volume] = "available"
          /\ known' = [known EXCEPT !.volumes = @ \cup {at.volume}, !.listed = TRUE]
          /\ used' = used \cup {at.volume}
          /\ Go("flavor") /\ Working
       \/ /\ volumes[at.volume] = "error"
          /\ at' = [at EXCEPT !.pc = "flavor", !.volume = Missing]
          /\ Working /\ UNCHANGED <<known, used>>
       \/ Raise /\ Failing /\ UNCHANGED <<known, used>>
    /\ UNCHANGED <<cloud, nodeDict, todo, made, tests>>

\* _get_flavor(): the list is loaded once; a flavor that is not in it is created.
GetFlavor ==
    /\ at.pc = "flavor"
    /\ LET f == FlavorOf(at.vm)
           list == IF known.flavors = {} THEN {g \in Flavors : flavors[g] # "none"} ELSE known.flavors
           created == [flavors EXCEPT ![f] = IF @ = "none" THEN "bare" ELSE @]
       IN  \/ /\ known.flavors = {}
              /\ Raise /\ Failing /\ UNCHANGED <<flavors, known>>
           \/ /\ known' = [known EXCEPT !.flavors = list]
              /\ f \in list
              /\ Go(IF at.vm.removable THEN "server" ELSE "update")
              /\ Working /\ UNCHANGED flavors
           \/ /\ known' = [known EXCEPT !.flavors = list]
              /\ f \notin list
              /\ Go(IF at.vm.removable THEN "metadata" ELSE "aggregate")
              /\ (flavors' = created /\ Working) \/ (flavors' \in {flavors, created} /\ Failing)
    /\ UNCHANGED <<servers, volumes, aggregates, used, nodeDict, todo, made, tests>>

\* remove_aggregate_host() for every host, then add_aggregate_host().
Rebind(n) ==
    \E kept \in SUBSET aggregates[n], added \in BOOLEAN :
       /\ aggregates' = [aggregates EXCEPT ![n] = kept \cup IF added THEN {nodeDict[n]} ELSE {}]
       /\ faults' = faults + Cardinality(kept) + (IF added THEN 0 ELSE 1)
       /\ faults' <= MaxFaults

\* The aggregate is of the node when the first of its hosts is.
Bind(n, next) ==
    \E first \in aggregates[n] :
       IF nodeDict[n] = Missing THEN Raise /\ Working /\ UNCHANGED aggregates
       ELSE /\ Go(next)
            /\ IF first = nodeDict[n] THEN Working /\ UNCHANGED aggregates ELSE Rebind(n)

ShowFails == Raise /\ Failing /\ UNCHANGED aggregates
ShowRaises == Raise /\ Working /\ UNCHANGED aggregates

\* create_aggregate(): the aggregate, then its host.
CreateAggregate(n) ==
    LET bound == [aggregates EXCEPT ![n] = {nodeDict[n]}]
        empty == [aggregates EXCEPT ![n] = {}]
    IN  /\ nodeDict[n] # Missing
        /\ Go("metadata")
        /\ (aggregates' = bound /\ Working) \/ (aggregates' \in {aggregates, empty, bound} /\ Failing)

\* _get_aggregate(), for a flavor that is new.
GetAggregate ==
    /\ at.pc = "aggregate"
    /\ LET n == at.vm.node
           list == IF known.aggregates = {} THEN {m \in PlanNodes : aggregates[m] # Missing}
                   ELSE known.aggregates
       IN  \/ known.aggregates = {} /\ ShowFails /\ UNCHANGED known
           \/ /\ n \notin list
              /\ known' = [known EXCEPT !.aggregates = list \cup {n}]
              /\ CreateAggregate(n)
           \/ /\ n \notin list /\ nodeDict[n] = Missing
              /\ known' = [known EXCEPT !.aggregates = list]
              /\ ShowRaises
           \/ /\ n \in list
              /\ known' = [known EXCEPT !.aggregates = list]
              /\ \/ ShowFails
                 \/ aggregates[n] \in {Missing, {}} /\ ShowRaises
                 \/ aggregates[n] # Missing /\ Bind(n, "metadata")
    /\ UNCHANGED <<servers, volumes, flavors, used, nodeDict, todo, made, tests>>

\* add_metadata_to_flavor(): the properties that bind the flavor to the aggregate.
SetMetadata ==
    /\ at.pc = "metadata"
    /\ LET f == FlavorOf(at.vm)
           set == [flavors EXCEPT ![f] = IF @ = "none" THEN @ ELSE "metadata"]
       IN  /\ (flavors' = set /\ Working) \/ (flavors' \in {flavors, set} /\ Failing)
           /\ known' = [known EXCEPT !.flavors = @ \cup {f}]
    /\ Go("server")
    /\ UNCHANGED <<servers, volumes, aggregates, used, nodeDict, todo, made, tests>>

\* Faulty variant: the aggregate of a flavor that exists is left as it is.
UpdateNothing ==
    /\ at.pc = "update"
    /\ Go("server")
    /\ UNCHANGED <<cloud, session, faults>>

\* _update_aggregate(), for a flavor that exists: an aggregate without hosts stays
\* without.
UpdateAggregate ==
    /\ at.pc = "update"
    /\ LET n == at.vm.node
       IN  \/ ShowFails
           \/ aggregates[n] = Missing /\ ShowRaises
           \/ aggregates[n] = {} /\ Go("server") /\ Working /\ UNCHANGED aggregates
           \/ aggregates[n] \notin {Missing, {}} /\ Bind(n, "server")
    /\ UNCHANGED <<servers, volumes, flavors, session>>

\* What OpenStack does with a server create command it can obey.
Accept(vm, v) ==
    LET f == FlavorOf(vm)
        new == [vm |-> vm, volume |-> v, status |-> "BUILD", host |-> Missing,
                target |-> IF vm.pinned THEN nodeDict[vm.node] ELSE Missing,
                flavor |-> flavors[f], deleted |-> FALSE]
        free == {s \in Servers : ~Present(s)}
    IN  IF volumes[v] = "available" /\ flavors[f] # "none" /\ free # {}
        THEN /\ servers' = [servers EXCEPT ![CHOOSE s \in free : TRUE] = new]
             /\ volumes' = [volumes EXCEPT ![v] = "in-use"]
        ELSE UNCHANGED <<servers, volumes>>

\* create_server_with_volume(): what became of the command is not looked at.
ServerCreate ==
    /\ at.pc = "server"
    /\ \/ /\ at.volume = Missing \/ (at.vm.pinned /\ nodeDict[at.vm.node] = Missing)
          /\ Raise /\ Working /\ UNCHANGED <<servers, volumes>>
       \/ /\ at.volume # Missing
          /\ at.vm.pinned => nodeDict[at.vm.node] # Missing
          /\ Go("poll")
          /\ \/ Accept(at.vm, at.volume) /\ Either
             \/ UNCHANGED <<servers, volumes>> /\ Failing
    /\ UNCHANGED <<flavors, aggregates, session>>

Named(vm) == {s \in Servers : Present(s) /\ servers[s].vm = vm}
Done == at' = Out("idle")

\* get_server_detail(): nothing when the name is of no server, or of two.
Detail(next(_)) ==
    \/ Raise /\ Failing /\ UNCHANGED servers
    \/ /\ Cardinality(Named(at.vm)) # 1
       /\ Raise /\ Working /\ UNCHANGED servers
    \/ /\ Cardinality(Named(at.vm)) = 1
       /\ \E s \in Named(at.vm) : next(s)

\* The server is up: where it should be, or it is asked to move there.
Built(s) ==
    LET want == nodeDict[at.vm.node]
        moving == [servers EXCEPT ![s].status = "MIGRATING", ![s].target = want]
    IN  \/ want = Missing /\ Raise /\ Working /\ UNCHANGED servers
        \/ want = servers[s].host /\ Done /\ Working /\ UNCHANGED servers
        \/ /\ want \notin {Missing, servers[s].host}
           /\ Go("await")
           /\ (servers' = moving /\ Working) \/ (servers' \in {servers, moving} /\ Failing)

Shown(s) ==
    \/ servers[s].status = "ACTIVE" /\ Built(s)
    \/ /\ servers[s].status \in {"ERROR", "MIGRATING"}
       /\ Raise /\ Working /\ UNCHANGED servers

Poll ==
    /\ at.pc = "poll"
    /\ Detail(Shown)
    /\ UNCHANGED <<volumes, flavors, aggregates, session>>

\* wait_server_target_status() gives up after ten minutes, and its caller then
\* reads a detail there is not.
Arrived(s) ==
    /\ Working /\ UNCHANGED servers
    /\ IF servers[s].status = "ACTIVE" THEN Done ELSE Raise

Await ==
    /\ at.pc = "await"
    /\ Detail(Arrived)
    /\ UNCHANGED <<volumes, flavors, aggregates, session>>

---------------------------------------------------------------------------
(* OpenStack, and the escape engine under test, which moves servers too.   *)

VolumeMade(v) ==
    /\ volumes[v] = "creating"
    /\ volumes' \in {[volumes EXCEPT ![v] = s] : s \in {"available", "error"}}
    /\ UNCHANGED <<servers, flavors, aggregates>>

\* Where the scheduler may put a server.
Room(s) ==
    LET r == servers[s]
        bound == ~r.vm.removable /\ r.flavor = "metadata"
        group == aggregates[r.vm.node]
    IN  {h \in Hosts : (r.target = Missing \/ h = r.target)
                       /\ (bound => group # Missing /\ h \in group)}

Schedule(s) ==
    /\ Present(s) /\ servers[s].status = "BUILD"
    /\ \/ \E h \in Room(s) :
             servers' = [servers EXCEPT ![s].status = "ACTIVE", ![s].host = h, ![s].target = Missing]
       \/ servers' = [servers EXCEPT ![s].status = "ERROR", ![s].target = Missing]
    /\ UNCHANGED <<volumes, flavors, aggregates>>

Escape(s) ==
    /\ Present(s) /\ servers[s].status = "ACTIVE" /\ servers[s].vm.removable
    /\ \E h \in Hosts \ {servers[s].host} :
          servers' = [servers EXCEPT ![s].status = "MIGRATING", ![s].target = h]
    /\ UNCHANGED <<volumes, flavors, aggregates>>

Migrated(s) ==
    /\ Present(s) /\ servers[s].status = "MIGRATING"
    /\ \E h \in {servers[s].host, servers[s].target} :
          servers' = [servers EXCEPT ![s].status = "ACTIVE", ![s].host = h, ![s].target = Missing]
    /\ UNCHANGED <<volumes, flavors, aggregates>>

Removed(s) ==
    /\ Present(s) /\ servers[s].deleted
    /\ servers' = [servers EXCEPT ![s] = Missing]
    /\ volumes' = [volumes EXCEPT ![servers[s].volume] = "available"]
    /\ UNCHANGED <<flavors, aggregates>>

OpenStack ==
    /\ \/ \E v \in Volumes : VolumeMade(v)
       \/ \E s \in Servers : Schedule(s) \/ Escape(s) \/ Migrated(s) \/ Removed(s)
    /\ UNCHANGED <<session, at, faults>>

\* The steps prepare_topo() and create_server() take on their own.
Operation ==
    \/ ClearFirst \/ Prepare \/ CreateServer \/ PickVolume \/ NewVolume \/ VolumeWait
    \/ GetFlavor \/ GetAggregate \/ UpdateAggregate \/ SetMetadata
    \/ ServerCreate \/ Poll \/ Await

VMNext == BeginTest \/ ClearAgain \/ MoreServers \/ EndTest \/ Teardown \/ Operation \/ OpenStack

VMSpec == VMInit /\ [][VMNext]_vmVars

\* The test is one thread; OpenStack finishes the volumes and the servers it began,
\* which is what the loops without a limit rely on.
VMFairSpec ==
    /\ VMSpec
    /\ WF_vmVars(Operation)
    /\ \A v \in Volumes : WF_vmVars(VolumeMade(v) /\ UNCHANGED <<session, at, faults>>)
    /\ \A s \in Servers : WF_vmVars(Schedule(s) /\ UNCHANGED <<session, at, faults>>)

---------------------------------------------------------------------------

\* The volume a server is about to be created with is free: the test's list, read
\* once, is not stale for it, and volume_use_list keeps it from a second server
\* whose volume OpenStack does not yet show as in use.  (openstack_basecase.py:538)
VolumeIsFree ==
    at.pc = "server" /\ at.volume # Missing => volumes[at.volume] = "available"

\* As long as no command failed, a bound machine's flavor carries the aggregate of
\* its plan node and the aggregate is of the host this test's plan gives that node,
\* whatever host an earlier test bound it to.  (openstack_basecase.py:632, 653)
BoundToItsNode ==
    at.pc = "server" /\ ~at.vm.removable /\ faults = 0 =>
        /\ flavors[at.vm.node] = "metadata"
        /\ aggregates[at.vm.node] = {nodeDict[at.vm.node]}

\* prepare_topo() and create_server() return or raise.  (openstack_basecase.py:518, 553)
SetupEnds ==
    at.pc \notin {"out", "idle", "failed"} ~> (at.pc = "idle" /\ todo = {}) \/ at.pc = "failed"
=============================================================================
