# TLA+ models of the UB ServiceCore test framework

This directory specifies and verifies the parts of the framework (`src/`) whose
correctness depends on order, timing, sharing and failure: the SSH session every
command goes through, the UBS-MEM test server with its client, the control of the
UBSE service, the memory tool on the nodes, the borrow operations and the clearing
of what they borrowed, the virtual machines and the pods of a test, and the life of a
test with its hooks.

    tlasany M.tla                       parse a module
    tlc -workers 2 -config X.cfg M      check a run (module and cfg: section 4)
    tlapm M_proofs.tla                  check the proofs

`PROJECT.json` lists the components, the runs with their properties, a mutant of
the modelled code for each property, the source lines each definition stands for,
the hazards and the theorems.

## 1. The system

The framework is a pytest-based integration test suite for UB ServiceCore (UBSE,
UBTurbo, UBS-MEM, UBS-Virt, UBS-IO, HCOM, UBSocket). A test process logs in to the
nodes of a test bed over SSH, starts and stops services there, drives them with
command lines, console sessions and HTTP requests, and judges what they print.
Almost everything is a remote command: *what a test believes is what it could read
back*, and that is where the hard behaviours are.

### Inventory

| Component | State | Operations | Hard behaviour | Correct when | Module |
|---|---|---|---|---|---|
| **SSH shell session**, `libs/host/node_adapter.py` | `transport`, `channel`, `waitstrDict`, `clear_channel`; the shell at the other end: lines typed ahead, unread output, `$?`, prompt | `run` and its options, `reconnect`, `login`, `putFile`/`getFile` | no message identifiers: an answer is what stands before the next prompt; timeouts leave output behind; threads share an adapter without a lock; a half-failed login | a run returns its own output and its own exit status and leaves nothing in flight; every operation ends | `ShellSession` |
| **Echo probe and command wrapper**, `libs/ubturbo/common/connect.py`, `basic.py` | none of its own | `makesure_connection_normal`, `basic.run` | the probe travels on the stream it judges, and says the same thing every time | after a probe that came back intact the stream is aligned | `ShellSession` |
| **UBS-MEM test server**, `tools/ubs-mem-test` | `g_shmMap`, `g_shmMapMutex`, `initialized_`; the SDK's objects and mappings | allocate / deallocate / map / unmap, single and in batches, initialize, finalize, pass-through calls | pool threads interleave SDK calls; batches fail half-way and roll back; some state is locked and some is not | recorded addresses are mapped and owned once; rollback frees what was created and only that | `ShmServer`, `ShmLedger`, `AddressLedger` |
| **UBS-MEM HTTP client**, `libs/modules/ubsmem/ubsshmem/ubs_mem_cli.py` | none; its callers keep addresses | one method per request | gives up after 830 s while the handler goes on | nothing a request made is forgotten unnoticed | `ShmServer` |
| **UBSE process control**, `libs/modules/ubse/common/ubse_process_ops.py`, `libs/core/process_ops.py`, `file_ops.py` | dates read before a command; systemd's unit, its job and its journal | `stop_ubse`, `start_ubse`, `restart_ubse`, `start_ubse_if_not_started`, `start_all_…`, `stop_all_…`, `restart_all_…` | success is inferred from processes and journal dates of one second's resolution; `& disown` returns before anything happened; a blank answer means "absent" | a True says what happened to the nodes | `UbseProcess` |
| **Role discovery**, `ubse_process_ops.py`, `cli_api.py` | the attempt's locals; each node's view of the election | `return_nodes_by_all_role` | nodes are asked one by one during an election | every node has one role, and of a stable cluster the right one | `BorrowClear` |
| **Memory tool**, `resource/ubse/ubse_mem_app.py` | batch counters, the tool library's handle, the mapped device, NUMA blocks | create, lend, delete, attach, detach, `fd_mmap`, `fd_close`, NUMA blocks, exit | a pool of threads adds up results and loads a library on first use; errors between `open` and `mmap` | counts are true, descriptors are accounted for, the prompt comes back | `MemApp` |
| **UBSE APIs and base cases**, `libs/modules/ubse/basecase/mem_pooling_basecase.py`, `api/cli_api.py` | none; the shell session's and the app's | borrow and return with the tool or the CLI, lists, `clear_all_borrow_mem` | scripts of runs on a session that may hold the rest of an earlier operation; success is a word in what was read | a True is the operation's own; what was borrowed is given back | `BorrowOps`, `BorrowClear` |
| **UBS-Virt on OpenStack**, `libs/modules/ubsvirt/basecase/openstack_basecase.py` | `resource_dict`, `volume_use_list`, `node_dict`; OpenStack's volumes, flavors, aggregates and servers | `prepare_topo`, `clear_server`, `create_server` | lists read once per test, things that outlive a test, loops that wait for OpenStack | a volume is used once; a bound machine goes to its node; preparing ends | `VmSetup` |
| **Test life cycle and hooks**, `libs/core/base.py`, `fixtures.py`, `hook_runner.py`, `testcases/ubse/conftest.py` | the clean-up stack, `_hooks_executed`, the package fixture | set-up, test, teardown, clean-up, before/after hooks | failures between set-up and clean-up, sessions cut short, several processes | what was set up is undone once; the stack is emptied | `LifeCycle` |
| **UBS-Virt on Kubernetes**, `libs/modules/ubsvirt/basecase/kubernetes_basecase.py` | `pod_list`; the cluster's pods and the driver's DaemonSet | create, delete and clear pods, stop, restart and re-configure the driver | a cluster that takes its time, polls that give up, a missing stdout that some callers take for an answer, pods that are on their way out but still "Running" | a True says what happened; clearing leaves nothing | `Pods` |
| Overcommitment cases, **VM console**, **Linux host operations**, **HCOM drivers**, **borrow ledger**, UBS-MEM Python helpers, UBTurbo / UBS-IO / UBSocket APIs, utilities, deployed programs, test cases | none of their own, or none that outlives a call | one command, one answer | lost answers; a verdict that is overwritten | – | section 7 |

Interactions: test cases call the APIs; the APIs call `run()` of the shell session;
process control is a sequence of such runs against systemd; the borrow operations
are such runs against the memory tool or `ubsectl`, clearing is a sequence of borrow
operations and of role discoveries; the UBS-MEM client is the one path that does not
use the shell but HTTP, and its server calls the SDK. HCOM drivers start threads that
call `run()` on the same adapters, so the session is also a shared object. The life
cycle decides when all this happens.

### How the modules fit together

    LifeCycle            when hooks, set-up, test, teardown and clean-up run
      VmSetup            the machines a test makes        (commands: one step each)
      Pods               the pods a test makes            (commands: one step each)
      BorrowClear        clearing between cases           (borrow operations: one step each)
        BorrowOps        one borrow operation             (runs: a line and its answers)
          ShellSession   one run                          (sends, receives, timeouts)
          MemApp         the tool at the other end of the run
      UbseProcess        starting and stopping a service  (commands: one step each)
    ShmServer            UBS-MEM server and clients over HTTP
      ShmLedger          ... implements AddressLedger, the promise about addresses

Each level takes of the one below what that one is shown to provide: a step of
`BorrowClear` is an operation that worked, failed or raised, as `BorrowOps` says it
may; a line of `BorrowOps` is answered in order, late or not at all, and its reader
stops at a prompt, as `ShellSession` says. Server and clients are composed in one
module, because their interleaving is the subject.

## 2. The modules

### ShellSession

`NodeAdapter` for Linux hosts, with the remote shell.

* `transport`, `channel`, `normal` (is the `'normal'` entry in `waitstrDict`?) and
  `clearing` are the adapter's fields. They are shared by all callers.
* `ses[ch]` is one channel and the shell behind it: `inbox`, the lines it has not
  answered; `wire`, what it printed and nobody read; `prev`, the line whose status
  `$?` is; `named`, whether `PS1` has been set. `closed` is paramiko's flag.
* `th[c]` is a thread inside an operation: the program point, the `exec_command()`
  calls still to make (`todo`), the channel `recv()` captured when it began, the
  stream read so far, `stdout` and the status so far.

A line is the run it belongs to, its purpose and index; a token of output names the
line that printed it. A prompt pattern is either strict (`@#>`, which only the prompt
set by `login()` and output that contains `@#>` match) or loose (the class `[#|>]`
before login is complete, and callers' own patterns, which also match other output).
`Accepts` is that match. One action corresponds to one step between two points where
another thread or the network can intervene: `Check`, `MakePlan`, `Connect`,
`ConnectRaises`, `RetryRaises`, `OpenSession`, `OpenFails`, `Drain`, `Send`,
`SendRaises`, `SendTimeout`, `StartRecv`, `RecvRaises`, `RecvChunk`, `Matched`,
`Timeout`, `Verdict`. The environment is `RemoteText`, `RemotePrompt`,
`ChannelDies`, `TransportDies`.

Read the code with these in mind, they are all in the model: `is_active()` looks only
at `channel.closed`; a timed-out `send()` yields `(None, False, None)` and never
raises; `recv()` keeps the channel it started with; `login()` fills `waitstrDict`
only at its end, so a login that failed half-way leaves an open channel with the
loose pattern; an interrupt sends `^C` *and* a newline; `close()` does nothing when
there is no transport object.

History variables: `lost` (purposes of the lines whose prompt was not consumed by
their own wait) and `shared` (two callers active at once) of a channel, `clean` and
`good` of a caller and a result. No guard reads them.

### ShmServer, ShmLedger, AddressLedger

The server's handlers, its thread pool, the clients and the SDK. `shmMap`, `mutex`
and `initialized` are the server's; `objects`, `live` and `sdk` the SDK's; `work[w]`
is a pool thread with its request and the loop counters of the handler and of its
rollback; `wait[c]` the thread that serves a client, `held[c]` the addresses a client
was given. Every SDK call is one action, so the handlers interleave between calls;
the `lock_guard` of the batch handlers is taken by `Lock` and given back by `Reply`,
on every path. A client may give up (`GiveUp`); its handler goes on.

The SDK is external and modelled by what the handlers rely on: it refuses to create
what exists, to free what is absent or mapped, to map what is absent, to unmap what
is not mapped. Calls named in `Faulty` may also fail for reasons of their own.
`objects[n]` holds the request that created the object, which is how a property can
say whose object a rollback frees. `lost` (history) collects addresses given up by a
failed unmap, by a batch mapped over itself, or by an answer nobody waited for.
All requests use one batch size; `finalize` does not undo mappings.

`AddressLedger` is the abstract specification of what happens to a mapped address,
without threads, locks, batches or requests: an address is free, carried by a
request, recorded under a name, held by a client, or forgotten, never two of these,
and moves between them only as the operations say. `ShmLedger` is the refinement
mapping: who owns an address is read off `shmMap`, `held`, `work` and `lost`.
`KeepsLedger` is the abstract specification under it; TLC checks it on an instance
and `ImplementsLedger` is the theorem.

### UbseProcess

The control functions, one remote command per action, with systemd and the service
on each node. `unit` and `job` are systemd's state of `ubse.service` and the job it
was asked for and has not begun; `journal[n][k]` is the date of the last line with
keyword `k`; `now` the clock. `ctl` is the function under way: the nodes left, the
current one, the keywords to read, the dates read before, the round of polling and
its count. The seven functions share the actions for the commands they share
(`CheckPid`, `ReadBefore`, `Issue`, `Wait`, `WaitTimeout`, `Poll`, `ReadAfter`).
A command that does not get through gives a blank answer, which the code takes for
"no process" or for the date `'0'`. `settled`, `lost`, `crashed`, `hung` and `fresh`
in `ctl` are history, of the nodes the function was called for and of the time since
that call; a stop may find the service on its way up (`Calm` of the proofs names what
`settled` comes to for each function).

### MemApp

The interactive tool. `main[a]` is the prompt loop of an app and the batch or single
command under way; `thread[a][t]` a thread of the pool `_concurrent_execute` makes,
with the task it took; `tally[a]` the two counters and their lock; `tool[a]` the flag
and the lock of `_initialize_dll_safely`; `dev[a]`, `open[a]` and
`blocks[a]` the mapped device, the descriptors of the process and the NUMA blocks.
The UBSE service is shared by the apps and may refuse any call. Adding to a counter
is a read and a write under `TakeTallyLock` … `Tally`; the flag of the library is
tested once without and once with its lock (`CheckReady`, `TakeInitLock`, `LoadTool`).
The task then loads the library a second time, for itself and without the lock
(`OwnLoad`), and calls that handle; the guarded one is not used by anybody.
A batch whose tasks cannot work in the code as it is (see section 5) fails task by
task in the model too.

### BorrowOps

An operation is a `Script` of steps on one session: the tool's operations send `cd`,
start the app, give the command and `exit`, the CLI's are one run. `mode` says who
reads the next line (the shell, the app, or nobody: the channel is closed), `inbox`
and `wire` are the lines not executed and the answers not read, `op` is the operation
under way. `Receive(n)` reads any amount of what has arrived that contains a prompt
the step waits for, which is what `recv()` does. `Raise` is a wait that ends without
a prompt: it leaves the operation, not the session. `Verdict` is what each family of
operations makes of what it read.

### BorrowClear

`clear_all_borrow_mem()` and, called by it, `return_nodes_by_all_role()`. `ledger` and
`attached` are the cluster's, which may have nodes the test was not given: any of them
may be the master or the standby, borrow and attach. `view[n]` is who node `n` takes for
master and standby; the nodes agree at first, and a view changes by `Elect` while the
roles are asked. `job` and `roles` are the two functions' locals. A call may fail (answer
False or an empty list) or raise. What the code assumes of the cluster without asking is
not assumed by the model: a line of the table with a foreign node is an `IndexError`
(`DetachOutside`), a foreign master is `None` and raises where it is used (`RolesFound`).

### VmSetup

One session of tests. `servers`, `volumes`, `flavors` and `aggregates` are OpenStack's and
outlive a test; `known` (`resource_dict`), `used` (`volume_use_list`) and `nodeDict`
belong to one test, which reads each list once – the list of volumes again as long as it
is empty (`known.listed`). `at` is the next command of `prepare_topo()` or
`create_server()` and its locals. A command works, fails, or works and loses its answer.
OpenStack is external: it makes volumes, schedules servers within the aggregate their
flavor names, migrates, and deletes later what it was asked to delete.

### Pods

`KubernetesBaseCase` and the cluster behind `kubectl`. `pod[p]` is the cluster's record
of a pod, its phase and whether it is on its way out; `driver[n]` the driver's pod on a
node; `held` says whether the DaemonSet asks for a node that does not exist, which is
how the driver is stopped. `listed` is `pod_list`, `test` the operation under way with
the looks its wait has made, `last` what the last one returned. The cluster starts,
ends and replaces pods in its own time (`Cluster`); each command and each look of a
wait is a step, which may fail (`Fails`): then `run()` has no stdout, and it depends on
the caller whether that is False, an `AttributeError` (or, for a search in it, a
`TypeError`) or no reason to stop. Names are
patterns: `Matching[p]` are the pods that a search for `p` finds.

### LifeCycle

A pytest session: `proc[w]` is a process with its place in the run loop, the hooks
still to run and `_hooks_executed`, the package whose fixture is set up, and the
clean-up stack. Hooks may be missing, fail to load or raise, before the tests and after;
set-up, body, teardown and clean-up actions may fail. Only the packages of `Fixtured` have
the package fixture: a package gets it by importing `package_hook_fixture`, which
`testcases/ubsmem/conftest.py` does and `testcases/ubse/conftest.py` does not. With several
`Workers` it is pytest-xdist, whose processes share the tests and the nodes; there the
controller, not a worker, acts on `-x`, so the run with workers has `ExitFirst = FALSE`.

## 3. Properties

* `ShellSession`. `AnswerIsOwn`, `RcIsOwn`, `QuietBetweenRuns`: on a channel where no
  wait has lost its prompt and no two callers overlapped, a run's output and status
  are its own and nothing is left in flight. Without that condition they are false,
  which is what the hazards of `node_adapter.py` are about. `ProbeClears`: what an
  intact probe establishes. `OperationEnds`: every operation ends whatever the remote
  side does.
* `ShmServer`. `Accounted`: what the server recorded, what the clients hold and what the
  SDK has mapped agree, each address with one owner (`RecordedIsOwned`) and none without
  (`NoOrphan`). `BatchIsWhole`, `RollbackComplete`, and `KeepsLedger`, the refinement.
  Two sentences the code does not keep: `RollbackOwnOnly`, what the client says of a
  rollback, and `InitializedIsUp`, that the flag speaks of the SDK when nobody is changing
  it.
* `UbseProcess`. `StopIsTrue`, `StartIsTrue`: what True says about the nodes, and when
  `stop_ubse()` says False, for calls made while systemd is idle whose commands got
  through and during which no process crashed.
* `MemApp`. `CountsAreTrue`, `DescriptorsAccounted`, `CommandEnds`.
* `BorrowOps`. `TrueIsOwn`: a success is the operation's own although an earlier
  operation that timed out left answers, or its app, behind – as long as fewer than
  four answers are outstanding (one, for the CLI). The bound is tight: TLC finds a
  success of somebody else with four. `FalseIsFailure`, `LeavesShell`.
* `BorrowClear`. `ClearSucceeds`: everything is given back, in whatever way it was
  borrowed and attached, and the answer says so, if every call was answered, nothing was
  elected and the cluster is as the function takes for granted (`WithinTest`: the master is
  a node of the test, there is a standby, only nodes of the test have borrowed or
  attached). `RolesAreRight`: one role for each node whatever is elected in between, and of
  a stable cluster the right one, or nobody's when another node than the test's has it.
  Without `WithinTest` the docstring is not kept (`ClearCompletes`).
* `VmSetup`. `VolumeIsFree`, `BoundToItsNode`, `SetupEnds`.
* `Pods`. `VerdictsAreTrue`: a pod that is said to run was made and runs, a create that
  follows a wait for its deletion finds nothing of the old pod, a stopped driver is gone
  and does not come back, a restarted one is on every node. `ClearIsComplete`: clearing
  goes through and leaves nothing, of what is listed.
* `LifeCycle`. `HooksPaired`: the hook of a package is undone exactly once whatever fails,
  under `-x` too, and its tests run in between; the hooks of the cases are undone once in a
  session that is not cut short. `CleanupDone`. Of a session that is cut short
  `HooksUndone` says what `conftest.py` says, of several processes `BeforeAllTests` what
  `hook_runner.py` says; neither is kept.

## 4. Runs

| Run | Question | Bounds |
|---|---|---|
| `shell_solo` (`MCShellSession`, `ShellSolo.cfg`) | types, attribution of output and status, nothing in flight, termination, for run, reconnect and SFTP | 1 caller, 2 operations, 2 channels; 0.8 M states |
| `shell_options` | attribution with directory, inputs, own pattern, clear, interrupt, shnormal, and the probe after them | 2 operations, 1 channel; 6.8 M states |
| `shm_concurrent` (`MCShmServer`) | ownership, orphans, whole batches, complete rollback, the ledger | 2 clients, 2 threads, 1 prefix, batches of 2, 3 addresses, 4 requests, all faults and client timeouts; 0.8 M states |
| `shm_rollback_race` | **violated**: a rollback frees only what the call created | 2 clients, no spontaneous failures |
| `ubse_verdicts` (`UbseProcess`) | the verdicts of all seven functions | 2 nodes, 1 call, 2 rounds, 2 seconds, all faults; 3.9 M states |
| `mem_app` (`MCMemApp`) | batches, library, device, return to the prompt | 1 app with 2 pool threads, 6 commands, counts 1 and 3, concurrency 0 and 2, 2 devices, 2 descriptors, 3 commands; 0.7 M states |
| `borrow_ops` (`BorrowOps`) | verdicts and what an operation leaves behind | 3 operations of 8 kinds, 1 dead channel; 1.1 M states |
| `borrow_clear` (`MCBorrowClear`) | clearing, roles | 3 nodes in a cluster of 4, every master and standby, 5 pieces of memory, one of the fourth node, every attachment, 2 attempts, 1 election; 7.6 M states |
| `vm_setup` (`MCVmSetup`) | volumes, binding, termination | 2 tests, 2 hosts, a bound and a movable machine, 3 servers, 2 volumes, 1 failure; 1.1 M states |
| `pods` (`MCPods`) | verdicts, clearing | 2 pods, the name of one part of the other's, 2 nodes, waits of 2 looks, 4 operations, 1 failure; 1.5 M states |
| `life_cycle` (`MCLifeCycle`) | hooks, clean-up stack | 1 process, packages of 1, 2 and 1 tests, the first without the fixture, 2 hooks of the cases and `--test-hook`, `-x`, 2 actions a step; 1184 states |
| `life_cycle_exit_first` | **violated**: the hooks of the cases are undone when the session is over | as `life_cycle` |

Why the bounds are enough. *Shell*: misattribution needs one operation that leaves
something behind and a second that reads it; a second channel is needed only for
`reconnect` and a re-login, so only `shell_solo` has it. The runs have one caller; that
several callers of one adapter keep their own output, and when, is proved for any number
(section 6). *Server*: two threads show every pairwise race, four requests the longest one
(create, fail, delete, re-create), batches of two a first and a last element, three
addresses a re-used one; a second prefix adds names that never meet. The symmetry on
clients, threads and addresses is sound: the module makes no choice among them and
`shm_concurrent` checks no liveness. *UBSE*: two nodes tell "some" from "all", two rounds
give a first and a last one, two seconds a date that changes and one that does not. Each
call starts from every combination of unit states (up, down, on its way up), so one call
per behaviour covers a sequence of calls made while systemd is idle; the first date of the
journal is earlier than or equal to the call's. For calls that follow one another while
jobs of an earlier one go on there is the theorem (section 6) and, with `N = 1`, `MaxOps =
3` and `MaxTime = 3` in `UbseVerdicts.cfg`, a run of 0.6 M states. *MemApp*: two threads
and a batch of three make a thread take a second task while the other is anywhere; one app
suffices since apps share only the service, which may refuse at will. *BorrowOps*: an
operation that raises, one that finds what it left, and one after that; with seven
operations of one kind the bound of `TrueIsOwn` was seen to hold too (1.4 M states).
*BorrowClear*: four of the pieces of memory are one per way of giving back, two of them
under one name; the fifth belongs to the fourth node of the cluster, which is not the
test's; the first view may be any, and one election suffices for an attempt that is begun
again with agents found. With one piece of memory two elections were run too (0.7 M
states). *VmSetup*: the second test may match the hosts the other way round, three servers
leave room for one that is still being deleted. *Pods*: two pods suffice for one that is
taken for the other, two nodes for a driver that is replaced one by one, a wait of two
looks has a first and a last one; four operations are a make, a delete, a make and a
clear, or a stop and a restart before and after something else. *LifeCycle*: packages of
one, two and one tests, the first without the fixture, give a fixture that is not there,
one that stays, one that ends between two packages, and one that ends last.

Deadlock checking is off in all configurations: the number of operations is bounded,
and a system in which all of them were made and answered stops. That an operation
under way never blocks is what `OperationEnds`, `CommandEnds` and `SetupEnds` check.

**Fairness.** `ShellSession`: weak fairness of the steps of each caller, and none of the
remote shell or the network. Every wait of the code has a deadline (`Timeout`,
`SendTimeout` are always possible), so a caller always has a step. `MemApp`: weak fairness
of each thread of the pool and of the main thread's wait; none of the user; a call of the
service returns. `VmSetup`: weak fairness of the test's own commands, and of OpenStack's
finishing of a volume or a server it began to make (with success or with an error),
because the loops of `_create_volume` and `create_server` have no limit of their own; none
of migrations and deletions, which the code waits for with a limit or not at all. The
other modules are checked for safety only.

## 5. What the code does that a reader may not expect

Two runs end in a violation, each of a sentence of the repository:

* `shm_rollback_race`: the client promises "rollback of already-created names"
  (`ubs_mem_cli.py:163`); the rollback frees by name and holds no lock, so it can free an
  object that another request created since.
* `life_cycle_exit_first`: "Cleans up all hooks after tests complete"
  (`testcases/ubse/conftest.py:6`, `:60`); with `-x`, `--maxfail` or Ctrl-C the loop is
  left at a plain `yield` (`:107`), and the hooks of the cases are not undone. Those of a
  package are.

Three more sentences are stated in the modules and not kept by the code. They have no
run of their own; a change of a configuration shows each:

* `InitializedIsUp` (`ShmServer`). The server says "UBS-MEM SDK initialized"
  (`api_handler.cpp:63`), but its constructor ignores what `ubsmem_initialize()` returned
  (`:61`), and the request that could repair this returns OK early because the flag is set
  (`:74`): add the invariant to `ShmConcurrent.cfg` and the first state refutes it. With
  `Faulty = {}`, as in `ShmRollback.cfg`, and the operations `initialize` and `finalize` TLC
  finds an overlap of the two that leaves the flag set and the SDK down (`:74` to `:90`).
* `ClearCompletes` (`BorrowClear`). `clear_all_borrow_mem()` returns True or False
  (`mem_pooling_basecase.py:847`); it raises, though every call was answered, when a node it
  was not given has attached shared memory (`:878`) or is the master (`:885`): add the
  invariant to `BorrowClear.cfg`.
* `BeforeAllTests` (`LifeCycle`). `beforePreTestSet()` is "called before all tests in the
  package" (`hook_runner.py:83`, `README.md:594`); with several processes, as
  `README.md:509` and `run_suite.py:16` recommend (`-n auto`), each runs the hook on the
  same nodes, the second one when tests of the first have begun. Set
  `Workers = {w1, w2}` and `ExitFirst = FALSE` in `LifeCycle.cfg` and add the invariant.

Met while modelling, and in the models (paths as in section 1):

* *Shell.* A probe that times out leaves in the stream exactly the answer that the
  next probe looks for, which then calls the stream normal (`connect.py:95`, `:110`).
  With `shnormal`, `rc` is the status of the assignment to `LS_OPTIONS` that `run()`
  sends itself (`node_adapter.py:463`, `:523`).
* *UBSE.* `start_all` answers False also for nodes that were running already
  (`ubse_process_ops.py:210`, `:239`); `start_ubse_if_not_started()` drops the result
  and always returns True (`:195`).
* *MemApp.* `_initialize_dll_safely()` loads the library under a lock
  (`ubse_mem_app.py:2611`), but nobody uses its handle: each task loads the library again
  outside the lock (`:2572`, `:2596`). A batch of `fd_create_with_lender` passes arguments
  its operation does not take, so every task fails; a batch of shared memory with a lender
  does nothing and says nothing (`ubse_mem_app.py:1687` is a `pass`); a single
  `fd_create_with_lender` unpacks two of three values and logs an error although the
  memory was made; a concurrency of 0 or less raises; a usage error ends the app; an
  `fd_mmap` that fails leaves its descriptor open.
* *BorrowOps.* A CLI operation that failed raises `AttributeError` instead of returning
  False, because `run()` returns no stdout for a status other than 0; an unguarded
  `exit` after an app that did not start closes the login shell and waits 600 s; an
  operation that timed out leaves its app running, in which the next `cd` is unknown.
* *BorrowClear.* Memory borrowed by address is never given back, which the answer False
  tells; True is also the answer of a last look that got none (`:892`); without any shared
  memory a master that is not the test's goes unnoticed.
* *VmSetup.* Memory that is not back within 300 s raises `AttributeError` for want of
  `node.hostname` (`openstack_basecase.py:377`); deletions are not waited for, and an
  old server of the same name makes `server show` answer nothing; an aggregate without
  hosts raises on reading and is left alone on updating; a flavor left without
  properties by a failed test is used as it is; the machine's host is not looked at
  after a migration.
* *Pods.* `kubectl apply` answers "unchanged" for a pod that is on its way out, and the
  new pod is never made. Names are searched as patterns, so a True or a False may be
  about another pod. A restart counts drivers that are on their way out as running;
  `RestartIsTrue` is stated of restarts that find none, and is violated without that.
  `clear_test_pod()` raises at the first pod that is gone already and leaves the rest. A
  `create_pod()` that waits in vain leaves a pod that is not on the list.
  `create_pod_by_name()` raises `AttributeError` when `kubectl` fails.
  `start_redis_server()` never notices a server that is not there: the answer it looks
  at contains the prompt (`kubernetes_basecase.py:1143`; not modelled).
* *LifeCycle.* A package hook that raises fails every test of its package; one whose
  `afterPostTestSet()` raises is an error of the package's last test, which ends the
  session under `-x`. The clean-up stack works because it is an attribute of the class
  (`base.py:48`).

## 6. Proofs

For every value of the constants, under the modules' named assumptions (`ShellAssumption`,
`ServerAssumption`: types of the parameters, at least one object in a batch, and that the
three null values are none of the values they stand beside; `MemAppAssumption`: the counts
and the concurrencies a user types have a greatest; `LifeCycleAssumption`: the tests of a
package come together, as pytest orders tests that share a fixture, and a hook of the
cases is none of the packages; `PodsAssumption`: a name matches itself, no pod has the
name that stands for no pod, and the nodes are finitely many; `BorrowClearAssumption`: the
test's nodes are nodes of the cluster, shared memory is borrowed by no node, all other by
one of the cluster, and there is a node and an attempt; `BorrowOpsAssumption`: the kinds
used are operations, the bounds numbers; `ProcessAssumption`: at least one node, one round
of polling and one second, and the functions and faults are among those named):

* `ShellSession_proofs!TypeCorrect`: `Spec => []TypeOK`. `TypeOK` alone is not
  inductive: `Send`, `Matched` and `Timeout` take the head of `todo` and index `ses`
  by the channel. The invariant `Typed` adds that a caller inside an exchange has an
  exchange left, and that one inside `recv()` has captured a channel that was opened.
  Lemmas give the types of the plans, of `Absorb`, `Remaining` and `FirstDigits`, and
  of the ways a call ends; then there is one step per action.
* `ShellSession_proofs!AnswersAreOwn` and `ChannelQuiet`: `Spec => []AnswerIsOwn` and
  `Spec => []QuietBetweenRuns`, for any number of callers. Neither is inductive: what a
  run will read is decided by what is in flight when it begins, and by who else is
  active. `OwnInv` therefore follows the stream. `Overlap` says that callers active at
  once have spoilt every channel, so only a caller that is alone needs to be followed;
  `InTurn` says where that one stands on an unshared channel (`Fit`): nothing is in
  flight before a line is sent, except the rest of the greeting before `PS1`
  (`BeforeSend`); after that the line sent is the last of the inbox, its prompt is the
  last token of the wire, and reading it leaves nothing (`Awaiting`) – unless a wait
  lost its prompt, which `lost` records. `Mine` says that all in flight and all that was
  read belongs to the caller's run, `Locals` which exchanges login and run have left.
* `ShellSession_proofs!StatusOwn`: `Spec => []RcIsOwn`. `RcInv` adds `StatusTurn` to
  `OwnInv`. A run that asks for the status has the exchanges it has left in a certain
  order (`Order`: the status last, `PS1` and `PS2` in pairs, before it the last input);
  what is in flight answers the line sent; and, without `shnormal`, the line the shell
  executed before it is the one that came before in that order (`Follows`). An answer to
  `echo $?` that ended has printed digits, since an open shell does not fall silent in the
  middle of one (`Hushed`), and the first of them are found: there is a least one
  (`Least`, by well-foundedness of the naturals). An interrupt leaves the line the shell
  speaks of as it was, which is why a command that timed out reports its own status too.
* `ShellSession_proofs!ProbesClear`: `Spec => []ProbeClears` under `OneCaller`, the
  assumption that one thread uses the adapter, as in the runs. With several callers
  the sentence is not the probe's to keep: a later caller disturbs the channel while the
  result of the probe stands. `ProbeInv` adds `ProbeTurn` to `OwnInv`. `Known` says that
  all in flight is of a command's line, of a line whose wait missed its prompt, of the
  line sent last, or the greeting before `PS1`; `Closing` that the line sent last is the
  suffix of all in flight and its prompt the end, so that reading it leaves nothing;
  `Single` that the two commands of a probe are one line each and raise on a timeout;
  `Probing` that an intact answer puts the channel at ease (`AtEase`), after which only
  the answer to the probe's own last line is in flight; `Lasting` that the result stays true.
* `ShmServer_proofs!TypeCorrect`: `Spec => []TypeOK`, with the invariant `Staged`: the
  counters of a handler stay within the batch, a rollback stays within what was done,
  and a thread carries an address only between a map and its answer or before the
  call of an unmap.
* `ShmServer_proofs!Accounts`: `Spec => []Accounted`. The inductive invariant `Owned`
  lists what the two halves of `Accounted` need of each other: recorded, held and carried
  addresses are mapped (`RecordLive`, `HeldLive`, `FlightLive`), and any two owners are
  distinct (`HeldApart`, `HeldUnrecorded`, `FlightUnrecorded`, `FlightUnheld`,
  `FlightApart`). Distinctness is what makes an unmap by one owner harmless to the others;
  liveness of the address is what makes a fresh one differ from all of them. The mutex is
  not needed for this: a lookup, its unmap and its erase are one step of `Forget`, which
  the lock's critical section justifies; `BatchesWhole` is where it counts.
* `ShmServer_proofs!ImplementsLedger`: `Spec => KeepsLedger`. Under `Owned`, each step
  of the server maps to one step of the ledger or leaves it as it is.
* `ShmServer_proofs!BatchesWhole`: `Spec => []BatchIsWhole`. `Holding` is mutual
  exclusion: who is past `Lock` in a locking request, and only who, has the mutex. Then
  `Batches` speaks of one request at a time: every batch but the holder's is whole, and
  the holder's is as far as its counters say (`Part`: mapped from `j` to `i` while it
  maps or undoes, unmapped below `i` while it unmaps). `Starting` is that the counters
  begin at zero.
* `ShmServer_proofs!RollbackDone`: `Spec => []RollbackComplete`, whatever other requests
  do to the same names. `Numbered`: a request's number is its own, and an object is
  marked with that of the request that made it; `OwnBatch`: an object of this request
  is one its rollback has yet to come to, or could not free (`Pending`).
* `MemApp_proofs!TypeCorrect`, `DescriptorsHeld` and `TrueCounts`:
  `TypeOK`, `DescriptorsAccounted` and `CountsAreTrue`, for any number
  of pool threads and of tasks in a batch. `Types` adds to `TypeOK` what each
  variable's rows hold; `Plainly` says what is at rest when no command is executed
  (`Rest`) and that what is open beside the mapped descriptor was spoilt
  (`Descriptors`). For the counts `Counting` is needed: the tasks in hand are
  different ones (`Hands`), the lock is held by the one thread whose `read` is the
  present count (`Locked`), and what was taken is what is counted plus what is in
  hand (`Sums`, equations between cardinalities).
* `LifeCycle_proofs!TypeCorrect`, `PairedHooks` and `StackEmptied`: `TypeOK`,
  `HooksPaired` and `CleanupDone`, for any tests, packages, hooks and workers, with `-x`
  and without. `IInv` follows each worker: which hooks of the loop have
  run at each of its places (`LoopHooks`), that the hook of a package is done and not
  undone exactly while a test of the package is the worker's present one
  (`PackageHooks`, `Place`), that packages behind it are over and those ahead untouched
  (`Ahead`, where the order of the tests is needed), and where the stack may be other
  than empty (`Stack`).
* `Virt_proofs!TypeCorrect`, `TrueVerdicts` and `ClearComplete`: `TypeOK`,
  `VerdictsAreTrue` and `ClearIsComplete`, for any pods, names that match one another,
  nodes and waits. `Places` says which operation can be at which statement, `OwnRoom` that
  every pod of the list took a `create_pod()` of its own. A verdict is given by a look
  at one moment, so each needs what keeps it true: nobody else creates pods, hence a
  name that nothing else matched stays alone, and a pod that was created stays
  (`Promised`, `Said`; with one pod seen under a name that is alone, it is this one);
  a driver goes only when no node is eligible, its template is old or it was on its
  way out already (`DriverHolds`; as many running as there are nodes means all of
  them); and what is left to clear is what is left on the list, the rest is gone
  (`Clearing`). One lemma says what of this the cluster can undo by itself
  (`ClusterIs`), and one per group of steps what an operation does to it.
* `Virt_proofs!MachineTypes`, `VolumesFree` and `MachinesBound`: `VMTypeOK`,
  `VolumeIsFree` and `BoundToItsNode` of `VmSetup`, under `VmSetupAssumption`: hosts,
  servers and volumes are finite, and `Missing` is none of them. (`Virt_proofs` extends
  `Pods` and `VmSetup`, which is why the latter's `Init`, `Next`, `Spec` and `TypeOK`
  carry the prefix `VM`; no proof about one uses the assumption of the other.)
  `VmListed` is why a list read once does: what is on it and not
  in `volume_use_list` is available still, for OpenStack takes a volume only for a create
  command, and the test picked that volume (`VmChosen`). The binding is followed as long
  as no command failed (`VmOrder`): an aggregate has one host, only the flavor that is
  being made is without its properties (`VmCloud`), the test's copies are what there is
  (`VmCopies`), and from the aggregate on the machine's node is bound (`VmTurn`). A
  failure breaks each of these, as section 5 says of flavors.
* `BorrowClear_proofs!TypeCorrect`, `RolesRight` and `ClearingSucceeds`: `TypeOK`,
  `RolesAreRight` and `ClearSucceeds`, for any number of nodes and pieces of memory.
  `Rounds`: after the first `k` nodes, master, standby and agents are exactly those
  nodes and none of them twice, whatever was elected between the questions; `Seen` ties
  the roles to the view of the cluster as long as nothing was elected, whoever is its
  master. `Answered`: if all calls are answered and the cluster is within the test, the
  first attempt finds the roles, so neither an index nor a role is missing. `OwnLeft` says of
  each way of borrowing what the loop over the nodes has yet to return, `Yet` what of
  the shared memory is still attached or undeleted, for calls that were all answered.
* `BorrowOps_proofs!TypeCorrect`, `TrueOwn`, `FalseTrue` and `ShellLeft`: `TypeOK`,
  `TrueIsOwn`, `FalseIsFailure` and `LeavesShell`, for any number of operations and of
  answers left behind. The bound of `TrueIsOwn` is a count: each wait reads at least one
  answer, so of those that were outstanding at most `Left` are left, and what comes
  after them belongs to the operation (`OwnAfter`, `OwnHeard`). For the other two,
  `InStep` says what is out between two statements of an operation that began in step
  (`OneOut`, `NoneOut`) and where it is while the app reads (`AppReads`), `Reports` and
  `Over` what it has heard.
* `UbseProcess_proofs!TypeCorrect`, `StopTrue` and `StartTrue`: `TypeOK`, `StopIsTrue`
  and `StartIsTrue`, for any number of nodes, rounds and calls. `Shape` is what a
  statement of the seven functions needs of the locals, `Dates` that a date read is not
  later than the journal's. The rest speaks of a call that was not disturbed (`Good`:
  called while systemd was settled, nothing lost, no process crashed). `Nodewise` follows
  each node: at rest before its command (`Calm`), then on its way down (`Halting`), up
  (`Under`) or, for a restart, running anew once the date has changed (`Rising`); a
  step of systemd moves one node and the lemmas say how far (`Moved`). `Timeouts` ties
  the journal's timeout line to a stop that hung, `Verdicts` a poll's count to the
  number of nodes that did what was asked (an inequality between a count and a
  cardinality), `Results` the answer to the state it was given in and to all later ones.
  The attempt changed the model: with `settled`, `hung` and `crashed` speaking of all
  nodes, of any time, the properties were false of a second call.

Model-checked only: the sentences that are false, and liveness, which like ENABLED is
out of the proof system's reach. No module uses a
recursive operator.

## 7. What is not modelled

* Windows hosts, `LocalNodeAdapter`, the contents of files moved by SFTP, the wording
  and formatting of commands and answers.
* A `channel.send()` that accepts part of a line: the code ignores its return value;
  the model sends a line whole or not at all.
* Handlers of the test server that pass one SDK call through, and requests of
  different batch sizes.
* `check_ubse_status` and the other file operations.
* Of process control: a call made while an earlier start of its nodes is going on may
  take that start's journal line for its own. The model has it; the properties exclude
  it (`settled`).
* The queries of the memory tool, reading and writing mapped memory, its ctypes
  structures: they change no state of the app. Parsing of tables the tools print.
* Threads of one test that create machines at the same time: `create_server_only()` is
  written for them, with a lock that each call makes for itself
  (`openstack_basecase.py:683`), but its only caller (`test_ubs_virt_003.py:48`) has one
  thread. The
  unlimited recursion of `get_numaInfo()` (`client.py:389`).
* Of process control: the process number that `start_ubse()` reads for
  `start_ubse_if_not_started()`, which drops its answer, is not a step.
* A stop that systemd kills for its timeout, and a core dump, in the second of the service's
  own previous line of that kind: a stop that runs into the timeout takes longer than the
  journal's second. Two core dumps in one second are in the model.
* `pytest.fail()` in a clean-up action (a `BaseException`, which the loop over the stack
  does not catch).
* Stress, decisions and logs of the virtual machine cases, their consoles; the commands
  inside pods, huge pages, redis load, watermarks, events and SSU volumes of the
  Kubernetes cases.
* Reports, parameters and assertions of a test; `run_suite.py`.
* The remaining components of the inventory, for the reasons given with each in
  `PROJECT.json`.
