# A TLA+ verification of gazebo-rcll

The repository simulates the RoboCup Logistics League in Gazebo: plugins
(`src/plugins/src/plugins`) for the machines (MPS), the workpieces, the robots
and the bridge to the referee box, and libraries (`src/plugins/src/libs`, from
Fawkes) for threading, protobuf communication and configuration. What is hard
about it is that every part is driven by several threads at once, with few locks:

* the simulator's thread runs `OnUpdate`, constructors and destructors;
* Gazebo's transport thread delivers topics (`on_puck_msg`, `on_new_puck`, ...);
* each machine has a worker thread that sleeps, teleports models and writes OPC UA
  registers, woken by an OPC UA subscription;
* each stream client, server and broadcast peer has an asio thread that runs
  completion handlers, while others call `send()`;
* the threads of `core/threading` are woken, prepared, cancelled and joined by
  managers, singly or as lists.

The project models those interleavings. `PROJECT.json` holds the map from every
definition to source lines, the list of runs, mutants, findings, hazards and
theorems.

## Inventory

| Component | State | Operations | Talks to | Hard part, and what makes it correct |
|---|---|---|---|---|
| `Mps` (mps.cpp) | registers ActionId, Payload1, Busy, Ready; pointers `wp_in_input_/middle_/output_`; `shutdown_` | `worker_loop`, `process_command_in`, `move_conveyor`, `on_puck_msg`, `~Mps` | OPC UA client and subscription, poses, robots | three threads, unlocked pointers, a condition variable without predicate, stale poses. Pointers tell the truth, a command runs at most once, shutdown joins |
| Base station | `spawning`, `spawn_clr` | `dispense_base`, `on_new_puck` | factory, `~/new_puck` of all machines | the announcement races the assignment; foreign announcements |
| Cap station | `stored_cap_color_`, three shelf pointers | `retrieve_cap`, `mount_cap`, `on_puck_result`, `OnUpdate` | commands to and results of workpieces | late results, fixed sleeps instead of answers; a cap is in one place only, the shelf is refilled |
| Ring station | `wps_on_slide_`, SlideCnt, Payload2 | `mount_ring`, `on_puck_msg` | commands to workpieces | the command is cleared before Busy; every base on the slide is counted once |
| Delivery station | `wp_in_input_` across a sleep | `deliver` | commands to workpieces | a pointer used after a 3.5 s sleep |
| Storage station | slots, `pucks_spawned` | `init_storage`, `OnUpdate`, `on_new_puck` | configuration, factory, workpieces | announcements in any order; the stock is what was configured |
| Workpiece (`puck`) | rings, cap, `announced_` | `on_command_msg`, `deliver` | machines, referee box | answers at any time |
| Gripper | `message_queue_`, `grippedPuck`, joint | callbacks, `OnUpdate`, `Reset` | robots, stations (`hold_pucks`) | two grippers, messages under way: what is held is reported |
| Light control | state and last state of three lights | `on_light_msg`, `OnUpdate` | referee box, visuals | nothing locked, BLINK resolved in place |
| Light signal detection | lights seen, history | `on_light_msg`, `OnUpdate` | robot | nothing locked; what is visible is true |
| Machine placement | `placed_machines`, flags | `on_machine_info_msg`, `on_game_state_msg`, `Reset` | referee box, factory | partial, repeated and strange messages; each machine once, in its zone |
| Gyro, gps, time sync, odometry, tag and conveyor vision, motor | time of the last message, tags, heading, velocity | `OnUpdate`, callbacks | robot | intervals, half-written commands, wrap-around of angles |
| Referee box bridge | `client_`, `connected_`, `connect_tries_` | `Update`, signals, forwarding | stream clients, topics | old clients keep signalling after a new one is made |
| `ProtobufStreamClient` | `connected_`, `outbound_queue_`, `outbound_active_` | `async_connect`, `send`, `disconnect`, handlers | asio | senders against handlers, failed writes, reconnection; FIFO, no duplicates |
| `ProtobufStreamServer` | `sessions_`, queue of each session | accept, read, write, `send`, `send_to_all`, `disconnect` | asio, users | look-up and use apart; order per session, sessions announced |
| `ProtobufBroadcastPeer` | queue, `outbound_active_`, two buffers, ciphers | `send`, `start_send`, handlers, `setup_crypto` | asio, users | who starts a write; a buffer that keeps the last message |
| Message register, frames, encryption | two maps; header, padding, key | `add_message_type`, `serialize`, `encrypt`, `decrypt` | users of the above | an unlocked template; sizes at the limits of the buffer |
| `Barrier`, `InterruptibleBarrier` | counter, flags, list of passed threads | `wait`, `interrupt`, `reset` | threads | two-stage wait, a timeout racing the last arrival |
| `Thread` | run state, wake-ups, five mutexes | `entry`, `run`, `wakeup`, `prepare_finalize`, `cancel`, `join` | managers | lost wake-ups, starvation of `prepare_finalize()`, mutexes after `join()` |
| `ThreadList` | members, barrier, flagged threads | `wakeup_and_wait`, `try_recover`, `init`, `stop`, `force_stop`, ... | threads | a barrier replaced while in use; failures in the middle of a list |
| Locks, wait conditions | owner, readers, writers; deadline | lock, unlock, scoped lockers, waits | threads | preference of writers, balance of lockers, carry of nanoseconds |
| `RefPtr`, `LockPtr`, locked containers, `Exception` | count, object, mutex; contents; linked messages | copy, assign, clear, lock, append | threads | the last owner deletes; a copy of one moment; lists linked into each other |
| Configuration | tree of nodes, host-specific tree and file | `load`, `set_*`, `erase`, queries, iterator | files, plugins | order of merging, types of scalars, failure halfway, crash while writing |

The hazards in `PROJECT.json` list, with source lines, what a test would hardly
reach in each of them.

## Modules

The components that interact share a module hierarchy; those that do not are put
side by side in a composed module, with a variable `kind` (or `type`) that says
which of them a behaviour is about. The state space of a composition is the sum of
its parts, one run asks one question of all of them, and the constants have the
same meaning everywhere.

| Module | Models | State and actions against the code |
|---|---|---|
| `Mps` | mps.cpp, subclient.h | `nodes`, `slots` are the members; `pc` is the place of the worker between two points where other threads can tell the difference; one action per such run of statements. `OnPuckMsg` is the pose callback, from its test of `wp_in_input_` (`TestInput`) to its uses of it (`AssignInput`, `LogInput`, `CompareInput`), `SetShutdown`, `NotifyShutdown`, `JoinAndStop` the destructor, `DataChange` the subscription |
| `BaseStation`, `RingStation`, `CapStation`, `DeliveryStation` | the derived classes | each EXTENDS `Mps` as the class inherits: the base's `process_command_in` ends at `pc = "op"`, where the override goes on |
| `MpsLoader` (with `MCMpsLoader` for symmetry) | mps_loader.cpp | composes the four: `type` is the class chosen by `Load`; the promises of all machines are stated once |
| `CapShelf` | cap_station.cpp `OnUpdate`, `on_new_puck` | the shelf, apart from the worker's commands, with which it shares no state |
| `StorageStation` | storage_station.cpp, puck.cpp | configured slots, spawned bases, the commands that finish them, the reported product |
| `Gripper`, `LightControl`, `LightSignalDetection`, `MpsPlacement`, `RobotPlugins` | the plugin of that name; `RobotPlugins` all that runs in a robot's world update | where a callback and `OnUpdate` share members without a lock, each statement is a step; what was in sight or written last is kept beside the members, for the properties |
| `World` | | composes `CapShelf`, `StorageStation` and these five |
| `StreamClient` | client.cpp | one action per handler and outcome |
| `StreamServer` | server.cpp | the same for the sessions, and the user in two steps: `Find`, then `Use...` |
| `BroadcastPeer` | peer.cpp | queue, `start_send` of two threads, receive handlers with the two buffers and the mode the receive was started for, which need not be the datagram's or the present one |
| `ProtobufFrames` | frame_header.h, crypto.cpp, the sizes in message_register.cpp and peer.cpp | sizes in bytes as numbers, keys and ciphers as values |
| `MessageRegister` | message_register.cpp, .h | the maps; test and insertion of the template apart |
| `RefboxComm` | llsf_refbox_comm.cpp | every client ever made, since none is destroyed; a client is its own state of the connection, which `send()` looks at, and the signal that is under way; a forwarding handler tests `connected_` and sends in two steps |
| `ProtobufComm` | | composes server, peer, frames, register and bridge |
| `FifoLink`, `Rendezvous` | | what a stream link and a barrier promise; refined by `StreamClient` and `InterruptibleBarrier` |
| `InterruptibleBarrier` | interruptible_barrier.cpp | a step per stretch between two releases of the mutex, or per unlocked read |
| `Thread` | thread.cpp | one worker, one manager, the clients; owners of the mutexes; a section that cannot block is one step |
| `ThreadList`, `ThreadLifecycle` | thread_list.cpp | rounds of `wakeup_and_wait` with their barriers, where a member returns from `loop()`, then takes the barrier it finds, then waits there; operations on whole lists, thread by thread, with initializers, `init()` and finalizers that throw |
| `Threading` | | composes the three |
| `Locks`, `WaitCondition` | read_write_lock.cpp, scoped_rwlock.cpp, mutex_locker.cpp; wait_condition.cpp | lockers as scopes of a thread; time in units of which `NsPerSec` make a second |
| `RefPtr`, `LockPtr`, `LockContainer`, `MessageList` | refptr.h, lockptr.h, lock_*.h, rwlock_*.h, exception.cpp | every operation cut where another thread may come between; a locked container whose class declares no `operator=` (LockQueue, RWLockQueue, RWLockMap) is assigned by the compiler's, which locks nothing and shares the lock afterwards |
| `YamlConfiguration` | config/yaml.cpp, yaml_node.h | trees as functions from paths to nodes, a list with its first element, which gives it its type; the include queue; the host file on the disk |
| `CoreLibs`, `Libraries` | | compose the last seven modules, and those with `Threading` |
| `Mps_proofs`, `MpsLoader_proofs`, `InterruptibleBarrier_proofs`, `StreamClient_proofs`, `LockPtr_proofs`, `Libraries_proofs`, `World_proofs`, `ProtobufComm_proofs` | | theorems about the module of that name |

### Abstractions

* An asio handler, and a callback of the transport thread but for those that test a
  shared member and use it afterwards (`Mps::on_puck_msg`, the lights, the motor), is one
  step: it is not interrupted by another of the same thread, and what it writes is read
  by the worker at points that are steps of their own. A callback that dereferences a
  null pointer ends the process (`Crashed`).
* The unlocked `ModelPtr` members of machines are read and written atomically; that
  a torn `shared_ptr` may crash is not modelled, nor that racing on the gripper's
  `std::queue` may corrupt it.
* Poses are places: `input`, `middle`, `output`, `slide`, ... are disjoint regions
  (`pose_hit` with its tolerance). A pose message is the place at the time of its
  publication, delivered in order per workpiece, `MaxPoses` at a time.
* The OPC UA client is external: it writes Payload1 before ActionId, and only when
  ActionId is 0 and Busy is down, as the referee box does. Everything that goes
  wrong under this polite client goes wrong under any.
* Spurious wake-ups are possible, never relied upon.
* A sleep is a place where anything may happen; its length is not modelled.
* Closing a socket makes the operations in flight fail; their handlers run before
  those of later operations.
* On the cap shelf, orders and announcements are done within `spawn_puck_time`
  (20 s in cfg/config.yaml), and a robot returns a workpiece only between refills.
* A payload that is no colour, or a configured word that is none, leaves a C++
  variable uninitialised: the models choose its value.
* A machine's three lights are two in `World`: they are treated alike, one after
  the other. After `save_light_signal` has put the lights out it sets them in one step.
* Angles are integers of which `HalfTurn` make pi; the odometry's position and its
  random error are left out.
* Integers of the configuration have `Bits` bits; numbers are chosen around the
  limits of signed and unsigned ones.

## Runs

Passing runs (bounds are in the cfg files):

| Run | Shows | Bounds and why they are enough |
|---|---|---|
| `mps` | `MiddleIsTrue`, `BusyHoldsCommand`, `AtMostOnce`; liveness: `ReportedCommandRuns`, `ShutdownJoins`, `TrackingCatchesUp` | two workpieces (one tracked, one arriving), two conveyor commands to the machine (a failed one blocks the next; a move in, a move out), all sides, one pose in flight per workpiece, which is stale as soon as the workpiece moves |
| `stations` | `StationsKeepPromises` (the middle pointer, no command twice) and `CapsNotDuplicated` over the four types | two workpieces and caps; two or three commands, so that a cap can be retrieved and mounted; a valid and an invalid payload |
| `stations_live` | `AwaitedBaseIsTracked`, `RetrievedCapArrives`, `SlideIsCounted` | two bases at the base station (the own and a foreign one); one workpiece at the others |
| `barrier` | `ArrivalsCounted`, `ImplementsBarrier`, `InterruptFreesWaiters` | four threads, two of which wait with a timeout, unbounded rounds, two interrupts, resets whenever the code allows them |
| `stream_client` | `OneFrameAtATime`, `ImplementsFifoLink`, `FirstConnectionDelivers` | two senders, four messages (one in flight, two queued, one after), three connections |
| `comm` | `TrafficInOrder`, `GoneIsForgotten`, `QueuedGoesOut`, `MessagesNotMixedUp`, `RoundTrip`, `BridgeLinked`, `Reconnects` | two sessions with two messages each (one being written, one queued); two datagrams, each body encrypted and not, a change of the cipher; sizes below, at and above block size and packet limit; two attempts, so that an old client signals beside a new one |
| `libraries` | `PointersSound`, `CopiesWhole`, `LocksBalanced`, `WritersNotStarved`, `ConfigurationHolds`, `ThreadSound`, `PrepareCompletes`, `RoundFits`, `RoundComplete`, `ListIsOne` | two threads using one object each way (two containers assigned crosswise, two exceptions appended to each other); pending wake-ups up to two, which coalescing can tell apart; lists of two threads in rounds, of three in the life cycle (before, at and after a failing one); three changes of the configuration over three nested keys, 4-bit integers |
| `world` | `ThingsInPlace`, `ReportsTrue`, `LightsFollow`, `RobotServed`, `ShelfIsRefilled`, `AllStand` | two slots and a foreign workpiece; two grippers with two orders each; three light messages; three machines and one stranger; two fillings of the shelf; five ticks, more than any interval |

`CHECK_DEADLOCK FALSE` stands where the system really may stop: a machine whose
callback or delivery has dereferenced a null pointer, a barrier whose process has
died, a client that was destroyed, a factory without further names, two containers
that wait for each other's mutex, or a part whose bounded inputs are used up.

Violations, each against a line of the repository (see "findings"):

| Run | What TLC shows |
|---|---|
| `delivery_station_sleep` | `deliver()` dereferences `wp_in_input_` after its sleep, when the pose callback may have reset it |
| `barrier_timeout` | a timeout reported just after the last arrival closes the gate behind the waker, which stays in the POSIX barrier |
| `stream_client_reconnect` | a failed write leaves `outbound_active_` set: on the next connection everything is queued and nothing written |
| `light_blink` | BLINK is replaced by ON or OFF in the state itself: the light takes one value and keeps it |

Further differences met while modelling, without a run of their own:

* base_station.cpp:99: the announcement of any workpiece clears Busy while the
  own base is not there, although line 82 says that the worker waits for it.
* ring_station.cpp:75: a Payload2 out of range is warned of at line 67, and a ring
  of an uninitialised colour is mounted all the same.
* A failed conveyor command keeps Busy up (`BusyHoldsCommand` states what the code
  does); the conveyor, following a stale `wp_in_input_`, can pull a base off the
  slide (the exception in `MiddleIsTrue` and `SlideIsCounted`), and DELIVER, following
  one, can take the workpiece from the middle to the gate (the other exception).
* mps.cpp:366-373: `on_puck_msg` tests `wp_in_input_` and calls `GetName()` of it
  afterwards, when the worker may have reset it.
* peer.cpp:448: a datagram in the other mode is reported as an error, and then the
  message an earlier one left in `in_data_` is delivered for it.
* message_register.h:88: the template registration tests and inserts without the
  mutex, and overwrites what was registered in between.
* llsf_refbox_comm.cpp:226: a handler that has found `connected_` set calls `send()` of a
  client that has lost its connection meanwhile, which throws into Gazebo's transport.
* lock_queue.h:90, rwlock_queue.h, rwlock_map.h: without an `operator=` of their own
  these classes have the compiler's, which copies unlocked and makes the two share one
  lock (`ImplicitCopy`, `ImplicitEnd`). That of `RWLockList` locks a const source with a
  member that is not const (rwlock_list.h:191), so that it cannot be used at all.
* yaml_node.h:676, 730: a scalar set over a list takes the type of the list's first
  element, which its text need not have; a number too large for an int there, or set by
  `set_uint()`, throws after the text was changed.
* thread.cpp:902-913: a member that was also woken by `wakeup()` may take the barrier of
  the next round after the `loop()` of the last one, so that the round ends without it
  having looped.
* thread_list.cpp:409-430: a finalizer that throws in a handler of `init()` keeps line
  437 from finalizing the threads before, which stay initialised.
* `InterruptibleBarrier::wait` returns true to a thread that arrives after a timeout,
  `interrupt()` between two rounds is forgotten by the first thread of the next, and
  `reset()` clears the `RefPtr` instead of the list, so that the next `wait()`
  dereferences null.
* The cap shelf is refilled onto a workpiece that a robot has put back.
* The bridge counts its attempts over its whole life, and reports that they failed
  when any client disconnects after the last.
* odometry.cpp:152: a heading below -pi is mirrored instead of wrapped; `HeadingTrue`
  holds until then.
* light_control.cpp: as its conditions are joined, a machine takes light messages
  for every other machine, too (`LightsFollow` is about the messages let through, not
  about the right machine); a message that comes while BLINK is being resolved is lost.
* light-signal-detection.cpp: a report that crosses a message can tell of a machine with
  all lights out, or of one that has left.
* mutex_locker.cpp:125: `relock()` of a locker whose mutex somebody else unlocked is left
  out of `Locks`, and so are the casts of `LockPtr` (lockptr.h:483-515), which call a
  constructor that does not exist or hand on no object mutex.
* storage_station.cpp: a slot configured with one word gets it as base and as cap.
* Two containers assigned to each other by two threads wait for ever
  (lock_vector.h:188); the server's look-ups can be stale when they are used.

### Fairness

The operating system runs the worker, the destructor, the asio threads and a
manager inside of `prepare_finalize()` (weak fairness on their steps; a mutex is
eventually given to who waits for it unless the code can take it again at once,
which is why `loopinterrupt_antistarve_mutex` exists and `PrepareCompletes` is worth
checking); the subscription publishes every 100 ms; Gazebo publishes and delivers
poses again and again, from one queue in order, so that no workpiece waits for ever
behind the others (strong fairness on the delivery of a pose); its factory inserts what
was ordered; the world is
updated and its time advances; a timeout expires; the referee box repeats what it
knows of the machines. Readers and writers give a lock back, but nobody is obliged
to ask for one. Nobody is obliged to send a command, to move a workpiece, to call
`wait()`, `send()` or `wakeup()`, to destroy a machine, to wake the worker for no
reason, or to let a connection attempt end. Without the last, `Reconnects` must hold
although earlier clients hang.

`ShutdownJoins` and `ReportedCommandRuns` exclude, in their premises, the lost
wake-up: a notification between the worker's test of `shutdown_` and its wait, or
while it executes a command, wakes nobody. That window is real (`Mps`, `pc = "lock"`).

## Proofs

`Mps_proofs` proves, for all sets of workpieces, stations, action ids and payloads,
and all bounds (assumption `MpsAssumption`):

* `TypeCorrect`: `Spec => []TypeOK`;
* `MiddleTruth`: `Spec => []MiddleIsTrue`;
* `BusyCommand`: `Spec => []BusyHoldsCommand`;
* `CommandAtMostOnce`: `Spec => []AtMostOnce`;
* `Invariance`: `Spec => []IInv`, on which these rest.

`MiddleIsTrue`, `BusyHoldsCommand` and `AtMostOnce` are not inductive. `MoveStore` gives
`wp_in_middle_` whatever is in the local `wp`: one must know that this is a workpiece
(`HoldsWp`), and that one on its way in stays in the middle until the pointer takes it
(`ArrivedInMiddle`), for which robots must be unable to reach there. (On its way out it
does not matter which workpiece was moved: `MoveRelease` resets the pointer anyway.)
`AtMostOnce` needs the count of the command that is in the register and has not
moved anything yet (`Accounted`), and that the command stays in its register until it
is acknowledged (`CommandInRegister`), which `BusyHoldsCommand` needs as well. `IInv` is their conjunction; the proof has one
step per action.

`MpsLoader_proofs` proves, for machines of all four types under `LoaderAssumption` (the
brought workpieces are finite in number; the null values are no workpiece and no cap;
action ids are positive), `PromisesAreKept` (`Spec => []StationsKeepPromises`) and
`CapsAreSingle` (`Spec => []CapsNotDuplicated`), from `Invariance`. What the
steps of the four classes have in common is stated as two relations: `MoveStep`, what
a step may do to workpieces and pointers, and `CountStep`, what it may do to commands.
Every action of every class is shown to be a step of both, and the invariant is
preserved by these:

* `Arrived` is `ArrivedInMiddle` with the exception of `MiddleIsTrue` for a ring station, a
  workpiece whose pose on the slide comes late; what a delivery station puts at its gate
  stays there, which is its exception; the announcement of a base (`Announced`)
  may replace the pointer in the middle of a move, but by one that lies in the middle;
* `Accounted` charges each command once: while it is in the register and not executed,
  or, where a station clears the register first, until it acts (`Owing`); `InRegister`
  says what was charged is still there;
* `OneHolder`: all the places where a cap is are one. Each step takes the place of a
  cap to one place at most: a published command is where the station was, an executed
  one where the command was, an answer where the workpiece was. `stored_cap_color_`
  does not count between the publication and its reset, where a late answer may
  overwrite it: a cap may be lost there, but not doubled.

`InterruptibleBarrier_proofs` proves, for every finite set of threads
(`BarrierAssumption`), `TypeCorrect`, `ArrivalsAreCounted` (`[]ArrivalsCounted`) and
`IsARendezvous`, the safety part of `ImplementsBarrier`: `Spec` implies
`Abstract!Init /\ [][Abstract!Next]_(Abstract!vars)`. The count is kept only because
who is in the list of passed threads cannot arrive again (`Fresh`: it still waits).
The refinement needs `Phases`: an undisturbed round is filling, full or being
left. One step of the code is matched by one step of `Rendezvous` or by none; that
the waiting threads do leave is liveness and stays with the run `barrier`.

`StreamClient_proofs` proves, for any senders and bounds (`ClientAssumption`),
`TypeCorrect`, `OneFrame` (`[]OneFrameAtATime`) and `IsAFifoLink` (`ImplementsFifoLink`,
the whole of it, since `FifoLink` has no fairness). `IdleIsEmpty` says that nothing
waits while `outbound_active_` is down, and `Numbered` that what waits and what is
being written are the last messages accepted, in order; so a failed write loses the
oldest one and the queue survives a reconnection.

`LockPtr_proofs` proves `PointersAreSound` for any threads, pointers and objects. The
count of an object is exact only if it is known what each thread is in the middle
of (`Midway`), that a pointer not yet counted is being counted by someone
(`Uncounted`) who still has the one it is a copy of (`Sourced`), and that who locked
an object keeps a counted pointer to it and its mutex (`Locked`).

`Libraries_proofs` proves every safety property of the run `libraries` for
`LibrariesSpec`, under `CoreAssumption` and `ListAssumption` (the threads of a list are
finite in number, `Main` and `Nobody` are no threads and `Nobody` is no file, the bounds and
the nanoseconds of a second are natural numbers): `LocksAreBalanced`, `PointersAreSound`,
`ThreadsAreSound`, `ListsAreOne`, `RoundsFit`, `CopiesAreWhole`, `ConfigurationIsKept` and,
an action property, `RoundsAreComplete`. A behaviour keeps its `kind`, so each is the
invariance of one formula for each kind it is about. Pointers reuse the module above by
INSTANCE.
Locks need to know that lockers of a thread end in reverse order and that a
writer is alone; waits, that the mutex in use is the one the wait came with and
the deadline the one asked for; lists, how far an operation has come and what it has
done to the threads before (`Initialised`, `Stopped`, `HeldTogether`); rounds, that
the barrier of the list counts the members that are not flagged and the main thread
(`Counted`), which of the members have it (`HasBarrier`), and that a member no plain
wake-up has touched has exactly one wake-up and the barrier from the beginning of the
round until it has looped, and nothing between rounds (`OnlyByList`). `ListIsOne` names the
list a throwing finalizer leaves behind (`HalfInitialised`). Of the others:

* containers: in a class with its own `operator=` every container keeps the lock it
  was   made with (`OwnLocks`), while the compiler's never copies under a lock, so
  that nothing   is said of it (`CopiesUnlocked`); who assigns has the target for
  itself from its first step on and has   locked the source while it copies
  (`AssignmentLocks`), and a container that is locked   for writing has no readers
  (`NoReaderBeside`);
* messages: each exception has a path through the nodes, no two paths share one
  (`ChainsHold`), and the path is what was recorded; so a list that is copied while
  another thread appends to it is a list all the same. That the walk over the pointers
  sees this path (`WalkFollows`) is shown without induction, by the least number at which
  it would not;
* configuration: what a restart would find, the file or the content that is being
  written to it, has every scalar that was stored, and so has the host-specific tree
  (`StoredKept`); that tree is part of the root tree with the same text wherever both
  have a scalar (`HostInRoot`); a scalar has the type of its text, unless an exception
  left it halfway or it was set over a list and has that list's type (`Consistent`, in
  `IsTree`). What `Merge`, `find_or_insert`, `Erase` and
  `emit` do to any such tree are lemmas. The files a behaviour begins with, the three
  paths and the texts that are set are those of the module (the lemmas about the
  steps hold for any text); the width of integers and the number of changes are any.

It also proves `ThreadIsSound`, `Spec => []ThreadSound` of module `Thread` by itself, for
every bound on the pending wake-ups. `NoLostWakeup` is inductive with the types alone. That
a prepared thread is quiet and a joined one holds nothing needs to know who owns
which mutex where: `LoopOwned` (the worker has the loop mutex exactly in `loop()`,
the manager from the moment it has it until `prepare_finalize_user()` returns, and
then no `loop()` begins), `SleepOwned` (which mode a thread must be in to be at a
place of the sleep mutex) and `Lives` (a started thread has a worker).

`World_proofs` proves the four invariants of the run `world` for `Spec` under
`WorldAssumption` (names enough for the shelf and the slots, the tokens for "none" not
among them, machines finite in number): `PlacesAreKept`, `ReportsAreTrue`,
`LightsAreFollowed`, `RobotsAreServed`. `WorldIInv` is one invariant per plugin:

* shelf: a workpiece is ordered for one place before it stands anywhere
  (`LivesInOrder`), one stands in or is ordered for a place (`Alone`), the station's
  pointer leads to it (`Known`), a refill comes when nothing is under way (`DueIsQuiet`);
* storage station: nothing happens to a workpiece before its announcement is delivered
  (`UntouchedFirst`), which happens once (`NewsOnce`), and from then on some number of
  the commands of its slot's plan is done and the others are still to come, in that
  order (`StockInWork`); the workpieces of other machines stay bare (`ForeignBare`);
* grippers: the last message about a gripper, delivered or not, says what hangs on
  its joint (`LastWord`, `Attached`);
* lights: where `change_light()` is, it knows the state of the light (`ChangeKnows`), and
  a light left alone looks as its last state and as the last message written (`ShownLast`),
  but for one written between `prev_state` and the publication;
* detection: the lights are those of the last message or will be when its handler is
  through (`LampFollows`); a report no message crossed finds the handler at rest or is
  its own (`ReportsAlone`), so that what it tells is so;
* placement: a machine is placed exactly if it stands in its zone (`Standing`);
* robot: nothing is overdue after an update (`Punctual`, `HeardLast`, `TagsFound`), the
  members written so far are the command's (`Written`), the estimate is the heading
  modulo a turn (`HeadingKept`).

`ProtobufComm_proofs` proves the three invariants and the action property of the run
`comm` for `Spec` under `CommAssumption` (the number of clients and the lengths of
messages are natural numbers): `TrafficIsInOrder`, `FramesRoundTrip`, `BridgeIsLinked`
and `MessagesAreNotMixedUp`. `IInv` is one invariant per part:

* server: an idle session has written all it was given (`IdleIsDone`), and while a
  write is in progress the wire, the write and the queue count on (`Numbered`); after
  a failed write nothing is known of the queue, and nothing needs to be, because
  `outbound_active_` stays set. Sessions are reported gone only once announced,
  since only their own reads and writes fail (`BusyIsAnnounced`, `NotYetAnnounced`);
* peer: who finds `outbound_active_` down finds the address resolved and nothing being
  sent (`IdleSendsNothing`), and what waits came last (`Waiting`);
* frames: the datagram on its way was made with the cipher of now (`FrameOfNow`) and
  every key is its cipher's (`KeysRight`);
* receiving: the pending receive has a buffer, and while `crypto_buf_` is set it is the
  one for encrypted datagrams (`BufferMode`);
* register: what a user is about to insert is a type for a key (`RegisterTypeOK`);
* bridge: a client announces the connection it has and the loss of one it had
  (`SignalsFollow`), and a handler that found `connected_` set with one client found one
  that has connected, so that `send()` throws only if it has lost its connection since
  (`FoundConnected`).

Where a definition works on data of unknown length, the proofs do without induction
over it: the first zone a machine is told is the minimum of a set of positions
(`MinFacts`, from the well-foundedness of the naturals), and the rings of a slot are
read from listings of at most four words (`ReadFacts`).

Only model-checked are the liveness properties, the liveness part of `ImplementsBarrier`
included, because fairness and ENABLED are out of the prover's reach. Every invariant
and every action property of the runs is also a theorem.

## Not modelled

The depth camera copies buffers and the tag plugin publishes a picture; the old
`llsf` and `carologistics-robotino` plugins are not built; the programs under `qa/`
are tests; the exception classes only carry a text; argument parser, host info and
string conversions hold no state. Of the modelled components, left out are: the OPC
UA, protobuf and cipher libraries themselves, joints, visuals and coordinates, which
no property tells apart; `FamThread` of the configuration (`HAVE_FAM` is not defined)
and its change handlers, which it never calls; `wait_loop_done()`, `retrieve_puck()` and
`publish_indicator()`, which nobody calls; spinlock, recursive mutex, counted
read/write lock and thread collector, which pass each call on. Each component's note
in `PROJECT.json` says what is left out of it.
