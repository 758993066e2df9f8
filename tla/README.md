# A verification project for openpower-vpd-parser

`vpd-manager` collects the Vital Product Data (VPD) of every field replaceable
unit (FRU) of an OpenPOWER server and publishes it on D-Bus, through the
Phosphor Inventory Manager (PIM). This directory holds TLA+ modules that model
the parts of the program whose correctness depends on the order of events, the
TLC instances that check them, and proofs for every value of the constants.

Line numbers below are those of the source tree this project was written for;
`PROJECT.json` maps each definition to its lines.

## 1. Inventory of the system

One process, `vpd-manager`, does the work. Its **io thread** runs a boost::asio
loop: D-Bus methods, timers, signal matches and GPIO polling are handlers that
run one at a time. **Collection threads**, one per FRU, are detached
`std::thread`s. PIM is another process; the manager changes it only by merging
object maps with `Notify`, so PIM outlives a restart of the manager, and
persists over reboots. `systemd` restarts the manager whenever it ends
(`Restart=always`). `wait-vpd-parser` is a client that primes the inventory,
triggers the collection and polls the `Status` property. `vpd-tool` is a
command line client.

| component | state it keeps | operations | what makes it correct |
|---|---|---|---|
| Collection of all FRUs (`worker.cpp`, `ibm_handler.cpp`, `manager.cpp`) | Status property, semaphore, counter of active threads, flag, static timer and retries, list of failed paths | `CollectAllFRUVPD`, creation loop, `parseAndPublishVPD` per thread, timer | books of semaphore and counter balance on every path; no completion is lost; every thread ends; one timer; Status keeps its life cycle; a settled FRU shows a final status and no data of another boot |
| Single FRU maintenance (`worker.cpp`, `gpio_monitor.cpp`, `listener.cpp`) | last value of each presence pin | collect one, delete one, recollect at host start, presence signal, GPIO poll | what is on PIM follows what is in the slot; no FRU is left "in progress" |
| Keyword update (`manager.cpp`, `parser.cpp`, `vpd_specific_utility.hpp`) | EEPROM contents, D-Bus value, reboot guard | write a keyword to hardware, D-Bus, redundant EEPROM, backup, inherited FRUs | success means every copy agrees; the guard is always released |
| Backup and restore (`backup_restore.cpp`) | static status; system VPD and its copy | one synchronisation per process; mirror of later writes | nothing that was set is overwritten by a default; it converges; it is done once |
| BIOS handler (`bios_handler.cpp`) | BIOS attributes, keywords | attribute to keyword on change, keyword to attribute at PLDM start | the two sides agree, and neither overwrites the other with a default |
| Initial setup (`ibm_handler.cpp`, `manager.cpp`) | JSON symbolic link, U-Boot environment | choose JSON, reboot for the device tree, create the worker, publish system VPD | reboots once for a device tree; the worker has the JSON and the tree of its system; what one start decides does not keep the next from starting |
| Single fab override (`single_fab.cpp`) | IM keyword of the planar | decision table over IM values, mode and image | quiesces exactly on mismatch; writes only P11 values |
| wait-vpd-parser | retries left | restore backup, prime, trigger, poll | success only after Completed; always ends |
| Loggers (`logger.cpp`) | message queue, log files | enqueue, flush, terminate | no message accepted before termination is lost |
| IPZ parser and writer (`ipz_parser.cpp`) | EEPROM bytes | parse, write keyword and ECC | a write changes one keyword and keeps the ECC valid |
| Correlated properties listener (`listener.cpp`) | signal matches | copy a changed property to its related ones | they are the same when the listener is idle; its own writes do not echo for ever |
| vpd-tool (`vpd_tool.cpp`) | what it has read before its user answers | mfgClean, fixSystemVPD, writeKeyword, forceReset | it does not undo what others wrote; a reset leaves a system that starts |
| Other parsers, ECC, JSON utilities, event logs, configuration | none shared | | decoding and look-ups |

Interactions: the io thread and the collection threads share the worker's
semaphore, counter and flag, and the records on PIM. The timer handler, when it
sees the flag, also starts the PowerVS update, backup and restore, the
correlated property listener, and stops the collection logger. Presence
signals, GPIO polling and host state changes collect and delete single FRUs
without asking whether the collection of all FRUs is over.

What is hard to test here: the order in which threads pass the semaphore, the
counter and the flag; the failure of a D-Bus call at each step; a second
request before the first is over; a restart in the middle; a FRU that is
swapped while it is read; writes to several copies of which one fails.
`PROJECT.json` lists each of these under `hazards` at its line.

## 2. Plan

| # | modules | subject | state |
|---|---|---|---|
| 1 | FruInventory, FruCollection, CollectionProgress | the collection of all FRUs, the contract of Status | done, proved |
| 2 | FruMaintenance | single FRU operations beside a collection thread, with a slot that changes | done, proved |
| 3 | KeywordCopies | keyword update on all copies, backup and restore | done, proved; open: several keywords |
| 4 | CorrelatedProperties | the listener that copies a changed property to related ones | done, proved |
| 5 | BiosSync, VpdTool | BIOS attributes and keywords, the commands of vpd-tool beside them | done, proved |
| 6 | SingleFab, InitialSetup, SystemStart | the start of the manager over boots and failures, wait-vpd-parser, forced reset | done, proved |
| 7 | IpzRecord, IpzUpdate | the walk along a record, keyword writes and their ECC beside a parse | done, proved; open: malformed layouts |

What a later extension could take up: the collection logger and its
termination, several keywords of one backup map, the reading of a configuration
JSON, the byte layouts of the other parsers.

VpdTool EXTENDS BiosSync, as the tool works beside the handler; SystemStart
EXTENDS InitialSetup, which EXTENDS SingleFab; IpzUpdate EXTENDS IpzRecord. The
remaining modules meet in what they leave to each other: a collection that
"ends" in SystemStart is FruCollection, `UpdateKeyword` in BiosSync is
KeywordCopies, and its hardware write there is IpzUpdate. CollectionProgress is
the abstract specification that FruCollection is shown to implement.

## 3. Modules and their correspondence to the code

**FruInventory** - the record of a FRU on PIM: `status` (Common.Progress),
`vpd` (nothing, what the hardware held, or data of another boot or part) and
`present`. `WithStatus`, `Published`, `Cleared`, `MarkedAbsent` are the merges
of `setCollectionStatusProperty`, `populateDbus`, `resetObjTreeVpd`,
`setPresentProperty`. A record stands for the FRU with its sub-FRUs. A map that
clears only empties the keywords it saw when it was built.

**FruCollection** - the collection. Variables and code:

| variable | code |
|---|---|
| `status` | `Manager::m_vpdCollectionStatus`, the D-Bus property |
| `io`, `toVisit`, `round` | the loop of `collectFrusFromJson`, and which request it serves |
| `timer`, `retry` | static `l_timer`, `l_timerRetry` of `SetTimerToDetectVpdCollectionStatus` |
| `limit`, `permits` | constructor argument of the worker, `m_semaphore` |
| `activeCount`, `allCollected`, `failedPaths` | `m_activeCollectionThreadCount`, `m_isAllFruCollected`, `m_failedEepromPaths` |
| `pc`, `sawVpd` | where a collection thread is in `parseAndPublishVPD` and in its lambda, and what its clearing map holds |
| `leaked` | history: threads that returned early and kept their permit |
| `pim` | the records on PIM |
| `chassisOn`, `restarts` | the environment |

Each handler of the io thread is one action; only the creation loop is split,
one step per FRU, as threads run while it does. A thread takes one step for each
access to something shared: `Acquire`, `CountUp`, `SetInProgress`,
`ParseVpdFile`, `Publish`, `ReadTree`, `ClearTree`, `SetCompleted`,
`SetFailed`, `SetAbsent`, `Release`, `CountDown`, `CheckCount`. `CheckCount` is
apart from `CountDown` because the code reads the counter after the unlock,
without the mutex: the values that read may see are those the counter has
between the two steps. A thread is named by its request and FRU, since a second
request can be accepted while threads of the first still wait.

**CollectionProgress** - what a client may rely on: a request is refused while
one is in progress, and Completed is announced for a request in progress after
some FRU came back. FruCollection implements it (`KeepsProgress`).

**MCFruCollection** gives FruCollection its constants for TLC.
**FruCollectionProofs** holds the theorems.

**KeywordCopies** - one keyword of one FRU in all the places that hold it. A
behaviour is about one of three kinds of FRU (`kind`): a `module` with a
redundant EEPROM (`getAllPathsToUpdateKeyword`), system VPD with its backup on
another `eeprom`, or with its backup on its own D-Bus object, the `cache` of
`isBackupOnCache`.

| variable | code |
|---|---|
| `eeprom` | content of the source, destination and redundant EEPROMs |
| `pim` | the keyword on the base object of source and destination, on the objects that inherit from the source, and in the common interfaces of these |
| `guard` | the reboot guard units that `EnableRebootGuard` and `DisableRebootGuard` start |
| `status` | `BackupAndRestore::m_backupAndRestoreStatus` |
| `setup`, `srcMap` | `performInitialSetup` is running, and the keyword in the map that it or backup and restore parsed |
| `pc`, `call`, `rc`, `client` | where the io thread is, the call of `updateVpdKeyword` under way and for whom, its result, the client's request |
| `thread` | what a collection thread of the FRU read and has not published |
| `acked`, `failed`, `raced`, `stuck`, `reported` | history: the last answer of success, whether any call failed, whether a thread worked beside the request, whether the guard was left, whether the mismatch PEL was logged |

`updateVpdKeyword` is one sequence of steps for its three callers, the
client's write, its mirror and the synchronisation: `EnableRebootGuard`,
`WriteHardware`, `PublishKeyword`, `WriteRedundant`, `DisableRebootGuard`. Each
has the outcomes the code distinguishes; a hardware write that fails may have
changed the data already, as the ECC comes after them. `AnswerFailure`,
`Mirror`, `MirrorDone`, `PublishInherited` and `PublishCommon` are the rest of
`Manager::updateKeyword`. `SetDeviceTreeAndJson`, `BackupAndRestore`,
`BackupAndRestoreIpzVpd`, `SyncDone` and `PublishSystemVPD` are backup and
restore in its two places. `Restart` ends the process at any step; with the BMC,
the planar may be replaced by one with the default.

**MCKeywordCopies** gives KeywordCopies its constants.
**KeywordCopiesProofs** holds its theorems.

**FruMaintenance** - one FRU, of one of three kinds the JSON can describe
(`kind`: `polled` pin, `slot` replaced at standby, `monitored` Present). Its
io thread and a collection thread of the same FRU (`Proc`) each have a `pc`.

| variable | code |
|---|---|
| `slot`, `line`, `bound` | the hardware: the part, the enable line of `setGpio`, the driver of `systemCmd` |
| `signals` | queue of `presentPropertyChangeCallback` |
| `prev` | `GpioEventHandler::m_prevPresencePinValue` |
| `pim` | the record of the FRU |
| `pc`, `job`, `out`, `part`, `saw` | where a process is, for whom it works, how `parseVpdFile` returns, what it parsed, what its clearing map holds |
| `excuse`, `noticed`, `alone`, `used` | history, for the premises of the properties |

`CollectFruVpd`, `DeleteFruVpd`, `HandleTimerExpiry`, `PresentPropertyChange`,
`HostStateChange` and `CollectAll` start a job; `Step` has one action per access
to hardware or PIM, with its pre-, post- and postFail actions.

**CorrelatedProperties** - Asset.SerialNumber of the system and the keyword on
its holders. `bus` is PIM, `queue` the signals the io thread has not handled,
`todo` the rest of the loop in `correlatedPropChangedCallBack`. `Decode` stands
for `convertToBinary`; bytes are named by their printable form.

**BiosSync** - one of the keywords MM, RG and BA. `base`, `pending` and
`signals` belong to the BIOS configuration manager, `handler` and `todo` to
`BiosHandler` and `IbmBiosHandler`: waiting for PLDM, synchronising one attribute
at a time, listening. `Saved` and `Restored` are the conversions of each
`saveXToVpd` and `saveXToBios`. **VpdTool** adds the process of the tool: `pc`,
the `value` it is about to write, what it `found` on each side.

**SingleFab** - the decision table of `singleFabImOverride` as three operators:
`Refused` (the manager ends), `Converted` and `Overridden` (the IM becomes the
P11 one). **InitialSetup** - one action per step of the constructor of `Manager`
and of `IbmHandler::performInitialSetup`, which the process may die between.
`Faults` has the failures the code sees (a JSON, the link, a command that cannot
be run, the reboot, a write, PIM) and those it does not: `setenv`, `printenv`,
`mode`, `image` and `persisted` are calls that fail and whose caller goes on with
what they returned (`FwSetenv`, `ReadFitConfig`, `ReadFieldMode`, `ReadPowerVs`,
`ReadPersisted`).

| variable | code |
|---|---|
| `planar`, `persisted` | IM on the planar EEPROM, and in the inventory that PIM persists |
| `link`, `dangling`, `byLink` | the symbolic link, its JSON missing, `m_isSymlinkPresent` |
| `fitconfig`, `tree` | the variable of u-boot, and the tree the BMC booted with |
| `json`, `worker` | `m_sysCfgJsonObj`, the JSON of `m_worker` (None: null pointer) |
| `mgr`, `status` | how far the process is, the Status property |
| `rebootedFor`, `started`, `excused` | history |

**SystemStart** - the manager with `wait-vpd-parser` (`wait`, `polls`), requests
that are on their way (`requests`), `vpd-tool --forceReset` (`tool`), power loss,
service and reset to factory settings.

**IpzRecord** - pure operators on the cells of an EEPROM: how a parse
(`ReadKeywords`) and how a read or write of one keyword (`FindKeyword`) walk
along a record, and what the table of contents says. **IpzUpdate** - the writer
step by step: `vec` is `l_vpdVector`, `buffer` what `m_vpdFileStream` holds back;
`head` is what a collection thread has read of the file so far.
**IpzLayoutProofs** holds the lemmas about the layout of an EEPROM and about what
the operators of IpzRecord find in it, **IpzUpdateProofs** the theorems.

The MC modules give the constants of their module for TLC, the modules
ending in Proofs hold its theorems.

## 4. Runs

| run | instance | shows |
|---|---|---|
| `collect_requests` | 2 FRUs (one with presence handled, also a pass 1 PCIe card), 2 permits (1 when created with the chassis on), 2 requests, 1 retry, the chassis powered on and off, no faults | books, flag, timer and PIM records in every interleaving, of overlapping requests too |
| `collect_faults` | 1 permit, no pass 1 card, 1 request, failing calls and creations of threads, 1 restart, `FairSpec` | no failure path unbalances the semaphore or loses the completion; contract of Status over a restart; every thread ends, the flag is raised, the timer stops |
| `collect_premature` | 1 permit, 2 FRUs | violation: Completed with a FRU not collected |
| `collect_leak` | 1 permit, pass 1 cards | violation: a thread waits for ever for a lost permit |
| `copies_faults` | 3 values, all kinds of FRU, any fault at any step, any number of restarts and requests | the guard balances, acknowledged values stay, copies agree, what was set survives |
| `copies_lost_backup` | backup on D-Bus, failing hardware writes | violation: the default is published over the last copy of the value |
| `maintenance` | 2 parts, all kinds of FRU, any fault, 2 queued signals | no ghost of a part that is gone, nothing stays InProgress, no line stays on |
| `correlated` | 2 holders, 4 texts (two of them in hexadecimal, one of these no value), any fault, 2 writers | in sync when idle, a lone write stays, its echo ends |
| `bios_sync` | MM, RG, BA with one bit; core override 0, 1, 256; any fault, 2 tables that wait | attribute and keyword agree on what the keyword can hold, a choice that fits the keyword survives restarts and resets, fixSystemVPD leaves no mismatch |
| `system_start` | one IM of each series and one of neither, any fault, 2 polls | the worker fits the system, and the client is honest; what started starts again and the BMC is not rebooted in a loop, but for the failures below that the code does not see |
| `start_reboot_loop` | the same, with nothing failing but `fw_setenv` | violation: a second reboot for the device tree it was just rebooted for |
| `ipz_update` | 2 records, 4 keywords, one with a two byte length; bytes of base 3; 2 writes | values as written at every step and failure, ECC alarms only where a write was |

Two FRUs are enough for the contention the code has: two threads that both want
the last permit, one that leaves while the other enters, two of different
requests on the same FRU. Two permits let both be inside; one permit makes one
wait. One retry separates "retry" from "give up" (the code has 12; the theorems
hold for any number). One restart covers a death at every step. With failing
calls the run has one permit only, so that its liveness can be checked; the
books, the completion and the contract of Status are proved for any number.
`MaxRounds` and `MaxRestarts` bound requests and restarts and stand in the
guards.

Three values are the default and two that were set, which is what it takes for a
mismatch; a comparison never looks at more than two. `SYMMETRY` exchanges the two
set values, which the code never tells apart, and the run has no liveness
property. KeywordCopies is finite without bounds. Its environment can always
take a step, so its deadlock check is on.

Two parts in `maintenance` are exchanged by `SYMMETRY`, sound as no property is
temporal; two signals are what it takes for one to be handled when the slot has
changed again. In `correlated`, two writers are one that crosses the other; a
third would meet the same queue. One bit of BA is enough as the handler treats
each for itself and the callback saves none. 256 is the first core override whose
low byte is not its value. In `system_start` a second IM of a series would only
be another planar of the same row of the table; the theorems hold for all.
In `ipz_update`, `ByteSize` 3 makes a keyword of three bytes need the high byte
of its length, and one of the values holds PF and the name of a later keyword.
All of these runs check for deadlock.

Deadlock is not checked in the collection runs: the system may stop when nobody
makes a request.

**Fairness** (`FairSpec`): the kernel runs every runnable thread, so each thread
is weakly fair; the io loop goes on with its loop and the timer expires.
Requests and faults are not fair. `Acquire` is only weakly fair, as
`std::counting_semaphore` promises no order among waiters. Outcomes of parsing
or of a D-Bus call are never assumed to be good ones. In CorrelatedProperties the
io thread goes on with the signals and the writes it has (`Listener`), whatever
these do; neither writers nor faults are fair.

**Findings.** (1) A thread is counted only after it has a permit, so the counter
is zero whenever nobody holds one: the flag is raised and Status becomes
Completed while threads still wait; the handler's doc says Status is set when
all threads are back. (2) The early return for a corrupted PCIe card on a pass 1
planar keeps its permit. With the chassis on such cards are skipped
(worker.cpp:1127); with the chassis off `MAX_THREADS` of them take all permits
there are, as one does if the worker was created with the chassis on, and the
threads that still wait never run. (3) With the backup on D-Bus, a value that is
to be restored and cannot be written to the EEPROM stays the default in the
parsed map, and `publishSystemVPD` writes that default over the backup. (4)
`executeCmd` drops the exit status of the command, so an `fw_setenv` that fails
is not seen and the BMC is rebooted with its environment unchanged, at every
start again; an `fw_printenv` that prints no device tree does the same.

What the properties of KeywordCopies leave open, because the code does: nothing
is reverted when a later write of a request fails, so a client told of failure
may find its value on the EEPROM; a failed mirror is answered with success, and
when the client wrote the default, the next backup and restore takes it back
(`AckedIsKept` excepts it); a collection thread that read before a write
publishes the old value after it (`raced`).

What the other modules leave open, for the same reason:

* *FruMaintenance.* A part swapped between two polls, and two flows on one FRU
  at once, may leave data of the part that is gone until the next collection
  (`excuse`). The pin is remembered before its change is handled, so a handling
  that fails is not repeated.
* *CorrelatedProperties.* Two writes that cross, one on each side, are exchanged
  for ever: each signal carries its old value and is copied over the other. The
  class comment says the properties "remain in sync" (listener.hpp:123);
  `EchoEnds` and `LoneWriteStays` are stated for one writer. A text that begins
  with 0x is decoded, so the holders get the bytes it names. The copies exist on
  D-Bus only.
* *BiosSync.* The three attributes of BA are saved with an interface name where
  the writer expects a record name (bios_handler.cpp:461, 572, 681), so they are
  never saved. A change between the synchronisation and the registration of the
  match is not heard. A restart before restored values are applied may lose
  them. Of an override the keyword has only the low byte (`Kept`):
  `ChoiceSurvives` is about choices that fit it, `SidesAgree` about as much of
  the attribute as fits; 256 is saved as 0 without a message, and restored as 0
  after a reset to factory settings, although the handler's doc says backed up
  values can be used to restore the BIOS (bios_handler.hpp:218).
* *VpdTool.* The shipped backup maps (50001000, 50003000, 60004000) mark VSYS.RG,
  UTIL.D0 and UTIL.D1 for the synchronisation with the BIOS, the tool itself knows
  VSYS.MM and VSYS.BA: these are not in the map, and mfgClean with
  syncBiosAttributes skips D0 and D1.
* *InitialSetup.* A process that dies, or a reboot that fails, after `fw_setenv`
  makes the next start trust the environment over the tree that runs (`"tree"`
  in `excused`). A dangling link can never be replaced: it does not "exist", and
  creating it fails; nor does forceReset remove it. An IM that could not be
  written lets the system start as P10 once and be refused ever after in field
  mode (`"im"`); so does a start with the chassis on, which skips the override.
  A planar that cannot be read ends the process through a `noexcept` function.
  None of what the override reads besides the planar can fail: a mode that
  cannot be read is lab mode, an image a normal one (`"misread"`), a persisted
  IM none. The first two can let a planar pass that all later starts refuse: a
  POWER10 one in field mode, with nothing persisted, passes unconverted and is
  published when the mode cannot be read once (single_fab.cpp:165). The third
  needs no excuse, as `StartsAgain` holds with it, but such a start may turn a
  planar into a P11 one that it would have refused. What `fw_setenv` and
  `fw_printenv` failed to do is `"env"`, until a start finds the device tree in
  the environment. After a failed setup the manager claims its name with a null
  worker, and the first CollectAllFRUVPD ends it (ibm_handler.cpp:1204).
* *SystemStart.* wait-vpd-parser does not trigger again when the manager has
  restarted, and gives up. A forced reset that fails half way leaves the manager
  stopped. A planar of another series is started once in field mode on a system
  that persisted none, and refused afterwards if it is put into one of neither
  series; `Service` excludes that exchange.
* *IpzUpdate.* A record whose ECC does not match is reported, its keywords are
  published all the same. An ECC that cannot be made leaves the data on the
  EEPROM, as the stream is flushed when it is closed, and the client is told of
  failure; an ECC that cannot be written at the close is not noticed. `vpdecc` is
  a stub in this repository: it is modelled by what its header promises.

## 5. Proofs

`FruCollectionProofs` proves, for any finite set of FRUs, any limits and any
environment, with `FruAssumption` and `CollectionAssumption` as the only
assumptions:

* `TypeCorrect` - `TypeOK` is inductive.
* `AccountingCorrect`, from which `PermitsCorrect` and `CountCorrect`. The
  inductive invariant `Accounting` adds to the two equations that a thread of a
  request not made yet is not created (`NewThreads`: so the loop creates a
  thread where none was counted) and that a thread that lost its permit is past
  the part where it held it (`LeakedPast`: so it is not counted twice). The
  lemma `MoveCounts` says how the cardinality of a part of the program changes
  when one thread moves; each action then balances by arithmetic.
* `FlagCorrect`, from which `NoCompletionLost` and `OnlyOneTimer`. `FlagInv`
  adds that a raised flag comes from a thread that finished (`FlagFromThread`)
  and that nothing happens before a request (`NothingBefore`). The heart is that
  when `CheckCount` sees a counter that is not zero, some other thread is
  counted, by `CountIsExact`, and will pass the decrement after it.
* `CollectionKeepsProgress` - every step of FruCollection is a step of
  CollectionProgress or a stutter, with `collected` read off the program
  counters.

Its second part proves `SettledIsFinal` and `FailedIsAlwaysCleared` from the same
assumptions, for a PIM that answers (`PimReply = {TRUE}` is part of both
properties). `RecordInv` follows the record of a FRU through the threads that
share it: what is stale when a thread reads it is in the map that empties it
(`NotStale`); the last of the threads to write a status writes a final one
(`FinalStatus`); and a thread that has the FRU to itself leaves it empty when it
fails (`Undisturbed`). `ThreadStepRecord` says what one step does to the thread's
own place and record, `ThreadStepRecordInv` what that means for the others.

`KeywordCopiesProofs` proves, for any values, kinds of FRU and faults, from
`CopiesAssumption`:

* `CopiesTypeCorrect` - `TypeOK` is inductive.
* `GuardCorrect` - `GuardBalanced` is inductive over typed states.
* `SetValueIsNotLost` - `SetValueSurvives`. That property speaks of steps, so the
  work is in what must hold before a step: `CallInv` (backup and restore never
  writes the default; a backup on D-Bus has one EEPROM and no collection thread)
  and `PublishInv` (what is about to be published is what was written; the map
  that `PublishSystemVPD` publishes is set whenever the backup is and the EEPROM
  is not, unless a call failed - the exception that the finding lives in).

Its second part builds on these for `AckedIsAlwaysKept`, `CopiesAlwaysAgree` and
`InheritedAlwaysFollow`, which speak of an idle io thread:

* `FlowInv` - where the io thread can be, for whom and for which kind of FRU;
* `RequestInv` - how far the request under way has come: what its client was
  promised is on the copies it has passed (`Served`), and no thread has read the
  FRU meanwhile unless `raced` says so;
* `AckInv` - what an answered request rests on afterwards: backup and restore
  writes the other copy or the value that is there already, and a thread holds
  what it read after the answer. It holds whatever fails;
* `EepromInv`, `CacheInv` - as long as no call fails, what the two copies have in
  common at each step of a synchronisation, a request and its mirror.

`SystemStartProofs` proves, for all IM values, conversions, limits of polls and
faults, from `SingleFabAssumption` and `PollAssumption`: `TypeCorrect`,
`WorkerAlwaysFits`, `AlwaysStartsAgain`, `WaitAlwaysHonest` and
`NeverRebootLoop`. All five follow from one inductive invariant:

* `ProcessInv` says what each phase of the setup has established (from the
  choice on, the JSON is the one of the planar; from the environment on, that is
  too; a link the process trusts does not dangle);
* `TreeInv`, that the tree that runs is the one in the environment unless excused;
* `ImInv`: the property itself is not inductive, as the next start compares the
  planar with what is persisted *then*. `FitsItself` asks from the override on
  that it would not be refused with itself or with nothing persisted, which is
  all that a publication, a forced reset and a persisted IM that cannot be read
  can make of it; once the system was started, it would not be refused with what
  is persisted, either. The lemmas `OverrideFits` and `MisreadFits` show that
  the override of one start keeps these, with the persisted IM read or not;
* `RebootInv`, that the BMC was rebooted only for the JSON of the planar or for
  those of a P10 planar that was converted since, and `EnvInv`, which holds as
  long as `fw_setenv` and `fw_printenv` did not fail unseen: a device tree the BMC
  was rebooted for is in the environment, and a reboot is for a new one;
* `ClientInv`, that a Completed of before the request is seen only while the
  request still waits, which the manager handles first.

`FruMaintenanceProofs` proves, for any parts, kinds of FRU, faults and number of
waiting signals, from `MaintenanceAssumption`: `MaintenanceTypeCorrect`,
`NoGhostStays`, `ProgressAlwaysEnds` and `NoPowerStaysOn`. Each property speaks
of a moment at which all is quiet, and so says nothing of the steps before; the
inductive invariant says what the jobs that run have still to do:

* `JobInv`, `AloneInv` - which steps a job may be at, who may have it, and that
  without an excuse only one job runs;
* `ProgressInv`, `PowerInv` - a record that is InProgress, and a line that is on
  without use, have a job that is still to end it;
* `RecordInv` - CCIN and Present are never there without the other keywords;
* `GhostInv` - how far a job has brought the record to fit the slot (`Good`). It
  is stated under `Expected`, which is weaker than `UpToDate`: a FRU fits its
  record already while signals wait that only announce a part, as only the
  announcement of an empty slot makes a deletion follow. The lemma `OthersIdle`
  reduces the invariant to the one job that moves.

`VpdToolProofs` proves, for all keywords, attributes of BA, numbers, faults and any
number of tables that wait, from `BiosAssumption`: `ToolTypeCorrect`,
`SidesAlwaysAgree`, `ChoiceAlwaysSurvives` and `FixAlwaysWorks`. The properties
speak of a handler that has nothing left to do; the invariant behind them says
what is still to come:

* `TypeInv` adds to `TypeOK` that what fixSystemVPD writes has been read;
* `QueueInv` - the last table that waits is the table as it is, so whatever the
  ones before make of the keyword is put right by the last;
* `AgreeOf` - an attribute agrees with its keyword or is going to be signalled;
* `ChoiceOf` - what an attribute was set to is kept by the keyword until the
  handler has come to it, and by the attribute from then on. A restart goes back
  from the second to the first, which is why it excuses what is under way. The
  invariant is about every choice (`Survives`): the keyword has as much of it as
  it can hold, and after a restart the attribute may have no more; for a choice
  that fits, that is all of it;
* `CleanInv`, `FixInv` - what the tool holds agrees with what it has read it from,
  unless that changed.

Of the conversions, the proof uses the lemmas `SavedAgrees`, `RestoredAgrees` and
`ToolValueAgrees`: what is saved restores the attribute, as far as the keyword
can hold it, and is not the default. What it cannot hold is cut off once only
(`KeptTwice`).

`CorrelatedPropertiesProofs` proves, for any number of holders, values and
writers, from `CorrelatedAssumption`: `CorrelatedTypeCorrect`, `SyncedAlways` and
`LoneWriteAlwaysStays`. `SyncInv` says that a holder is in sync, or the signal or
the write that brings it there is on its way with the value that one side has
now (`OnItsWay`). So a stale copy does no harm: it changes a property, and that
change is signalled in turn. `LoneInv` says that after one write all that is under
way carries its value. That a callback and a write leave nobody out rests on
`ReachesAll`, about sequences of the elements of a set.

`IpzUpdateProofs` proves, for any programmed records, keywords and data, any
targets, values, faults and number of writes, from `IpzAssumption`,
`UpdateAssumption` and `ProgrammedAssumption`: `IpzTypeCorrect`,
`ValuesAlwaysAsWritten` and `AlarmAlwaysHasCause`. The inductive invariant is
`IInv` (`LayoutInvariant`):

* `EepromInv` - every place of the EEPROM that is neither data of a keyword nor an
  ECC holds what was programmed (`Laid`), the data are the ones the writes have
  made, and the ECC of a record that is not `suspect` is the one of its content;
* `WriterInv` - what the stream holds back are data of the keyword that is
  written, in its place and not longer than it, or the ECC of its record. Without
  it nothing would be known of a stream that gets to the EEPROM in parts, or at
  its close;
* `ReadInv`, in `ThreadInv` - what the thread has read keeps to the layout, and of
  a record without `doubt` it is what is on the EEPROM now. So a parse that joins
  cells of two times gets a whole record, if nobody wrote to it meanwhile.

That the invariant gives the properties is the subject of `IpzLayoutProofs`: in
any memory that has the programmed layout (`Shape`) the table of contents has the
programmed entries (`TableFacts`), the walk along a record comes past the
programmed keywords and no other, whatever their data look like (`KeywordFacts`,
`NoKeyword`), and neither a record nor the data of a keyword overlaps another
(`RecordsApart`, `DataApart`). The walks and the programming of the EEPROM are
recursive functions. That they satisfy their equations, and what follows by
induction over places and records, rests on the lemma `Induction`. It speaks of a
set of numbers rather than of a predicate, and is derived from the least element
of a well-founded set (`WFMin`), which needs no operator as a parameter.

TLC checked `IInv` before it was proved, on the instance of `ipz_update` with two
writes (and with the `Nat` of `Fixed` cut to the places of that EEPROM).

Only model-checked are the liveness properties, `ThreadsEnd`, `FlagIsSet`,
`TimerStops` and `EchoEnds`: they need fairness.

## 6. What is not modelled

Contents and layout of VPD other than the IPZ records, location codes,
interfaces and property names; logging and PELs. `Status` can be written by any
D-Bus client; the model has no such client. FruCollection starts from a manager
that has a worker; what a failed setup does is in SystemStart. There the GPIO
and command actions around a collection are outcomes of `parseVpdFile`; they are
modelled in FruMaintenance, for one FRU.

KeywordCopies has one keyword: the encodings of the common interfaces are left
out, and so are `UpdateKeywordOnHardware` and the objects that inherit from a
backup on an EEPROM when a value is restored (the code does not update them).

The build that does not reboot for a device tree
(SKIP_REBOOT_ON_FITCONFIG_CHANGE), the HW keyword that picks a variant of the
JSON, the asset tag, the position of the BMC and the mux chips are not part of
InitialSetup; IBM_SYSTEM_SINGLE_FAB is a constant of it. Restoring a backup of the
inventory is still to be written in the code. Priming beside a collection that
runs overwrites what it published; no module has both.

In IpzUpdate EEPROMs are well formed: a walk that leaves the file, records that
are listed twice and the checks of VHDR and VTOC are left out. So is the
correction of a flipped bit, which the parser makes on a copy of the record only.

Not modelled at all: the loggers (output; their queue and termination), the
parsers for keyword VPD and DIMMs (sequential decoding), the ECC library (a stub
here), event logs, and the JSON data.
