# A verification of osbuild in TLA+

osbuild turns a manifest (JSON: pipelines of stages, sources) into file trees and
images.  This directory holds TLA+ models of its core, written from the Python
source, TLC configurations that check them on small instances, and theorems
that TLAPS proves for every instance.

Line numbers below and in `PROJECT.json` (`map`) refer to the files of the
repository; `osbuild/x.py` is `src/osbuild/x.py` there.

## 1. The system

| Component | State | Operations | Interacts through |
|---|---|---|---|
| Cache files (`util/fscache.py`: `_atomic_open`, `_atomic_file`) | `cache.size`, `cache.info`, their inodes and locks | locked read-modify-replace; unlocked read of `cache.info` | a directory shared by processes |
| Entering a cache (`FsCache.__enter__`, `_create_scaffolding`, `info`) | the files of a new cache; what an instance read of `cache.info` | create, link, lock, load, merge, leave | links and renames, the cache lock |
| Cache objects (`FsCache.store/load/stage/_remove_lru`) | entry directories with lock, info and data; `cache.size` | store, load, stage, evict the least recently used | locks on lock files, renames |
| Object store (`objectstore.py`: `Object`, `ObjectStore`) | objects of this run (floating), entries held open | new, get, contains, commit, finalize, cleanup | calls of the cache |
| Manifest and pipelines (`pipeline.py`, end of `main_cli.py`) | pipelines, ids, work lists | depsolve, download, build, build_stages, export | calls of the object store and of `Stage.run` |
| Host services (`host.py`: `ServiceManager`, `ServiceClient`, `Service`) | processes, sockets, the resource of each service | start, call, stop and wait | one socket pair for each service |
| Inputs, devices, mounts (`inputs.py`, `devices.py`, `mounts.py`, `Stage.run`) | what is mapped, opened and mounted, and what rests on what | map, open, mount, and their undoing | services; the store endpoint |
| API endpoints (`api.py`, `StoreServer`, `StoreClient`) | a thread with an event loop, clients, messages; mounts made for clients | enter, accept, dispatch, stop, clean up | sockets; `call_soon_threadsafe` |
| Build root (`buildroot.py`) | a bwrap process, its output, registered endpoints | run, time out, leave | process, pipe |
| Messages (`jsoncomm.py`, `ServiceClient.call_with_fds`, `Service.serve`) | sockets, descriptors in flight | call, signal, reply, close | packets, memfds, `SCM_RIGHTS` |
| Sources (`sources.py`, `sources/*`) | the cache of downloads | fetch, verify, move, retry, copy | services, curl, files |
| Loop devices (`loop.py`, `remoteloop.py`) | kernel loop devices, locks against udev | allocate, bind, release | ioctl, flock, an endpoint |
| Virtual machines (`vm.py`, `qemu.py`) | a qemu process, an object store handed over | start, build a pipeline inside, stop | command line, sockets |
| Progress and logs (`monitor.py`, `ServiceManager._stdout_ready`) | nested counters, writers | begin, finish, log | callbacks, a thread |
| Formats and schemas (`formats/`, `meta.py`) | an index of modules and the schemata made of them | validate, load, describe, report | calls |
| Command line (`main_cli.py`) | where a run of osbuild is, its report and exit status | inspect, build, export | all of the above; the cache shared with other osbuilds |
| Solvers (`solver/`), programs (stages, assemblers, runners, ...), `util/*`, tools | of external programs | | command lines |

How it fits together: `osbuild_cli` loads a manifest, `Manifest.depsolve` decides
with the object store which pipelines must be built, `Manifest.build` builds
them.  `Pipeline.build_stages` starts from the last stored stage and calls
`Stage.run` for the others.  `Stage.run` enters a stack of contexts (build root,
temporary directory, store endpoint, service manager), starts a service for
each input, device and mount, runs the program of the stage in a container,
and leaves the contexts in reverse.  Trees of checkpoints are committed to the
cache, which any number of osbuild processes share.

What is hard in it:

* The cache is lock-based, on a file system, without a server.  A lock is on an
  inode and data is found by a path; files are replaced by renames; any process
  can die between any two system calls; callers come with locks of their own.
* Space is accounted in a counter apart from the files it counts.
* Trees are found by a hash of how the manifest says they are made, in three
  places (this run's objects, the cache, the processes of other users).
* A stage needs resources of the host that rest on each other, each in the hands
  of a process that may raise, die or be interrupted at any time.
* An endpoint is a thread that is stopped from outside, with messages pending.
* Loop devices are offered by the kernel to whoever asks, and are bound, probed and
  removed by others between any two ioctls.
* Logs of two threads, of services and of a guest share one stream with the
  progress and the answers that they are about.
* Descriptors travel with messages and belong to one side or the other, on every
  error path.
* A virtual machine can be lost at any point, and osbuild with it.
* What a manifest means is settled in several passes, by ids that change as stages
  are added.

### What makes each component correct

* Cache files: an update is atomic for other processes and for crashes, updates
  are not lost, nobody sees half a file, updates complete.
* Cache objects: an entry that somebody uses is not changed; a name is never
  taken away from an entry; `load` hands out complete trees; the counter stays within
  the limit, and it is known what separates it from the content.
* Manifest and object store: an id determines the tree that is found under it;
  what a stage or an export needs is there; nothing is built twice.
* Services and endpoints: a stage has all its resources; they are given back in
  an order that works; nothing is left on the host; nobody waits for ever.
* Entering a cache: whoever is inside has whole files; a live cache, and one of a
  later version, is not rewritten.
* Loop devices: nobody loses a device in use; none stays bound; users get done.
* Monitor and output: records are whole and belong to their job; no output of a
  stage is lost; a full pipe stops nobody for ever.
* Virtual machines: a build in one is the build on the host; no process is left.
* Messages: a call gets its own answer and files; no descriptor stays open.
* Formats and command line: all modules are validated, references, devices and
  runners are what the description says, and status and report tell the truth.
* Sources: a file under the name of an item has been verified; success and failure
  mean what they say.

## 2. Modules

| Module | Models | Role |
|---|---|---|
| `AtomicRegister` | what callers may expect of an update of a small cache file | abstract specification |
| `LockedReplace` | `_atomic_open`, `_atomic_file(replace=True)`, one action per system call | detailed specification, refines `AtomicRegister` |
| `CacheOps` | `_update_cache_size`, the setter of `FsCache.info` | pure operators |
| `FsCache` | `store`, `load`, `stage`, `_remove_lru`, `_rm_r_object` | specification; uses `CacheOps` and takes an update of `cache.size` as one step, which `LockedReplace` justifies |
| `CacheSetup` | `__enter__`, `_create_scaffolding`, `_load_cache_info`, the setter of `info`, `__exit__` | specification of what comes before and around `FsCache` |
| `ManifestBuild` | `Manifest`, `Pipeline`, `Stage.id`, `ObjectStore`, export | specification; sees the cache as its callers do |
| `VmBuild` | `build_stages` with `in_vm`, `Qemu`, `Virtiofsd`, `vm.py`, the hand-over of objects | specification of the other path through `build_stages` |
| `StageServices` | `Stage.run` with `ServiceManager`, services and their resources | abstract specification of a stage's run |
| `ApiServer` | `BaseAPI`: the thread of an endpoint | component, instantiated twice |
| `StageRun` | all of `Stage.run`: services, store endpoint, exception endpoint, program | composition; implements `StageServices` |
| `ServiceCalls` | `ServiceClient.call_with_fds`, `Service.serve`, `jsoncomm.Socket`, `FdSet` | specification of the calls that `StageServices` takes as one step |
| `LoopDevices` | `Loop`, `LoopControl`, `LoopServer`, `UdevInhibitor`, the loopback service | specification, with the kernel and udev as external actions |
| `Monitor` | `Context`, `Progress`, `JSONSeqMonitor.log` | component: the log calls of several threads |
| `BuildOutput` | `Manifest.download` and `Pipeline.run` towards the monitor, the event loop of `ServiceManager`, the output of `BuildRoot.run` | composition around `Monitor` |
| `SourceDownload` | `SourceService`, the curl source, `Source.copy` | specification |
| `ModuleIndex` | `ModuleInfo`, `Index`, runners (`meta.py`) | pure operators |
| `ManifestModel` | a loaded manifest: ids, dictionaries for VMs, checkpoints, look-up, `depsolve` | pure operators |
| `FormatV1`, `FormatV2` | `validate`, `load`, `describe`, `output` | pure operators, instantiated by the next |
| `OsbuildCli` | `osbuild_cli` from the arguments to the exit status | composition of the four above |
| `LockedReplaceProofs`, `FsCacheProofs`, `CacheSetupProofs`, `ManifestBuildProofs`, `StageRunProofs`, `SourceDownloadProofs`, `LoopDevicesProofs`, `VmBuildProofs` | | theorems |
| `MC*` | | instances for TLC, where a configuration alone does not say enough |

Operators whose comment says that they are a mutation are plausible errors of the
code.  No specification uses them: each property is checked to fail when the
definition below them is replaced by them (`mutants` in `PROJECT.json`).

### Cache files

`path` is the inode the name leads to, `content[i]` what is in an inode, `lock[i]`
its write lock (an OFD lock, so a lock belongs to an open file), `fd[p]` and
`tmp[p]` the descriptors of process `p`, and `pc[p]` the system call it is at.
`Open`, `Lock`, `Verified` and `Retry` are `_atomic_open`; `Read` to `Release` the
body of an update.  An inode number is reused when nothing refers to it, so the
comparison of inodes is tested against reuse.  `OpenUnlocked` is the read of
`cache.info` without a lock (`_load_cache_info`).  The refinement mapping takes the
abstract value to be `content[path]`; a call has taken effect when `Replace`, the
rename, has been done.

### Cache objects

An entry is a record: where its directory is (`unborn`, `anon` for `uuid-...`, a
name, `stage`, `gone`), which of lock file, info and data it contains, and who
holds read and write locks on its lock file.  `proc[p]` has the local variables of
a call.  One action per system call others can tell apart: of `store`, the new
directory with its locked lock file, the caller's filling, the accounting, the
info file, the rename and each step of the error paths; of `load`, open, lock, the
comparison afterwards and the end of use; of `_remove_lru`, the listing, the choice
of the oldest, open, lock, comparison, the removal of info, data, lock and
directory, and the de-accounting.  Dying drops locks and leaves files.
`Overhead` is the space of the directory and metadata of an entry, which eviction takes
off the counter and `store` does not put on it; it is not zero in the run.  `Balance` is
how far `cache.size` is from what is stored or in flight (`InFlight`: counted before the
files are there, or after they are gone).

### Entering a cache

`dirs` and `file` are the scaffolding: for each of the files of a new cache whether it
is there, whole, and (for `cache.info`) what is in it.  `inst[p]` is an instance of
`FsCache`: where it is in `__enter__`, the file of the scaffolding it is at and the
`info` it keeps.  `CreateTmp`, `WriteTmp`, `Link` and `Unlink` are `_atomic_file` without
`replace`, where the link fails if the name is taken; `Load` is `_load_cache_info`, with
fields of any type; `SetInfo` the setter, which re-reads, merges and replaces.
`seen[p]` remembers what the file has said since the instance entered.

### From a manifest to trees

A tree is the history of its making, an id the part of it that `Stage.id` and
`Pipeline.id` hash.  `Ids` and `Trees` compute both for a manifest, so the right tree
for an id is known, and whether the code finds it depends on what it stores under
which id and when.  `Depsolve`, `Requeue` and `Unstored` are the loop of
`Manifest.depsolve`; `NextPipeline` to `Finalize` are `build_stages`; `InStore` and
`Found` are the look-ups of `ObjectStore`.  The cache is a set of pairs that may lose
what nobody holds (`Evict`) and may be looked up in vain for a moment (`Seen`).

### A run of a stage

In `StageServices`, `host` says where `Stage.run` is, `loop` what the event-loop thread
of the service manager does, `up` how many services are registered, `sock` which sockets are open, and `svc`, `reply` and `res` what each
service does, answered and holds.  `Uses[i]` are the services whose resources that
of `i` rests on.  A resource that something rests on cannot be given back: it is
`leaked`.  `StageRun` adds the contexts around it (`phase`), two instances of
`ApiServer`, the `trees` the store has mounted for inputs and the program (`stage`).
An input that asks for a tree replies only after the store answered.

A `KeyboardInterrupt` may come at any of these places.  Inside the manager's context it
makes the exit stack unwind (`Interrupt`, `StartInterrupted`).  In `__enter__` or `__exit__`
of the manager or of an endpoint it cuts that method short, since neither has a
`try`/`finally`: the services that are registered stay connected and the event loop goes
on (`EnterInterrupted`, `ExitInterrupted`), the endpoint's thread is not told to stop or its
`_cleanup` is skipped (`EnterStoreInterrupted`, `ExitStoreInterrupted`, `EnterApiInterrupted`,
`ExitApiInterrupted`); the stack then leaves the next context.  `cut` says what was cut
short.  In `CleanupStore` deleting `tmproot` or an `umount` may fail, and what was mounted
stays.

### Calls of a service

`chan` has the packets on their way in each direction, at most `Cap` of them; `cli.open`
and `svc.open` the descriptor tables of the two processes, where a received file
gets the lowest free number as in the kernel, so that closing too often closes
something else.  A packet whose text is larger than the send buffer has a marker
as text and the text in a memfd before its other descriptors (`Packet`, `Room`,
`Received`).  `Dispatch` is what a method may do with the descriptors it was given:
return new ones, steal, return the received ones, return what is none, raise, or
return what cannot be sent.  Each message has a size of its own, and the memfd of a large
one takes the lowest free number before the files of its descriptors are looked up
(`Sending`), which may be the number that `fds.close()` has just given back.

### Loop devices

`dev[m]` is the kernel's state of a minor: who has it open, the file it is bound to,
autoclear, the lock, whether its pages are drained.  `user[u]` is where a loopback
service, or a request to the `LoopServer`, is: `GetUnbound`, `OpenLoop`, `Setup`, `Lock`,
`Configure` (with `SetStatus` on kernels without `LOOP_CONFIGURE`), use, and `FlushBuf`,
`ClearFd`, `GetStatus` and `CloseDevice` on the way out.  `Probe`, `Add`, `Remove` are others,
`Crash` is a kill: the kernel closes what the process had open.

### Logs, progress and output

In `Monitor`, a `log` call takes its steps one by one: the copy of the context, the id
that is computed, stored and read, the history that decides whether the record
names the context or describes it, the lock, and writes of a part of the record.
`BuildOutput` drives two threads through it: the main one (`main.at`), which begins
jobs, reports results, and reads the output of stages in pieces that may end
within a character; and the event loop (`loop`), which takes one line of a service
for each round of `select`, from a wrapper that has read ahead.  Manager 0 has the
services of the sources, and `Stage.run` of stage k enters a manager of its own, so there
is an event loop while stages run, too; one is left before the next is entered.  A
service that raises, a time-out and a character that is torn in two are exceptions,
after which the manager is left (`Raise`).  Pipes hold `PipeSize`
lines, and services block on them.

### A build in a virtual machine

`host.pc` goes through `Qemu.__enter__`, the requests of `build_stages`, commits, and
`stop`; `guest.pc` through boot, the loop of `serve`, and stages; `toGuest` and `toHost` are
the lines on the serial port; `qemu` and `fsd` the processes; `told` the signals sent.
Trees are the stages that made them, so a stage that ran twice, in part or out of
order shows.  The VM may fail to boot, wedge, crash or halt; osbuild may be killed.

### Manifests and the command line

`FormatV1` and `FormatV2` are functions of descriptions, in which names, types and
options are members of small sets but orders, references, missing fields and
duplicates are as they come.  An id is the tuple of what is hashed.  `OsbuildCli`
validates one module at a time (with the index it has, which changes), loads,
depsolves against a cache that others change, builds, exports, reports and exits.
A service of a source or of a stage that raises, and a commit or a copy that fails, end it
with an exception (`Download`, `BuildRaises`, `Export`); `exit` says which (`Exceptions`).

### Downloads

For every process of `SourceDownload`: the two passes of `fetch_all` over the items
(`FirstPass`, `SecondPass`), a curl that reports lines and ends with some status
(`Line`, `CurlEnds`, `Retry`) or one curl for each item and try (`Thread`, `Join`), the
move of what was verified (`Move`), and `copy_all`, which truncates the target, writes
and may fail between.

## 3. Runs

| Run | Instance | Checks |
|---|---|---|
| `cache_files` | 2 processes, 3 inodes, crashes, fairness; 103,752 states | `ProtectedRegion`: the lock, the comparison and the retry protect the file; `Linearizable`: refines `AtomicRegister`; `NeverInPlace`; `FieldsKept`; `SomeCallReturns` |
| `cache` | 2 processes of this version and one of another, 3 entries, 2 names, sizes of data 1 and of metadata 1, limit 2, crashes, symmetry; 648,353 states | `ReadersUndisturbed`, `NameNotStolen`; `BooksKept`: the counter stays within the limit and departs from what is stored only by what the code forgets, step by step |
| `cache_calls` | 2 processes, 3 entries of sizes 1 and 2 with metadata of 1, limit 2, distinct names, no crashes, fairness; 338,608 states | `LoadsWhole`, `CallsEnd` |
| `cache_setup` | 2 processes, one may die; a new cache and 4 existing ones, 3 assignments; 371,422 states | `InsideIsRight`: whole files, and an instance works with what was on disk; `OthersUndisturbed`: live caches and those of later versions are left alone |
| `build` | 5 manifests; one process on every cache that earlier runs can leave, or two with evictions and vain look-ups; failures, fairness; 704,257 states | `ContentById`, `NothingMissing`, `NoRebuild`, `AllEnd` |
| `vm` | 2 stages, one a checkpoint, 2 served directories, 2 threads with logs; failures of the VM at any point, kills of osbuild, fairness; 25,746 states | `BuiltAsOnHost`: objects found, requests and answers paired, whole stages in order, logs before results, directories served as long as needed; `NothingRunsOn`; `BlockEnds` |
| `stage_run` | 5 services (input, device, device on it, mount, mount below it), interrupts at every place, failing umounts, kills, fairness; 323,285 states | `Foundation`, `StageHasAll`, `CleanEnd`, `StoreLeftLast` (`StoreOutlivesClients`, `TmpdirUnmounted`), `RunEnds` |
| `calls` | 2 calls of 7 kinds of methods, 2 signals, channels of 2 packets, small and large messages, kills, fairness; 21,085 states | `CallsAnswered`: own answer, all signals, right files, errors with a cause; `DescriptorsClosed`; `CallsEnd` |
| `loop` | 2 loopback services and a request, 2 minors, one act of others at a time, both kinds of kernel, kills, fairness; 800,888 states | `DeviceIsMine`: bound, locked and written while used; `LeftClean`: nothing bound and no lock file stays; `UsersEnd` |
| `output` | 2 sources, a pipeline of 2 stages, services of a source and of a stage that print, pipes of one line, 2 threads, exceptions, fairness; 457,947 states | `StreamRight`: whole records that belong to their job, progress that counts; `OutputRight`: lines in order, told with the stage of their service (`LinesOfStage`) and never outside of a manager (`QuietOutside`), stage output complete; `BuildEnds` |
| `cli` | about 4,000 command lines with manifests of both formats, 2 acts of others at the cache, services, stages, commits and copies that raise; 240,960 states | `ValidatedRight`, `LoadedRight`, `RoundTrip`, `OutcomeTold` |
| `sources` | 2 services, 2 stores, 2 items, 2 tries, both ways to run curl, copies, kills, fairness; 408,826 states | `CacheVerified`, `ToldRight`, `CallsEnd` |

Several properties are conjunctions of named parts, each with a comment of its own
in the module (`BuiltAsOnHost`, for instance, has six).

### Where code and text disagree

Nine more configurations end in a counterexample.  They are kept to be run by hand
(`tlc -config X.cfg M`, with the module in the second column), because each takes
away an assumption that a passing run makes:

| Configuration | Module and definition | What the code does | What the repository says |
|---|---|---|---|
| `MCFsCacheTorn` | `MCFsCache`, `LoadsWhole` | `load` hits an entry whose eviction a crash interrupted; it never looks at the info file | "no cache lookups will ever consider the entry again if the info-file is missing" (fscache.py:808) |
| `MCFsCacheLeak` | `MCFsCache`, `NoAnonymousLeft` | the loser of a commit race keeps its anonymous directory: `uuidname` is cleared on that path too | "it will be cleaned up by the outer handler" (fscache.py:997) |
| `MCFsCacheMetadata` | `MCFsCache`, `NeverOvercommitted` | eviction takes the space of metadata and directory off the counter, `store` adds that of the data | "it is never overcommitted" (fscache.py:959) |
| `MCFsCacheVanish` | `MCFsCache`, `EvictionToleratesVanished` | an entry that vanishes after the listing makes `store` raise | "This is racy so we need to take care of that" (fscache.py:1108) |
| `MCManifestDevices` | `MCManifestBuild`, `ContentById` | stages that differ in their devices have the same id | "two pipelines that produce the same `tree` ... will have the same `id`" and "identifies the pipeline via the tree" (pipeline.py:380) |
| `MCStageRunError` | `MCStageRun`, `ErrorRecorded` | an endpoint is closed with messages and clients pending, so an exception that a stage sent is lost | "Add a small buffer for the background thread ... randomly manifests on ppc64"; "Error not set" (test/mod/test_api.py:103-110) |
| `LoopInhibited` | `LoopDevices`, `InhibitedWhileUsed` | of two services that were offered one device, the one that gives up removes the other's lock file | "For each device a lock file is created" (util/udev.py:17) |
| `MCOutputLost` | `MCBuildOutput`, `LinesForwarded` | lines that were read ahead, or are still in the pipe, are dropped when the event loop is stopped | "stdout and stderr of the service will be forwarded to the monitor" (host.py:405) |
| `MCOsbuildReport` | `MCOsbuildCli`, `SuccessIsSuccess` | in format 1 the report of a pipeline takes over the success of its build pipeline (formats/v1.py:227), so a failed build is reported as a success, with exit status 1 | "check the overall result is False as well" (test/mod/test_fmt_v1.py:290) |

The passing runs are split by what the code can promise.  `cache` has crashes and
what holds in spite of them, for names that are stored twice too; `cache_calls` has none,
because `MCFsCacheTorn` shows that `LoadsWhole` fails with them, and distinct names, which
keeps it small.  That the cache is never overcommitted and nothing is forgotten holds in
neither (`MCFsCacheMetadata`, `MCFsCacheLeak`).  What does hold is `BooksKept`: the *number*
is within the limit, and the only steps that move it away from the stored data are
named, with the amount.

Other observations that the models contain as behaviour of the code, and that the
properties except by name or in their antecedents:

* The failure of a curl that ended without any result is recorded under a key of its
  own and stays when a retry gets everything (`sources/org.osbuild.curl:309`).
* `copy_all` writes to the final name, in place (sources.py:197): a copy that is cut
  short leaves a file that `exists` takes for an item (`CacheVerified`).
* `fetch_all` maps `amend_secrets` lazily, after the `try` that was to catch what is
  missing (`sources/org.osbuild.curl:284`, `SecondPass`).
* `pipeline.cleanup` (pipeline.py:43-45) is a lazy `map` too, and cleans nothing up; the
  object store does when it is left (`VmBuild.CleanTree`).
* A rootless osbuild that runs itself again appends `--rundir` unless there is an
  argument that is exactly that, so `--rundir=DIR` is overridden (main_cli.py:143).
* `validate` of format 2 reads the type of a stage after the schema found it missing,
  and ends with a `KeyError` (formats/v2.py:554).
* `describe` leaves out parents of devices, epochs, and in format 1 the runner of a
  pipeline without a build pipeline (`RoundTrip`, `Describable`).
* A reply that returns a received descriptor without stealing it passes
  `_check_fds`, and the descriptor is closed before the reply is sent.  `send` then raises
  out of `serve`, though the comment at host.py:271-273 promises an error reply; or the
  reply is large, its memfd (jsoncomm.py:419-424) takes the closed number, and the client
  is given the text of the reply as its file.  `CallsAnswered` excepts the files of such a
  method by name; `InvalidFdsAnswered` in `ServiceCalls`, without a run, is the comment.
* An interrupt in `ServiceManager.__exit__` (host.py:544-552) leaves services connected, in
  whatever call they are, and an event-loop thread that nobody stops, which the
  interpreter waits for at its end; the comment at host.py:242-245 speaks of shutting
  down "all host services in a controlled fashion and in the correct order".  One in
  `BaseAPI.__exit__` (api.py:122), and a failure in `StoreServer._cleanup`
  (objectstore.py:512-516), leave trees mounted below a directory that is then deleted.
  `CleanEnd`, `StoreLeftLast` and `RunEnds` except these.
* A record of the event loop's thread can name a context that was never described,
  when the main thread changes it between the steps of `as_dict` (`ContextsDescribed`
  in `BuildOutput`, without a run).
* A qemu that does not react to SIGTERM when its start timed out, and virtiofsd
  processes of an osbuild that was killed before there was a qemu, run on
  (`NothingRunsOn`); a guest that halts without an answer is waited for without end
  (`BlockEnds`).

### Bounds and why they are enough

* `Inode`: three inodes for two processes is one more than the path and a
  temporary file, so a number comes back while an old descriptor waits for its
  lock.
* `Entry`, `Name`, `EntrySize`, `MaxSize`: with three entries under two names and a
  limit of two units, stores evict, collide on a name, find nothing to evict, and
  are refused.  Each entry is created once, so `Entry` bounds the calls of `store`.
* `MaxClock` bounds the clock that access times come from: two instants are enough
  to have an older and a newer entry and a tie.
* `OldCaches`, `Updates`, `MaxDeaths` of `CacheSetup`: a cache with an id, of a later
  version, with fields of wrong types, and one that is no object; an update of each
  field the code writes, one of them the upgrade of the version.  One death is
  enough to leave every prefix of a scaffolding to the other process.
* `Manifests`: a build pipeline with two users, nested build pipelines, two
  pipelines with a common prefix, a diamond of inputs, and a pipeline without
  stages; `Exports` are lists in different orders.
* `Stages`, `Shares`, `MaxLogs` of `VmBuild`: the second stage meets whatever the first one
  left on the port; two lines let each thread log before and after the other.
* `N`, `Uses`, `Asks`: a chain of three resources with a second user at its end,
  and an input with a question for the store.  The theorems hold for all `N`.
* `MaxCalls`, `MaxSignals`, `Cap` of `ServiceCalls`: what the first call leaves behind
  meets the second; two signals fill the channel before the reply.
* `Minors`, users and `MaxMeddling` of `LoopDevices`: three users of two devices, so that
  two are offered one device and the third finds none; one act of others at any
  point of any of them.
* `Lines`, `Stages`, `PipeSize` of `BuildOutput`: a service that prints more than its pipe
  holds, and a stage whose output has a character of two bytes.
* `Inputs` of `OsbuildCli`: every way to order and connect three devices, every kind of
  reference, modules that are fine, missing or do not accept their options at every
  place, nested build pipelines, and every combination of options for some of them.
  `MaxOthers`: one act makes what depsolve saw stale, a second one undoes it.
* `Items`, `NR_RETRYS` of `SourceDownload`: a try that gets one of two items, and a last
  one.  The constant of the source is 10.

### Fairness

Weak fairness of the steps a process or thread takes by itself: straight-line code
and a fair scheduler.  No fairness of crashes, interrupts, the callers' next call or
an exception.  `LockedReplace` assumes that the kernel gives a free lock to a
process that waits for it; `SomeCallReturns` says only that *some* update returns
when crashes have stopped, since the retry loop may lose every race.
`StageRun` assumes that a program ends and that mounting a tree ends; what `RunEnds`
shows is that nobody waits for somebody who waits for him.  `LoopDevices` assumes that
udev ends a probe and the kernel frees pages; `BuildOutput` that programs print and
end; `VmBuild` that qemu and virtiofsd end when told (unless wedged), not that they
start; `ServiceCalls` that a method returns; `SourceDownload` that curl ends by itself,
which its connect-timeout and speed-limit options see to.  `CacheSetup` and `OsbuildCli`
are checked for safety only: their code has no loop that waits for another.

## 4. Proofs

TLAPS checks all theorems without open obligations.  The assumptions are the named
`ASSUME`s of the modules: constants have the right kind, an update takes values to
values, a resource rests only on earlier ones (`sort_devices`, and devices are
opened before mounts), and a stage in a VM needs what this run finished or the cache
has (which `depsolve` and the order of pipelines see to, by `NeedsMet`).  What a theorem
assumes beyond these is a hypothesis of its statement and named below.

* `LockedReplaceProofs`: `TypeCorrect`, `Exclusion`, `Implements`, `Immutable`, for any
  number of processes and inodes, any values and any update.  `ProtectedRegion` is
  not inductive: that the file a process has locked stays the one the path names
  needs that only a process in the region renames (`Locks`), that the temporary
  file is nobody else's (`TmpPrivate`), and that what is about to be written was
  computed from the current value (`ValFresh`).  `Implements` maps every step to a
  step of `AtomicRegister` or a stutter.  `OtherFieldsKept` (`FieldsKept`) follows from
  `ValFresh` where the update is that of the setter of `cache.info` (`InfoUpdates`).
* `StageRunProofs`, on `StageServices` first: `StageTypes`, `StageFoundation`,
  `StageComplete`, `StageCleanEnd`, for any number of services and any acyclic `Uses`.
  The invariant says that services are a stack (`Below`, `Top`, `Above`): those below the
  top hold their resources, those above are gone, and only the top one is in a call or
  being stopped, or, after an interrupt in `__exit__`, the one that was waited for.  It
  holds until something is killed, which is also what the properties say.  Then on `StageRun`: `RunImplements` (every step of `StageRun` is one of
  `StageServices` or leaves its variables alone), so the four theorems hold of whole runs
  (`RunServices`); `RunTypes`; `RunStoreOutlivesClients` and `RunTmpdirUnmounted`, and both
  as `RunStoreLeftLast`, by an invariant (`Alive`, `Mounts`) which says that while osbuild lives a service that
  is in a call is registered, or is the one at which `__exit__` was interrupted, and that
  mounts of the store outlive its endpoint only if that was cut short or could not
  unmount.  The properties except exactly these cases: `CleanEnd` says what is over and
  what is still connected after an interrupted `__exit__`, `StoreLeftLast` which service may
  be in a call then and when trees may still be mounted.
* `FsCacheProofs`, for any processes, names, entries, sizes and limits.  `Typing`;
  `ReadersSafe` and `NamesKept` with crashes, `LoadsComplete` without (`ASSUME ~MayCrash`;
  `MCFsCacheTorn` shows why).  None of the properties is inductive.  The invariant
  (`LInv`) adds what the positions of all processes mean: which of them works with
  which entry (`Holding`), that its locks are those of the entry and that a write lock
  keeps readers out (`Locking`), and where an entry is at each point of a commit or a
  removal, with the removed files gone in the order of `_rm_r_object` (`Placing`).
  `NamesKept` is an action property that follows from it; `LoadsComplete` needs `Contents`,
  that data is whole from `fill` until an eviction starts on it.
* There too, `BooksBalance` (`BooksKept`), for any finite sets of processes and
  entries, any names, sizes, overhead and limit, with crashes and failures.  `Balance`
  is `cache.size` less the sizes of the stored entries and what processes have in flight;
  the theorem says that a step of `store` or of an eviction leaves it alone, except that
  an eviction takes off the metadata as well, or a directory that a `store` forgot, and
  that a crash, an `rmdir` that fails and a subtraction that is capped at 0 leave the
  counter too large.  The invariant `BInv` adds to `LInv` what an eviction has read before
  it removes (`Knowing`) and the limit (`Limited`).  The sums are compared by lemmas about
  `Total` (a sum changes by what one summand does; `OneMoves`, `NothingMoves`), which are
  proved by induction over numbers.
* `ManifestBuildProofs`, for any manifests, exports and processes.  The histories of
  stages are recursive functions of functions; that they exist, and unfold, comes
  first (`StagesAre`, `HistoryIs`), then that equal ids have equal trees
  (`IdsDetermineTrees`) and equal depth (`IdsHaveDepth`), by induction over pipelines and
  their stages.  `TreesRight` (`ContentById`) is by the invariant `BInv`: the cache and all
  finished objects are pairs of `Truth`, and the tree and build tree in work are those
  of the manifest at that stage.  It assumes `DevicesFixed`: stages with the same name
  and options have the same devices, which `Stage.id` does not hash;
  `MCManifestDevices` shows that it is needed.  `NothingTwice` (`NoRebuild`) does not assume
  that; its invariant `UInv` says that of the stages still to run none is in the cache,
  and needs that a commit adds the id of no later stage.  `NeedsMet` (`NothingMissing`)
  is by `NInv`, which adds to `UInv`, for a process that is alone: whatever a pipeline to be
  built needs is stored, or comes later in the ordered set of `depsolve`, or is still to be
  looked at (`Prepared`); adding a pipeline once more moves it to the end, after
  everything that asks for it.  It assumes `TreesOnly`, that inputs and exports have stages: a
  pipeline without any has no tree.  The five manifests of the run are such.
* `SourceDownloadProofs`: `FilesVerified` (`CacheVerified`) and `OutcomesTold` (`ToldRight`),
  for any processes, stores, items, calls and tries.  The invariant (`DInv`) relates,
  for each process, the items that are cached, open, to be downloaded and reported at
  each point of `fetch_all` and `copy_all`.
* `CacheSetupProofs`: `InsideRight` (`InsideIsRight`) and `OthersKeptWhole`
  (`OthersUndisturbed`), for any processes, any earlier contents of the directory and any
  number of deaths.  The invariant (`SInv`) relates the place of each process to the
  directories and files that are there by then (`Entering`), and what it has seen of
  `cache.info` to what is there now and to what it works with (`Knowing`).  The second
  conjunct of `Knowing` needs `NoDowngrade`: no one assigns the version of this
  implementation.  `ObjectStore.maximum_size`, the only place under `src/osbuild` that
  assigns `info`, leaves the version unset (objectstore.py:362).  Without it an instance
  that came upon a later version could assign version 1, take itself for compatible and
  write over what it does not know; TLC finds that run.
* `LoopDevicesProofs`: `Mine` (`DeviceIsMine`) and `Clean` (`LeftClean`), for any users,
  kinds of kernel and minors.  A user's place says whether it has the device open,
  locked and bound (`UserOK`); but whether the device is still bound when its user comes
  back is up to what others did meanwhile, so `DeviceOK` says why a bound device is bound:
  somebody has it open and autoclear is set, or its user has yet to set it on an old
  kernel, or was killed before.  The kernel is reasoned about once, by lemmas
  on `Opened`, `Released`, `Cleared` and `Bound` which say that the device of everybody else is
  left as it was (`Spares`).  `Apart` and `Inhibition` add that `LoopServer` serves one
  request after the other, and that a lock file is that of a service that has the device
  open, or was killed.
* `VmBuildProofs`: `AsOnHost` (`BuiltAsOnHost`), for any list of stages, any objects and
  any number of log lines.  The invariant (`VmInv`) says that while the host reads, its
  request waits (`Asked`), is being handled (`Handling`), is answered, with all log lines
  before the answer (`Answered`), or is lost with the guest (`Lost`), which is one of them
  whatever the VM does; in each, which stages the tree has, and that
  for both threads the lines written are those shown and those pending (`Counted`).
  `Informed` carries the set of objects from the update to the last stage, and `Served`
  says that a directory is taken away only after its VM has been told to end.

Recursive definitions are proved about by well-founded induction on numbers with a
set in place of a predicate (`CompleteInduction`): the library's theorems that take an
operator cannot be instantiated by the provers here.

Only model-checked: all liveness (TLAPS has no `ENABLED` and no fairness here), which
includes `UsersEnd`, `NothingRunsOn` and `BlockEnds` of the modules above; and the
properties of `BuildOutput`, `ServiceCalls` and `OsbuildCli`.  These three are mostly
computations on the data of records, packets and manifests: what a stream selects
(`SelectSeq`), the lowest free descriptors (`SetToSortSeq`), the buffer that doubles, and
the loading of descriptions are recursive, so that a proof would be by induction on
data, and a small instance shows more than an invariant would.

## 5. What the models leave out

* Inside modelled components: the age of staging entries, which nothing ever
  discards although the docstring of `stage` (fscache.py:847-849) expects it; space
  lost when a process dies between removing an entry and de-accounting it;
  `os.rmdir` failing with ENOTEMPTY; metadata of objects, clamping of times and
  `HostTree`; the loop endpoint of a stage, which is a third `ApiServer` that no other
  step depends on; the messages between `LoopClient` and `LoopServer`; the command
  lines of bwrap, qemu and virtiofsd; the texts of the log and terminal monitors.
* An interrupt between `popitem` and `stop` of `ServiceManager.__exit__`, or within
  `contextlib.ExitStack` itself, between two contexts; what it loses is one service or
  context more than the interrupts that are modelled.
* ioctls fail only as the code expects (ENXIO, EBUSY, EAGAIN), an `on_signal` callback
  does not raise, and creating the socket of an endpoint does not fail (if it did,
  the barrier in `BaseAPI.__enter__`, api.py:111, would have no second party).
* Time.  A time-out may come at any moment.  `read_with_timeout` (buildroot.py:383)
  subtracts seconds from milliseconds, which no model here can see.
* An entry evicted between `depsolve` and the build that needs it ends in the
  assertion of pipeline.py:423-424.  `ManifestBuild` reaches this state when entries
  may be evicted; `NothingMissing` is checked and proved without.
* The comment at pipeline.py:440-444 says that after a race to commit all trees are
  based on the winner.  The code goes on with its own tree.  A tree is its history
  here, so that both are equal; a stage whose result differs from run to run is
  not modelled.
* JSON schema: whether options fit is a fact of the instance.
* Not modelled at all, with the reasons in `PROJECT.json`: the other source programs,
  solvers, the programs of stages, assemblers and runners, utilities, tools.

## 6. What is left

All safety properties of nine of the twelve runs are theorems.  What could still be proved,
each with lemmas on sequences that the library does not have:

1. `BuildOutput`: `QuietOutside` and `StageOutput` need no more than where the threads
   are; `MainContexts` needs that an id is only ever described by its own fields.
2. `ServiceCalls`: `NothingLeaks` and `AnswersMatch`, for any number of calls and signals,
   from what `Free` and `Room` return.
3. `OsbuildCli`: `OutcomeTold`; the other three are about the operators of the formats.
