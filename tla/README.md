# nemclass in TLA+

nemclass is a memory-inspection tool: a desktop app (Rust, egui) that attaches to a
process, overlays class layouts on its memory, scans it, disassembles it and runs user
scripts; and a Linux kernel module through which it can read memory and set breakpoints.
This directory holds the TLA+ specifications of it, the TLC configurations that check them
and the TLAPS proofs.

## Inventory of the system

| Component | State | Operations | What is hard |
|---|---|---|---|
| Kernel breakpoints (`debugger.c`) | per-fd slot list, event ring, wait queue | BP_SET, BP_CLEAR, WAIT_EVENT, HW and uprobe handlers, teardown on close | handlers on other CPUs, concurrent ioctls on one fd, deferred frees, partial failure |
| Kernel allowlist (`access.c`) | published RCU snapshot, file fingerprint, delayed work | load, poll, reload, check, exit | edits racing reloads, RCU lifetime, unload |
| Kernel gate (`main.c`) | per-fd `authed` and failure counter, module life | open, AUTH, gated ioctls, release, init, exit | descriptors passed on, unlocked counter, unload |
| Kernel memory access (`memory_access.c`) | none | READ, WRITE, ENUM_REGIONS, ptrace query | address arithmetic, a map that changes between two passes |
| Kernel client, user-space debugger (`process/kernel/`) | fd, list of armed breakpoints | retries, event decoding, set and clear | a retry loop that must end, bookkeeping on errors |
| Providers, backends, symbols (`process/`) | registry of providers | open, enumerate, read, write | OS interfaces |
| Model (`nemclass-model`) | project, classes, nodes, cheat table | node edits, references between classes, formulas, serialization | reference integrity, parsing |
| Scans (`nemclass-scan`) | scan session: generations, flags | first scan, next scan, undo, pointer scan, spider, pattern scan, freeze | a target that changes, chunk seams, limits, cancellation |
| Script engine (`engine_rusty.rs`) | v8 worker, command and request channels, generation, handlers | load, dispatch, resolve, host call, pump, drop | two threads that wait for each other |
| Event bus, plugins, API catalog | subscriber list | emit, first-answer resolve | order |
| App session (`views/mod.rs`, `tasks.rs`) | process, selected class, resolved base, one job slot per operation | attach, detach, select, resolve, frames | results that land after the world changed |
| Panels | results, job, open session | scan, refine, dissect, debug | the same |
| Settings, project files, views | files, dirty flags | debounce, save, draw | crash between writes |

The parts meet at these places.  The app runs slow work on a thread pool and drains
the results once per frame.  Scripts run on the v8 worker; they reach the app through a
request channel the app pumps once per frame.  The user-space debugger and the kernel
provider talk to the kernel module through ioctls on one fd.  The panels share the attached
process and little else: rows of the scanner, the spider and the pointer scan become entries of
the address list, addresses become jumps of the disassembler and the memory viewer.

What makes each part correct is stated by the properties below; `PROJECT.json` lists the
components, the hazards at the line where they bite, and the lines every definition models.

## Modules

The kernel module:

- `KmodBreakpoints`: one session of `debugger.c`.  A program counter per client thread
  (`pc`) walks the ioctls in the steps another thread or a handler can tell apart: the
  sections under `sess->lock` are one step each, the kernel calls that wait
  (`unregister_hw_breakpoint`, `uprobe_unregister_sync`) are two.  A slot is an object with
  an identity that is allocated once and then freed for good, so a use after free is
  visible.  `hooked` says that the kernel calls the handler for the slot; `inodeRef`,
  `mmRef` and `taskRef` count references taken and not put.  The list is a set: nobody
  depends on its order.  The `src` of an event and the references are ghosts.
- `BreakpointSession`: what such a session promises its client, without locks, references and
  grace periods: ids are handed out once, a breakpoint fires only between its BP_SET and the
  end of its BP_CLEAR, hits queue in order, closing leaves nothing armed.  `KmodBreakpoints`
  maps its slots, handlers and ring to it (`Session == INSTANCE BreakpointSession WITH ...`).
- `AccessPolicy`: `access.c`.  The config on disk is a set of users with a fingerprint
  (`stamp`) and an inode; an edit in place is seen through a file that is already open, a
  renamed file is not.  A snapshot is an object again; its free waits for the RCU readers
  inside when it was retired.  What a line of the file means is abstracted to the set of
  users: malformed and surplus lines add nobody.
- `KmodGate` extends `AccessPolicy` with `main.c`: open, AUTH, the gate, release, load and
  unload.  `auth_failures++` is a load and a store.  `seen` and `guesses` are ghosts: the users
  some policy allowed during the call, and the wrong guesses made on a descriptor (capped at the
  limit).

The application's threads and its session:

- `ScriptBridge`: `engine_rusty.rs` and the frame that pumps it.  Both channels are
  sequences.  The script's own behaviour is arbitrary: it may register handlers, log, call
  the host or return at any point.
- `AppSession`: `views/mod.rs`, `tasks.rs` and the panels with jobs.  Every row, job, open
  session and resolved base carries the process it came from; `Frame` is one pass of
  `logic` over all jobs.  The panels only meet through `proc`, so an instance looks at a few
  of them at a time (`PartSets`).  `switched` is a ghost: the user attached over a live session.
- `ScanSession`: one `Scanner` (`scanner.rs`, `target.rs`, `compare.rs`) over a memory that the
  target writes, maps and unmaps between any two reads.  A first scan is one step per window
  read, a next scan one per result; a stop is possible where the code ticks its observer.  The
  read of one window is a single step: a write during it can only tear values that changed
  during the pass, of which no property speaks.  `Apply` and `MergedInclude` are the region
  filter, `CompareInt` the comparison of integers; other value types are left out.  A read
  returns the mapped prefix, and may fail or return nothing where nothing is mapped
  (`FirstReadFails`, `FirstRegionEnds`).  The allowlist is a set, since it is sorted and merged
  anyway.  `seen` is a ghost: what every address held since the pass began; `base`, `op` and
  `unreadable` of a generation are ghosts, too.

The tools of the desktop:

- `DebuggerClient` extends `BreakpointSession` with `kernel/client.rs`, `kernel/debugger.rs` and
  `debugger_panel.rs`: open, the handshake, set and clear, the polls of every frame, decoding and
  the log.  An ioctl is its kernel steps followed by the return to the client, so hits and
  revocations come in between.  `kspec` and `clearFailed` are ghosts: what the kernel was asked to
  arm, and that some BP_CLEAR was refused.
- `ClassModel`: classes, nodes, projects, the three computations of sizes and offsets, the
  structural edits and the project file.  `Codegen`: the C++, C# and Rust generators, reduced to
  what a compiler makes of their output: whether it accepts it, and the layout it gives it (packed
  C++ with the compiler's `wchar_t`, `repr(C)`, explicit offsets rounded up by the CLR).  `Workspace`: the class list, the class view, its
  pickers and dialogs, project files, auto-dissect and the class methods of scripts.  A frame is
  menu, class list, class view and modals in this order; what a modal confirms waits for the next
  class view that has rows to draw.
- `CheatTable`: the address list, freezing from the table, the scanner, the spider and scripts,
  the tick (`TickFreeze`) and the table file.  A cell is two bits, so that narrow, wide, signed and
  unsigned types differ; `Format` and `ToBytes` do what the code's conversions do at that width.
  Writing a row of raw bytes writes nothing and succeeds, as in the code.
- `CodeBrowser`: modules tab, disassembler, navigator and memory viewer, with core's linear and
  function decoding and the dissect.  Code is a table of instruction lengths, with branches and
  loads of data; only the user's NOPs change it (`nops`), and what they cover makes no reference.
  `torn` names the rows that a patch which failed midway left out of date.  The worker of a dissect
  takes a step per module for its regions (`NextModule`), one for the index of executable regions
  (`IndexRegions`) and one per chunk (`ReadChunk`), and the frame that polls it another
  (`DissectDone`); modules come and go, bytes are patched and the selection changes between them.
  A region that is gone is left without an error, as in the code, and the partial result lands.
  `seen` is a history variable: the modules that were there at some time and all the time of the
  job, and the bytes patched meanwhile.  A chunk is read as a whole, with the strings it refers to;
  a module that is unmapped in the middle of one read is not modelled, nor is a short read of a
  listing (`disasm.rs:117`).  `hex.current` leaves out the one frame in which the memory viewer
  draws old bytes after a jump (`memory_viewer.rs:318-325`: the snapshot precedes the top bar).
- `AddressFormula`: parser and evaluator of address formulas, over tokens.
- `PathScans` extends it: the spider search and refine, the pointer map, the solving and the
  rescan, each in as many steps as it has reads, and the panels that run them.  A cell is 4
  bytes and a pointer two of them, so slots at odd cells and pointers cut by a hole occur.
- `ScannerPanel`: which session, rows and live values the scanner panel holds while a scan runs,
  and what its controls offer meanwhile.

`MC*` hold what TLC needs (symmetry, small instances).  `MCDesktop` joins the six tools.  They
share no state (what they have in common, attach and detach, is in `AppSession`), so a product
would add no behaviour: the initial state picks the tool that is used.  The
theorems are in `KmodBreakpointsProofs` (with the refinement), `KmodGateProofs` (with
`AccessPolicy`), `ScriptBridgeProofs`, `AppSessionProofs`, `DebuggerClientProofs`, `ScannerProofs`
(`ScannerPanel` and `ScanSession`), `CodeBrowserProofs` and `ProjectProofs` (`CheatTable` and
`Workspace`).

Definitions named as mutations (their comment says "Mutation:") are plausible bugs of the
definition that follows them.  No specification uses them; putting one in place of the
definition after it makes TLC find a violation of the property `PROJECT.json` names, which
shows that the property depends on that piece of code.

## Runs

| Run | Instance | Shows |
|---|---|---|
| `kmod_breakpoints` | 2 threads, 2 CPUs, 2 slots, ring of 1 | handlers see live memory, one owner per slot, references balance, no lost wake-up, BP_CLEAR and close end, a timed wait returns, and the whole implements `BreakpointSession` |
| `kmod_bp_set_race` | 2 threads, 1 slot | **violation**: BP_SET reads its slot after another thread may have freed it |
| `kmod_gate` | 2 tasks, 1 user, 1 fd, 2 edits of the file, 2 snapshots, limit 2; symmetry | readers never see a freed allowlist, no edit is lost, revoked callers are refused, the unlocked counter locks nobody out early, unload leaves nothing |
| `kmod_gate_live` | 1 task, 2 edits of the file | an edit comes into force |
| `script_bridge` | 3 queued commands, 2 logs, 3 loads | events meet their scripts, host calls and background resolves are answered |
| `script_drop` | 2 commands, 1 load | **violation**: dropping the engine can wait for ever |
| `app_session` | 2 processes, 1 class, every panel | nothing stale after a detach, reset panels follow the process, scripts know the target, a base belongs to the selected class, jobs drain |
| `app_refine` | the same with 2 classes | **violation**: a stopped spider refine loses its rows |
| `app_resolve` | the same with 2 classes | **violation**: a base of the old process is applied after a detach |
| `scan_session` | 6 bytes of two values, signed values of 2 bytes, windows of 3, limit 4, 3 scans, 1 change; 2 layouts, 4 filters, 2 alignments | a completed first scan found exactly the values asked for, once; a next scan kept exactly the rows that compare, with the right previous value; undo restores what was there; a dead target empties nothing; every pass ends |
| `desktop` | the six tools, see below | see below |
| `scanner_type` | the scanner panel alone | **violation**: the value type can be changed while a scan runs |

What `desktop` shows, by tool:

- debugger: the breakpoints the client lists are those the session has armed, but for a BP_CLEAR
  that was refused (`ListTracksSession`); an event in the log names the kind of the breakpoint that
  fired, or none, never that of another one (`HitsDecodeRight`);
- workspace: the class view, the script API and the snapshot agree on every offset and size, and so
  does each C++ or Rust source that compiles; C++ is refused only for an empty class, a cycle, the
  order of its classes or a wide text, and C# agrees where the CLR does not pad (`LayoutsAgree`);
  what is opened is what was saved (`RoundTrip`); no step makes a reference to a
  class that is gone, but for an edit that was queued before its class was deleted
  (`ReferencesResolve`), and an accepted preview changes no class but its own (`AcceptHitsItsClass`);
- address list: freezing at the value on screen does not disturb the target, although the value went
  through text and back (`FreezeIsStable`; floats are the exception), and the only freeze of a mapped
  cell is pinned again and again, also when other entries fail (`FrozenStaysPinned`);
- code: a listing is the code of its regions, without a repetition or an unexplained gap at the
  chunk borders; what is left out between two rows are bytes that do not decode and regions that
  start with such bytes (`ListingExact`; a region is left at its first byte that does not decode,
  and what follows in it is not listed, `disassembly.rs:576-583`); a dissect that lands holds only
  references that unpatched code of its modules makes, to code or strings that were there meanwhile,
  and all of those in modules that stayed whose target stayed too; of a module unloaded midway it
  holds what was read before (`DissectExact`); the navigator and the memory viewer show what they are labelled with
  (`CachesMatch`);
- paths: a search that was not truncated reports exactly the paths of the memory, if the target
  held still, and their formulas lead where the rows say (`SpiderExact`, `PathsExact`);
- scanner panel: the table shows the newest generation of the session the panel holds
  (`TableOfSession`).

Bounds.  Two threads are what a race needs, and a third process of any kind only repeats
one of the two roles; the proofs remove the bounds for the safety of the kernel module, the
script bridge, the app session, the debugger client, the scanner and its panel, the code browser,
the address list and, but for the layouts, the workspace.  Two slots let one be
torn down while the other is armed.  A ring of 1 (256 in the code) is empty, full and dropping
within two hits.  Two edits of the config let an edit race a reload; one snapshot per version
suffices, since each version is published at most once (`MaxEdits`, `Snaps`).  A guess limit of 2
(16 in the code) lets two racing guesses lose a count, and a stale store undo a reset, before
it is reached.  Three queued commands hold an event, a reload and
a resolve together (`MaxCommands`; `MaxLogs` and `MaxLoads` only keep the instance finite).  Two
processes are enough to tell "old" from "current".  Windows of 3 bytes (64 KiB in the code) over
6 make several seams that values straddle, at both alignments; the layouts have a region that
starts misaligned and two that abut, the filters a window and spans that overlap, abut or are
empty.  A history of 2 (3 in the code) is full after two of the three scans (`MaxPasses`), so the
third evicts and can be undone; one change of the target (`MaxChanges`) at any moment separates
a value that was read from one that is there.

For the desktop: two breakpoint ids (`MaxIds`) let a cleared one meet a new one; a log of 1
(`MaxEvents`, 200 in the code) is trimmed at the second hit, and `LogBound` cuts the log that failing
polls do not trim.  `MaxOps`, `MaxTableOps`, `MaxBrowseOps`, `MaxPathOps`, `MaxPanelOps` and
`MaxScans` count what users, scripts and the target do in one behaviour; three or four are enough
for the sequences the hazards are about (queue an edit, change what it refers to, let it land).
Three classes close a cycle of embeddings.  Code of 11 bytes in three regions with chunks and
overlaps of 2 puts an instruction on a chunk border, one across it and bytes that do not decode at
a region's start and end; branches and loads go to a module that stays, to one that comes and goes
and to none, and two of the four browse operations (one ticks a module, one starts the dissect)
can fall between the steps of a dissect.
`WcharBytes` is 4, the width with GCC on Linux; new nodes are a byte and a wide text, so classes
with and without padding, pointers, embedded classes and both orders of two classes occur.  The memories of `PathScans` have a cycle, a diamond, a pointer into code,
two static roots and a heap that may be unmapped; the searches start at a struct, at an odd cell,
at a struct with a hole and where nothing is mapped; three hits, three nodes, two paths and seven
map entries make every cap bite.

Deadlock checking is off everywhere: each of these systems may really stop (the fd is closed,
the module is gone, the engine is dropped, the user does nothing).

Fairness.  `KmodBreakpoints`: a system call in progress and a handler in progress are run
by the kernel (WF); the timer of a timed wait keeps its deadline over wake-ups (SF); hits,
new calls and signals need not come.  `KmodGate`: the work queue runs the work item and
finishes it (WF), and a reload does not fail for ever (SF on publishing).  `ScriptBridge`:
frames go on while they are asked for (WF on the pump, whose guard is the repaint request of
`logic`), the worker loop goes on (WF), a script that can go on returns in the end (SF).
`AppSession`: frames go on (a finishing worker requests a repaint) and workers end; nothing is
assumed of the user or of the resolver.  `ScanSession`: the worker that runs a pass goes on (WF).
`MCDesktop`: the freeze tick runs in every frame (WF on `FreezeTicks`); the app asks for frames
for as long as a process is attached (`views/mod.rs:1819`).

## Findings

1. `kmod_bp_set_race`: `debugger.c:326` reads `slot->id` after the slot is on the list and the
   lock is released; a BP_CLEAR on another thread that names the (predictable) id frees it first.
2. `script_drop`: `RustyScriptEngine::drop` joins a worker that may be waiting for a host reply
   only the dropping thread could give.
3. `app_refine`: `SpiderPanel::run_refine` moves the rows into the job and gets them back only on
   success, against its own comment.
4. `app_resolve`: `ingest_resolve` compares the class but not the process.
5. `scanner_type`: while a scan runs the scanner is in the worker, and the type selector, which a
   session is meant to lock, looks only at whether the panel has one.

Met while modelling and reproduced by the modules, without a run of their own: the spider's
`read_window` takes a short read for the whole window, so its page by page retry only runs when
the first page fails (`PathScans`, `Cover`); the indices of the modules tab are looked up in the
disassembler's list, which is from the attach (`CodeBrowser`, `ChangeTicks`); Rust output is
`repr(C)` and not packed, so it has the intended layout only where its own size assertion holds
(`Codegen`); C# structs have explicit offsets but no `Pack` (`csharp.rs:92`), so the CLR rounds their
size up to the largest alignment, and nothing in the source asserts the size; a string field there
is an object reference; C++ counts two bytes for a `wchar_t` ("each wchar_t is 2 bytes",
`cpp.rs:133`), which with GCC on Linux makes the source's own `static_assert` refuse it, and it
defines the classes in the order of the project without declaring them first (`cpp.rs:86`), so a
class used before its definition does not compile either; results of a dissect are "tied to the
selection; drop them when it changes" (`disassembly.rs:455`), but a job in flight is not dropped, so
the dissect of the former selection lands under the new one (`CodeBrowser`, `DissectDone`: TLC
refutes `dissect.done => dissect.of = Selected`); New Scan during a Next Scan that fails brings the old session back without its rows
(`ScannerPanel`, ghost `disowned`).

## Refinement

`ImplementsSession` states that `KmodBreakpoints` implements `BreakpointSession`;
`kmod_breakpoints` checks it and `KmodBreakpointsProofs` proves it.  The mapping: `issued` is `next_slot`; a slot is `fresh` once it has
its id and is not registered yet, `armed` while the kernel may call its handler or one runs, and the
queue is the ring reduced to ids.  A BP_CLEAR disarms in the abstract session when its last
handler is done, which is why the kernel's wait for handlers is part of the promise.  The client is
modelled on the abstract session (`DebuggerClient` EXTENDS it), so what `desktop` says of the
debugger rests on what the kernel module is shown to implement.

## Proofs

Every theorem holds for all values of the constants that satisfy the named assumptions of the
modules: that the "none" values are not members of their sets, that depths, widths and limits are
natural numbers (positive where zero would make no sense), that the bounds that keep TLC's
instances finite are natural numbers, and that the environment is what the code can meet: the
memories of `ScanSession` map the addresses to bytes, its targets list their regions in ascending
order without an overlap, and a region filter has addresses for bounds and finitely many spans;
the regions of `CodeBrowser` are not empty and do not overlap, its code tables cover them, no
instruction is longer than the overlap of two chunks, nor that longer than a chunk, and no
instruction is both a branch and a load of the same address; a project the
workspace starts with has a node list for each class and lists each class once, and what a dissect
may find names no class. Each proof module defines an inductive invariant per component (`IInv`,
`WInv`, `PanelIInv`, `BrInv`, `CtInv`, `WsInv`), proves it (`Invariance`, `AlwaysIInv` and the
like) with one step per action, and derives the named theorems from it. TLC checked each of them
before it was proved.

Recursion.  The library's induction theorems take an operator as a parameter, which the provers
cannot instantiate.  Stated about sets, induction is first order: a set of numbers has a least
element (`Least`, from `WFMin` of the library), so a set that contains 0, and k with k - 1,
contains `0 .. n` (`UpInduction`), and one that contains an address as soon as it contains all
later ones contains the interval (`DownInduction`).  The same induction shows that the recursive
functions of the models exist, which is what makes their equations usable (`LoopUnfolds`).  That
is why `ScanSession`, `CodeBrowser`, `CheatTable`, `ClassModel` and `Workspace` write the code's
loops as recursive functions over prefixes or addresses.

### Breakpoints (`KmodBreakpointsProofs`)

For every set of threads, CPUs and slots and every ring depth `Spec` keeps `TypeOK` and seven safety
invariants: the four that `kmod_breakpoints` checks, and that events carry the right id, ids are
unique and a close leaves nothing (which on the small instance are part of `ImplementsSession`).
The invariants are not inductive one by one.  `IInv` adds what the threads' program counters
say about the slots:

- `LocalInv`: which locals are in use at which stage (a thread in BP_SET has a current slot, a
  thread outside teardown has no dead slots);
- `OwnerInv`: a live slot is on the list or private to exactly one thread.  It is what makes
  every other change of a slot local: nobody else can have it in hand;
- `HookInv`: a hooked slot is live, and at which stages of its owner it may be hooked; a slot
  being reclaimed is not hooked;
- `HandlerInv`: a running handler's slot is live; if it is no longer hooked, its owner is
  still waiting for exactly this handler (`hw_wait`, or the CPU is in `graceFor`) or has yet to
  start waiting.  This is the argument that teardown waits long enough;
- `PhaseInv`: after the close nothing is listed and nobody works;
- `IdInv`, `EventInv`: ids are below `nextSlot` and pairwise different, and a slot that can emit
  has its id;
- `PinInv`: the references a slot holds at each stage.

### The refinement (`KmodBreakpointsProofs`)

`Refinement` is `Spec => ImplementsSession`.  The abstract session speaks of ids and the module of
slot objects, so the core of it is that ids stand for slots: two slots that are being armed or can
fire never share an id, and a slot that is being armed cannot fire yet (`ArmingFacts`,
`FiringFacts`, from `IInv`).  Sixteen kinds of steps are shown to leave the session alone
(`QuietSteps`), the others to be a step of it or to leave it alone.  The second case arises
when a slot is unhooked while a handler still runs: the session disarms it when that
handler ends.

### Gate and allowlist (`KmodGateProofs`)

`TypeOK` and the five invariants of `kmod_gate`.  `IInv` adds:

- `HeldInv`: a snapshot a task walks is published or its free waits for that task;
- `StampInv`: a recorded fingerprint is never ahead of the file, and a reload that still has the
  file's fingerprint has its contents.  This is why the stat must come before the read;
- `SeenInv`: every policy a call can still ask is among those seen during it;
- `LifeInv`: where tasks, descriptors and the work item can be at each stage of load and unload;
- `GuessInv`: a count that is stored, or loaded and about to be stored, was earned.

The last one corrected the model's claim about `auth_failures`.  An earlier invariant bounded the
counter by the limit plus the number of tasks; the proof attempt showed it to be false with three
tasks: a count loaded before a successful handshake and stored after it undoes the reset, and
further racing stores build on it.  What holds, and is checked and proved instead, is
that the counter locks nobody out early (`LockIsEarned`).  How many wrong guesses pass the limit
because counts were lost has no bound in the code, and no property states one.

### Script bridge (`ScriptBridgeProofs`)

`TypeOK` and `EventsMeetTheirScripts`, for any length of the channel and number of loads, and
`WaitersAreServed`, which is stated in the proof module: a thread waits for a resolve exactly while
its command is queued or executed, the resolver never waits for the UI thread, and any other
script that does has its request in the channel.  It is the safety behind the two liveness
properties of `script_bridge`: nobody waits for a reply that no one owes.  That an event meets its scripts is a fact about the whole queue: the generations of the
queued commands continue the worker's, one load at a time, up to the loads sent (`ChainInv`).
`ExecInv` ties the command in hand to the worker's state, `ExitInv` says that nothing is sent to a
worker that left, and `OneResolve` that each caller has one resolve under way.

### App session (`AppSessionProofs`)

`TypeOK` and the four invariants of `app_session`, for any processes, classes and parts.  What is on
screen rests on the jobs: an attach is only in flight while nothing is attached (`AttachInv`), a job
in flight carries the process it was started in and an idle one none (`JobInv`, `ResolveInv`).

### Debugger client (`DebuggerClientProofs`)

`ListTracksSession` and `HitsDecodeRight`, on the abstract session, so with `Refinement` they speak
of the client on the real kernel module.  List and kernel agree between two calls only; `TrackInv` says what
holds during one: the id the call is about accounts for the whole difference.  `LogInv` adds
that an id in the log was handed out before the call in progress, so a hit logged as "Unknown" is
never the breakpoint that is about to be listed.

### Scanner panel and scan session (`ScannerProofs`)

`TableOfSession`: during a next scan the session travels in the job, and `JobInv` compares the table
with that one; `NumberInv` keeps a generation from being taken for an empty table.

`UndoExact` and `DeadTargetKeepsResults`: a pass works on the results on top of the history for as
long as it runs (`BaseInv`), and a next scan accounts for each result it has passed as kept, dropped
or unreadable (`NextInv`).  `NextScanSound` proves the action property `NextScanKeeps`: a row that a
next scan leaves narrows a row of the generation below and passed the compare with the two values it
shows, and no row whose value stayed in memory and compares is lost, whatever the target does
meanwhile.

`FirstScanExact` and `NextScanExact`, for any address space, layout, region filter, alignment, width,
chunk size, result limit and compare, whatever the target writes, maps and unmaps during the pass.
What a first scan is asked for (`Searched`) knows neither merging nor windows, so the proof has to
show that neither loses or doubles a value:

- the allowlist merged, the regions cut by it and sorted hold exactly the searched values, each in
  one region (`MergedFacts`, `ApplyFacts`, `SearchedIs`);
- between two windows (`WalkInv`, `FoundInv`) the walk has passed every searched value below the place it
  has reached, and the rows are the matches among those of them that did not change; the next
  window starts at the first multiple of the alignment that the last one could not hold whole
  (`AdvanceFacts`), and a region is left early only at a hole, which unsettles every value behind it
  (`RegionDone`);
- a row shows what was in memory during the pass (`Shows`), so it is the value itself if that held
  still.  The rows of every generation are in order (`RowsInv`), so no other result of the same
  address can answer for one that a next scan dropped.

### Code browser (`CodeBrowserProofs`)

`ListingExact`, `DissectExact` and `CachesMatch`, for any modules, regions, code, chunk size and cap
of the listing.  What the decoders return is shown by induction from the end of the buffer: rows in
order, each the instruction that is there, without a gap, up to where the code does not decode or
the buffer ends.  `BrInv` adds to `ListingExact` what it takes to go on: nothing decodes between the
last row and the address the next chunk starts at, that address lies in a region, and rows do not
overlap, so a failed patch tears the rows it names and no other (`ListingInv`).  `NavInv` says that
the navigator may be behind the dissects but never ahead, so a new epoch cannot meet lists that
already bear it.

`DissectExact` compares the plain decode of a region (`Makes`) with what the worker collected from
chunks of a target that went on changing.  `JobInv` holds between any two of its steps: what it has
lies in the modules it was started for and was loaded in between, is what the code makes if the
region was not patched, and reaches something that was there; the intervals it has yet to read start
where a decode of the region has an instruction, so nothing is seen twice or with another alignment;
and of a module that stayed, each reference whose target stayed is either found or lies in an
interval or a module still to come.  The index of the moment holds the modules that stayed, which is
why a branch into one of them is never refused.

The proof attempt corrected `ListingExact`.  It used to explain a gap by the end of a region and
the start of the next one; a region that starts with bytes that do not decode is skipped as a
whole (the decoder returns nothing and `extend_linear` moves on), so the next row may be
several regions further.

### Address list and workspace (`ProjectProofs`)

`FreezeIsStable`, for any cells and types of the model: `CtInv` types the rows of the table, of its
file and of the scripts' freezes; then, by induction over the prefixes the tick's loops work
through, a tick over entries that show their live value leaves the cells as they are after every
entry, also where entries of different width name one cell.

`RoundTrip`, `ReferencesResolve` and `AcceptHitsItsClass`, for any classes, tags, first projects,
edits and depth of the dereferencing.  `WsInv` says that the project is one (each class has its
nodes and is listed once, `IsProject`), that the file on disk is a list of class definitions, and
what the pickers, the dialogs, the queue and the preview may hold.  Then:

- that each class is listed once is what makes the round trip work: by induction over the
  order, reading the first k definitions of the file gives the first k classes with their nodes
  (`RoundTrips`).  A class listed twice would be read back once;
- `Steps` says what any step makes of the project (`ProjectStep(T)`): its nodes change
  but go on referring to classes of T, or a class without references is added, or one nothing refers
  to is removed, or the project is replaced by the file or an empty one.  It is used twice: with all
  classes for the invariant, and with the classes of the project for `ReferencesResolve`, where the
  edits in the queue are assumed to name classes of the project, the exception the property makes;
- only accepting and cancelling make a preview go away, and with an empty queue neither reaches
  another class, whatever is selected (`AcceptIsLocal`).

### Only model-checked, and why

- All liveness: `TeardownTerminates`, `TimedWaitReturns`, `EditsTakeEffect`, `HostCallsAnswered`,
  `BackgroundResolveReturns`, `JobsDrain`, `PassEnds`, `FrozenStaysPinned`.  The prover handles no
  fairness.
- `LayoutsAgree` (`Workspace`): the three computations of offsets recurse over embedded classes and
  put the rows and fields together with folds and filters of the library, of which the provers
  know nothing.  That a size is a natural number is proved
  (`MemorySizeType`), since edits depend on it; that the computations agree is not.
- `SpiderExact`, `PathsExact` (`PathScans`): the parser and evaluator of formulas and the solving of
  the pointer map are recursive operators, with which the prover loses its SMT backend.
- The violations, which are counterexamples.

## Not modelled, and the plan

Left for later, in this order:

1. The rest of the scanner: floats, strings and byte patterns, the section filter.
2. ENUM_REGIONS of the kernel module and its client, with the retry against a process that maps
   memory meanwhile.

Left out for good, with the reason:

- drawing, labels, colours, docking and the text of generated sources: no state a property is about;
- symbol and PE parsing, instruction decoding, the process backends: file formats, third-party
  crates and thin wrappers of system calls.  The other modules meet them as the environment;
- pattern and signature matching, pointer classification, string probing: single loops over one
  buffer, without state between calls;
- settings, the key file and the window layout: one write each of a whole file;
- the event bus, plugins and the API catalog: tables and scaffolding.  The order of events is that
  of the queue in `ScriptBridge`;
- the kernel ABI header: struct layouts that both sides check by size at compile time.
