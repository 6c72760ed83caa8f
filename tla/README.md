# RiiDownloader: a TLA+ model of NXDump and of its network front end

This directory holds a model of the core of the repository: how NXDump reads a game card, a title or
a file system and sends what it reads to a file or to a computer, how it patches a package while it
sends it, how it reads content through its cipher and its layers, how it follows the card slot and
downloads its updates, and how FriishProduce, the WAD packer, finds a console on the network and
extracts a title from it. The modules are checked with TLC on small instances, and safety properties
of all nine components are proved with TLAPS for all instances.

Source paths below are relative to `src/`. `POC` is `NXDump/code_templates/nxdt_rw_poc.c`; C files
without a directory are in `NXDump/source/core/`; C# files are in `WAD Repackager/FriishProduce/`.

## 1. Inventory

The repository has two programs. **NXDump** (C and C++, on the console) reads contents and dumps
them; its core interfaces are C modules with one mutex and at most one background thread each.
**FriishProduce** (C#, on a PC) edits and packs WAD files; its network window talks to NXDump. The
rest is vendored code (FatFs, LZ4), assets and translations.

| Component | State | Operations | Interacts with | What is hard | What makes it correct |
|---|---|---|---|---|---|
| Dump of one file (`POC`, `saveGameCardImage`, `xciReadThreadFunc`, `genericWriteThreadFunc`, `spanDumpThreads`) | two buffers, the hand-over (`data`, `data_size`), offsets, three flags | read, hand over, write, cancel, join | card interface (reads), USB interface (writes) | two condition variables waited on without a loop, wake-ups after unlock, flags set without the mutex | the output is the source, in order; success only if complete; threads never share a buffer; the dump ends |
| USB interface (`usb.c`) | session flags, remaining and written size, NSP mode, ZLT, three events | seven commands, session start, detection, exit | dumps, the host script | cable pulled anywhere, time-outs, an unbounded wait inside the mutex | console and host agree on what is expected; exit returns |
| NSP dump (`POC`, `nspThreadFunc`, `saveNintendoSubmissionPackage`, with `cnmt.c`, `pfs.c` and the patches of `nca.c` and `nacp.c`) | contexts of the NCAs, records, names, flags, `NspThreadData` | lay out, announce, patch and send block by block, rename, send the header, discard, cancel | USB interface, content readers | values known only after the last block, five copies of them, cancellation at any moment | names, records and hashes agree with what was sent; patches are whole; a failure leaves nothing that looks whole |
| Extracted dump (`POC`, `extracted*ReadThreadFunc`, `fsBrowserHighlightedEntriesReadThreadFunc`, `genericWriteThreadFunc`) | the open file, the hand-over, three flags | open, read, hand over, write, close, cancel | USB interface, content readers | the reader opens and closes what the writer writes; three kinds of wait; a reader that calls itself for directories | every chunk in its own file; a success is whole; a cancelled dump leaves nothing; the dump ends |
| Game card interface (`gamecard.c`) | status, cached information, the mutex | detection thread, reads, status query, exit | title interface, dumps, UI | insertion during a load, a query of the slot that fails, a status that is read with a try-lock, join under a mutex | status and cached data agree; they follow the slot |
| Title interface (`title.c`) | available, updated, title lists | title thread, refresh, exit | card interface, UI task | lost events, join under a mutex | listed titles are those of an available card |
| UI tasks (`tasks.cpp`) | last status shown | polls | card, title, USB, UMS interfaces | flags that are cleared by reading | the last notification is the true status |
| Asynchronous tasks (`NXDump/include/async_task.hpp`, `download_task.hpp`, `http.c`) | status, result, exception, cancel flag | execute, cancel, get, loopCallback, destroy | curl, the views of `options_tab.cpp` | status read without the mutex; a result taken once; a view closed while its thread runs; failures nobody looks at | what the listeners are told is true; the thread ends before the object |
| USB mass storage (`ums.c`) | device list, updated flag | populate callback, query, exit | libusbhsfs, UI task | callback against exit | the list is the last one reported |
| Resources and services (`nxdt_utils.c`, `services.c`) | what is initialised | initialise, close | every interface | partial failure in a long sequence | what was opened is closed, in reverse |
| Content readers (`nca.c`, `bktr.c`, `pfs.c`, `hfs.c`, `romfs.c`, `nca_storage.c`, `save.c`) | contexts of open contents, the partial counter and the virtual offset a read leaves behind | open, read at an offset, ask whether a patch replaced a block, close | dumps | offset arithmetic at boundaries, state that survives a call | a read returns the bytes of the virtual content |
| Network discovery (`_classes/NetworkCommunication.cs`, `NetworkIntegrationForm.cs`) | device list under `devicesLock`, list view | timer, listener, manual addition, refresh | the window's thread | events raised under a lock, `Invoke` that waits, a broadcast that fails before the clean-up behind it | the list view shows the devices known |
| Network extraction (`NetworkIntegrationForm.cs`, `_classes/NetworkRomInjector.cs`) | selection, connected device, enabled controls, operation | connect, list, extract and poll | the devices, over HTTP | handlers that interleave at each `await` and under a modal dialog | one extraction at a time, on one device |
| Injectors, banners, databases, forms of FriishProduce | a WAD being edited | sequential | external tools | byte formats | out of scope here |

## 2. Modules

| Module | Models | Checked by |
|---|---|---|
| `DumpService` | what a dump promises, without threads | refined by `DumpPipeline` |
| `DumpPipeline` | the one-file dump | `DumpUsb.cfg`, `DumpWaits.cfg`, `DumpStopped.cfg` |
| `DumpPipelineProofs` | proofs about it | TLAPS |
| `UsbSession` | the USB interface, the dump flows that call it, the host | `UsbSession.cfg`, `UsbNspHeader.cfg` |
| `UsbSessionProofs` | proofs about it | TLAPS |
| `NspDump`, `MCNspDump` | the dump of a package and its main thread | `NspDump.cfg` |
| `NspDumpProofs` | proofs about it | TLAPS |
| `ExtractedDump`, `MCExtractedDump` | the dump of many files: reader, writer, main thread | `ExtractedDump.cfg`, `ExtractedWriteError.cfg` |
| `ExtractedDumpProofs` | proofs about it | TLAPS |
| `ContentReads`, `MCContentReads` | NCA sections, bucket trees, NCA storages | `ContentReads.cfg`, `ContentReopened.cfg` |
| `ContentReadsProofs` | proofs about it | TLAPS |
| `DownloadTask` | an asynchronous download and the view that owns it | `DownloadTask.cfg` |
| `DownloadTaskProofs` | proofs about it | TLAPS |
| `GameCard` | card slot, detection thread, title thread, tasks, closing | `GameCard.cfg`, `GameCardExits.cfg`, `GameCardTitles.cfg` |
| `GameCardProofs` | proofs about it | TLAPS |
| `NetworkDevices` | the devices both halves of the network window speak of | extended by both |
| `Discovery` | timer, listener, window thread, list view | `Discovery.cfg`, `DiscoveryRefresh.cfg` |
| `NetworkExtraction` | the window's asynchronous handlers | `NetworkExtraction.cfg`, `NetworkOneDevice.cfg` |
| `NetworkProofs` | proofs about both | TLAPS |

Run a check with `tlc -config DumpUsb.cfg DumpPipeline.tla`, a proof with
`tlapm DumpPipelineProofs.tla`. `PROJECT.json` maps each definition to the lines it stands for. A
definition commented "a mutant" is a plausible mistake in the definition next to it: replacing one by
the other must make the named property fail, which is how each property is known to say something.

### DumpPipeline

`rpc`, `wpc` and `mpc` are the places where the reader, the writer and the main thread are; the other
variables carry the names of the C variables. Sizes are in chunks of `BLOCK_SIZE`, so `data_size` is 0
or 1, and a chunk is its number in the source: that is all the properties tell apart. A critical
section of `g_fileMutex` is one step, except for the writer's, which spans its wait test and the write:
`MutexFree` says when nobody is inside. `condvarWait` appears as the values `"asleep"` and
`"woken"`; a `condvarWakeAll` is issued after the unlock in the code and is a step of its own here
(`ReaderWake`, `WriterWake`), so it can come late and wake a thread for a reason that has passed. A
wake-up that finds nobody asleep is lost. The flags `read_error` and `transfer_cancelled` are set and
read where the code does it, with or without the mutex. `UseUsbHost` selects the output, and with it
whether an empty write is refused (`usbSendFileData`) or does nothing (`fwrite`), and `Faults` what may
go wrong: threads that are not created, allocations, reads and writes that fail, a user who cancels.

The abstract `DumpService` has an output and a result. `ImplementsService` maps `mpc` and `success`
to that result (`Reported`).

### UsbSession

Every public function of `usb.c` runs under `g_usbInterfaceMutex`; it is one action here, whose
parameter checks are guards on what it sends and whose transfers succeed or time out by choice. The
one place where the mutex is held over an unbounded wait is the detection thread in
`usbStartSession`: `detector = "session"`. `flow`, `entries` and `toSend` follow a dump through the
order of calls `POC` makes. The host is external and is modelled from `NXDump/host/README.md`:
`Expected` says when it expects a command, and `unexpected` records every command that came at another
time. What is assumed of the environment: the host ends what it was receiving when it answers with an
error; `usb:ds` fails only by time-out; its state change event is cleared by waiting for it; a cable is
plugged back in no sooner than the detection thread has noticed that it was pulled (`CablePlugged`
waits for `~stateEvent`); and a user starts a dump only once the detection thread has dealt with the
last change or time-out (`UserStarts`). From the start of a dump on, nothing waits for that thread.

### NspDump

One step of `nspThreadFunc` is what it does between two points at which the main thread, the user or a
failure can come in: a block of an NCA, an entry of the package, a phase of the preparation. NCAs are
numbered as in the code, the meta NCA last. SHA-256 is taken to be without collisions, so the hash of an
NCA *is* the sequence of blocks it was computed over, and a content ID is that hash again: `names`,
`records`, `hash`, `contentId` and `metaRecords` are the five copies of it the code keeps, each changed
where the code changes it. `HeaderBlocks` and `PatchBlocks` say which blocks of an NCA a patch reaches.
All options of the menu (`opts`) are initial states, as is whether the ticket is there. `lost` records
what a local `fwrite` dropped, since the code goes on as if it had not. Once an NCA is sent, the update of its
record and of its name may each fail (`FinishNca`), which abandons the dump before the next one. The USB interface is a call that
succeeds or fails here; what it promises is `UsbSession`'s subject. That the thread was created is
assumed by `NspDumpEnds`: without it the main thread waits for a size for ever (`POC`:3130).

### ExtractedDump

The conventions of `DumpPipeline`, for a reader that walks over files. `kind` tells the readers apart:
`"table"` are those that go by a count of entries, `"romfs"` the one whose loop also ends when
everything was written (`POC`:5412), `"browser"` the one that calls itself for every directory it meets
(`POC`:5785). Files are numbered in the order in which that walk meets them and `Directory` gives the
directory of each, as a path; `cwd` is the directory of the innermost call, so entering a directory
appends a name and returning drops one, and directories with no file below them, of which nothing is
created, are left out. Each call ends like a whole dump (`POC`:5912-5937): it waits for the last chunk, closes
the file and removes the output if something failed. The call it returns to has no file open until
it opens one, and the same holds for a call that has not opened its first file yet. A
cancellation noticed there removes nothing, so that a cancelled local dump is left behind in part: `crossed`
says that a directory was entered or left since the last file was opened, and `CancelledIsRemoved` excepts
those moments for the browser. No comment or document promises the removal, so no configuration
refutes one. The writer's critical section spans its wait test and the write;
`Target` is the file it writes to at that moment, `fp` locally and the file announced last on the host.
Every wait of the reader is tested once, so a late wake-up lets it past a chunk that is still pending:
`overtaken` records that, and three properties speak of the behaviours without it, because this fault
of the waits is known from `DumpPipeline`.

### ContentReads

A section is a row of cells; a stored cell knows the counter, or sector, it was encrypted with, and
comes out as `Noise` when it is deciphered with another one. `Content` defines what a stack of layers
holds at an offset from the meaning of the layers; `ReadStorage`, `ReadPieces`, `ReadPasses` and
`FindEntry` do what the code does: the binary search in two levels, the visitor that moves to the next
entry, one read per entry, passes through a buffer of limited size, and the alignment of each. The
state is what survives a call: `cipher`, with the generation a read through AesCtrEx leaves in the
partial counter and the virtual offset a sparse read sets. Opening reads the tables through the
same functions, one step per table. Tables with an L2 node are refused by the code itself
(`bktrValidateTableOffsetNode`) and absent here. A storage has at most three layers, so the functions of
one layer take the read of the layer below as a parameter and are put together layer by layer
(`ReadBare`, `ReadSparse`, `ReadIndirect`, `ReadSub`; `Bare` to `Content` for the meaning); the loops are
recursive functions. As in the code, an entry that does not cover the offset an iteration has reached
ends the read with a failure (bktr.c:628, 662); the proof shows that no accepted table leads there. Offsets are
counted in cells, so the checks that entries are aligned (bktr.c:859, 893, 988, 1015) always pass: what they
refuse is a malformed table, which is not modelled. A
session holds a base, a patch or both; `selected`
says whose section context lives on between two openings.

### DownloadTask

`m_*`, `prev_current` and `longRunning` carry the names of the code. The calling thread (`upc`)
runs the handler, the cancel button and the destructors; the task's thread (`tpc`) runs
`doInBackground`, that is curl with its two callbacks. The future has the four states the code can
find it in. A destructor is two steps, the derived part's and `~AsyncTask`'s, because the thread may
enter `doInBackground` between them: then it calls a pure virtual function and the program ends
(`upc = "lost"`). `told` is what the listeners heard. A chunk counts as `received` when it was handed to the C
library, which may keep the last bytes of a file until `fclose`. `httpDownloadFile` looks neither at the result of
`fclose` nor at that of `remove` (`http.c`:209-212): each may fail here (`LastBytesLost`,
`NotRemoved`), `unnoticed` records it, and the output is then what really is on the card. `ToldIsTrue`
excepts these two cases and no other: a success received everything, and left a whole buffer, or a
whole file unless its last bytes were lost as it was closed.

### GameCard

`gcMutex` and `titleMutex` carry their holders, because try-locks and joins depend on them. `status`
and `info` are the status and the card whose information is cached; `detector` and `titles` are the two
background threads, `app` the main thread as far as closing goes; `statusEvent`, `cardEvent` and the
exit events are the kernel and user events. Loading a card is one step with every outcome the code
has: it holds the mutex, and nobody sees the intermediate states. A card that is pulled while it is
read makes the load fail or not. A query of the slot may fail and is then answered like an empty slot
(`gamecardIsInserted`, gamecard.c:715-721); `misread` says that the last query did. Nobody asks again before
the next event of the slot, so a card may show as "not inserted" for good: `StatusSettles` says that this is
the only way to such a status. `ReaderLocks` and `ReaderUnlocks` stand for any caller of
`gamecardReadStorage` and of the getters.

### Discovery

A device is its address. `silent` are the devices whose last answer is more than thirty seconds old, so
time is the step that moves a device there. `online` says whether a broadcast can be sent: a `Send` that throws
(NetworkCommunication.cs:331, caught at 345) skips the clean-up behind it, so a firing of the timer without a
network changes nothing, and only one that sent its broadcast is `due` to clean up. Firings that overlap because
the lock is held merge into one. `lock` is the holder of `devicesLock`. A handler that runs
through `Invoke` keeps its background thread in `"invoke"` until the window's thread (`ui`) is idle.
Before the window has a handle, handlers run on the background thread; closing the window is not
modelled either.

### NetworkExtraction

All handlers run on the window's thread; what the model interleaves is their continuations.
The dialog that asks for a file stands between the check of `ButtonExtractAndInject_Click` and its use of
what is selected (NetworkIntegrationForm.cs:190-204): it keeps the user from the form (`CanClick`), but answers
arrive under it and may clear the selected title or replace the connection, so the two are steps of
their own (`ClickExtract`, `FileChosen`). `waiting` holds one entry for each HTTP request in flight, with the place of the code that waits for
it. The controls' `Enabled` and the selections are variables, since they are the only thing that keeps
handlers apart. A title is represented by the device that listed it. `operation` is the extraction's
stage and title, `asked` the device its last request went to.

What a section and its tables are assumed to be is what the program checks when it opens them, or what
the format says and the code relies on:

* `SectionsAssumption`: tables start at offset 0 and rise below their end (checked by
  `bktrValidateTableOffsetNode`, `bktr.c`:1240, of the offset node, and entry by entry as they are visited,
  `bktr.c`:611-675 and 967-1042: any other table makes calls fail, which is not modelled), the section
  starts at a block, and a patch has its
  AesCtrEx and indirect tables together and no sparse one (`ncaInitializeFsSectionContext` and
  `ncaStorageInitializeContext` take their kinds from the header this way). A patch without
  indirect layer, whose hash layer is plain, is left out;
* `TitlesAssumption`: a base is not a patch, and a patch is one;
* `TablesPointInside`: the entries of a table point into the storage below. The code does not check this when
  it opens a table: a read that leaves the storage fails there, which a model of damaged titles would add;
* `SparseAssumption`: a sparse layer stores each virtual offset once, at the same place of a cipher block.

TLC evaluates all of them on the sections of the run.

## 3. What is checked

Runs that pass:

| Run | Bounds | Distinct states | Shows |
|---|---|---|---|
| `dump` | 4 chunks, all faults, USB | 2,506 | `ImplementsService`, `SuccessMatchesChecksum`, `NoBufferRace`, `NoMutualSleep`, `UsbAccounting`; and that a dump ends after a write error (`WriteErrorEndsDump`) and once everything is written (`WrittenDumpEnds`) |
| `usb_session` | 2 chunks, 2 files, 3 faults | 47,658 | `DataIsExpected`: no chunk or new package reaches a host that does not expect it, with the ZLT setting it expects; `TransferNeedsSession`; `ExitCompletes`: `usbExit` returns though the detection thread waits for a host for ever |
| `nsp_dump` | 4 NCAs of up to 3 blocks, 2 icons, all options, all faults | 30,052 | `PackageConsistent`: a package reported as done agrees with itself, in names, records, XML and sizes; `PatchesComplete`: no block a patch reaches is sent without it; `FailureSettled`; `NspDumpEnds` |
| `extracted_dump` | files of 2, 1 and 0 chunks, the first two in nested directories, the three kinds of reader, both outputs, all faults | 34,048 | `SuccessIsWhole`, `ChunkMeetsItsFile`, `CancelledIsRemoved` (the browser between two directories excepted), `WrittenExtractionEnds` |
| `content_reads` | 8 sections, 12 sessions, trees of up to 5 entries in 3 sets, every range | 5,296 | `ReadIsTheContent`: a read returns what the layers define there, whatever was read, failed or reopened before, and fails only for a reason; `PatchedIsTold`: a block counts as updated exactly when the patch holds part of it |
| `download_task` | 3 chunks, all faults, file or buffer | 2,444 | `ToldIsTrue`: what a view is told is what happened and what is left, but for the two failures nobody looks at; `ThreadNeverOutlives`, `ClosedViewGoes` |
| `game_card` | 2 cards, 2 moves, queries that fail | 48,841 | `StatusTellsInfo`, `ListedOnlyWhenAvailable`, `StatusSettles` |
| `discovery` | 3 devices, 2 clicks, a network that goes and comes | 169,224 | `ListIsCurrent`, `OnlySilentLeave`; `SilentDeviceLeaves`, if nobody clicks and the network stays up from some moment on |
| `network_extraction` | 2 devices, 5 clicks | 61,401 | `OneExtraction`, `NoConnectDuringExtraction`; `ConnectComesBack`: if extractions and dialogs keep ending, a device that stays selected can be connected to in the end |

Runs in which TLC refutes what a comment, a document or a message of the program says:

| Run | Statement | What happens |
|---|---|---|
| `close_resources` | "Wait for the gamecard title info thread to exit." (`title.c`:2315) | the join holds the mutex the thread needs |
| `extracted_write_error` | a failed write is reported as "i/o error" (`POC`:6069) | after the last chunk the reader waits without a look at `write_error` (`POC`:4846), for a writer that has gone |
| `patch_reopened` | "Reads decrypted data from a NCA FS section using an input context." (`nca.h`:514) | the generation of the last AesCtrEx entry stays in the counter (`nca.c`:1398), and the tables of a patch opened again are deciphered with it |

Six more configurations each have a counterexample to a statement the code does not keep. They are here
to be run by hand:

| Configuration | Property | Statement | What happens |
|---|---|---|---|
| `DumpWaits.cfg` | `WaitsHold` | "Wait until the current file data chunk has been read" (`POC`:5948) | both waits stand in an `if`; a late wake-up lets the writer go on with no chunk, which over USB turns a faultless dump into an "i/o error" |
| `DumpStopped.cfg` | `StoppedDumpEnds` | "hold b to cancel" (`POC`:5999) | the writer is told of the end before it sleeps, and sleeps for ever; the main thread joins it |
| `UsbNspHeader.cfg` | `HeaderOnlyInNspMode` | "Only issued under NSP transfer mode" (`NXDump/host/README.md`:111) | `g_nspTransferMode` outlives the session it belongs to |
| `GameCardTitles.cfg` | `LoadedCardAvailable` | an event "that can be used to wait for status changes on other threads" (`gamecard.h`:281) | the event is signalled under the mutex, the waker's try-lock fails, and the change is missed |
| `DiscoveryRefresh.cfg` | `RefreshEnds` | "Shows discovered NXDump devices" (`IMPLEMENTATION_SUMMARY.md`:96) | events raised under the lock wait for the window, which waits for the lock |
| `NetworkOneDevice.cfg` | `OneDevicePerExtraction` | "from the connected NXDump device" (`NetworkRomInjector.cs`:64) | titles of one device, requests to another |

Other statements the code does not keep are stated in the modules and asked for in no configuration:
`XmlHashesKnown` (the CNMT XML lists an NCA that was sent unpatched with the placeholder hash of `nca.c`:205) and `KeylessUnmodified` in `NspDump`, `PreviousChunkWritten` in
`ExtractedDump`, `CancelledIsCleanedUp` in `DownloadTask`, and `PackedPatchIsTold` in `ContentReads`: for
an LZ4 entry `bktrIsBlockWithinIndirectStorageRange` looks cells up at the distance they would have if the
entry were not compressed, so a file that shares the entry with patched data may be reported wrongly.

`DataIsExpected` leaves three commands out on purpose. `NspHeader` has the run above.
`FileProperties` reaches a host that is still owed data for the same reason: `_usbSendFileProperties`
refuses a new file while some of the last one remains, except under `g_nspTransferMode` (`usb.c`:1271),
and that flag may be stale. `StartExtractedFsDump` can come inside an extracted dump: when a source
cannot be read any further between two files, nothing cancels or ends the dump on the host, although
`NXDump/host/README.md`:204 says that a new one "will never be issued unless" it was. Both are reachable in
the model (`unexpected` shows them). A read error in the middle of a file leaves the remaining size as
it is too, because only the NSP flow cancels its transfer then: later files are refused until the
interface is reset.

Four properties have a condition because the code keeps no more. `CancelledIsRemoved` excepts the file
browser where a directory begins or ends, `ToldIsTrue` the failures of `fclose` and `remove`. `SilentDeviceLeaves` speaks of a
network that stays up and of a user who does not click: with clicks the window and the timer can wait for
each other for ever, which is the counterexample of `DiscoveryRefresh.cfg`. `ConnectComesBack` takes every
extraction and every dialog to end, since the polling loop of an extraction need not, and keeps the group box
of the devices disabled meanwhile.

### Bounds

Four chunks let both buffers be used twice and a chunk be lost, stale or last; the protocol of the two
threads has no memory of more. Two chunks and two files reach every position of a chunk in a file and
of a file in a dump, and three faults allow a failure during the recovery from another. Two moves of a
card cover a swap during a load; further ones are merged by the event, which
is one bit. The package has one NCA of each kind that is treated differently, with a header in two blocks, a
context patch in two blocks and one in the first block only. The three files of an extraction are one
that needs two hand-overs, one that needs one and an empty one, which is where the waits differ; a directory within
a directory with a file in each, and a file after both, let a call end with another one to return to, and with none. The
trees have entries that start inside a cipher block, sets of one and of two entries, moves over the end
of a set, and a buffer of two blocks that most reads overflow; every offset and size up to the end is
read. A download of three chunks can be cancelled at the first, between two and at the last. Discovery needs two devices leaving in one pass of the timer while a third answers. Two
devices and five clicks cover two connections in flight, an extraction and another attempt. The
safety properties of nine modules are proved without these bounds (section 4). `MaxMoves`, `MaxClicks` and
`MaxFaults` bound only what users and the environment do, never a thread of the program.
`CHECK_DEADLOCK FALSE` stands in every configuration but those of `ContentReads` because each system may stop: a dump ends, the
program closes, users and devices fall silent once the bounds are used up.

### Fairness

Threads of equal priority are preempted by the console's scheduler, so each gets weak fairness of its
steps. A mutex that is released again and again is got (strong fairness of the locking steps): libnx
mutexes hand over to their waiters, and the .NET monitor queues them. The broadcast timer fires every
five seconds, and sends its broadcast if the network is there at such a moment (weak fairness of `TimerSends`, so a
network that comes and goes may be gone at every firing); curl calls its progress callback about once a second, while nothing makes a server send; the
main loop of the user interface runs its handlers and destructors; HTTP requests end within the client's time-out of thirty seconds. No fairness is given to
anything a user, a cable, a card, a host or a remote device does. An extraction's polling loop has no
end in the code and its dialog may stay open, so `ConnectComesBack` has their ends as a premise and not as fairness.

## 4. What is proved

`DumpPipelineProofs`, from `DumpAssumption` (a natural number of chunks, a Boolean, a set of known
faults):

* `TypeCorrect`, `BufferRaceFree`, `NeverBothAsleep`, `UsbAgreement`, `ChecksumOfSuccess`: the five
  invariants of the run, for any number of chunks and either output;
* `PipelineImplementsService`: the three threads implement `DumpService`.

The invariants are not inductive as they stand. `IInv` adds: how far the reader is against its
program counter and the checksum (`ReaderInv`); that what is handed over lies in the buffer the reader
does not own, and which chunk it is (`HandOverInv`); that the output is a subsequence of what was
handed over, with room left in the source for everything stored after each chunk (`OutputInv`), which is
what makes a complete count a complete output although chunks can be lost; that a sleeper has something
to wait for or somebody about to wake it (`SleepInv`); why the main thread left its loop (`MainInv`);
and the interface's count (`UsbInv`). There is one lemma for each thread (`ReaderPreserves`,
`WriterPreserves`, `MainPreserves`), one step in it for each action, and `StepImplements` maps each
step to one of `DumpService` or to none.

`GameCardProofs`, from `GameCardAssumption`: `TypeCorrect`, `StatusIsSound`, `ListingIsSound` for any
set of cards and any number of moves. `CacheInv` drops the condition on the mutex from
`StatusTellsInfo`, which makes it inductive.

`UsbSessionProofs`, from `UsbAssumption`: `TypeCorrect`, `DataExpected`, `TransfersNeedSessions`, for any
sizes and any number of faults. Console and host drift apart at each lost exchange and each pulled
cable, so the invariant says when they agree: with the cable in, a session up and no time-out waiting
for the detection thread (`SyncInv`, and `FlowInv` in the middle of a file). `LinkInv` and `DetectorInv` say
why a new session always begins from a clean state on both sides, and `CountInv` why the endpoint's ZLT
setting is right at the last chunk although it is written only at the first of several chunks and at
aligned last ones. One lemma gives what an exchange can do (`ExchangeOutcome`), one per command what the
host makes of it, one per function of the interface what it preserves (`FileDataKeeps` is the one that
matters), and one per group of actions puts these together.

`NetworkProofs`, from `ClicksAssumption` and `ExtractionAssumption`, has the theorems on both halves of the
network window, for any set of devices and any number of clicks. Of the discovery: `DiscoveryTypeCorrect`,
`ListStaysCurrent` and the action property `SilentOnesLeave`. `ListInv` says by which one device the list
view lags behind while a thread waits for the window, `RemovalInv` that nothing stops being silent while the
timer holds the lock. Neither depends on the network. Of the handlers: `ExtractionTypeCorrect` and the action properties `OneAtATime` and
`NoneConnectsMeanwhile`. `BusyInv` relates the operation to the two controls that guard it, and says that none runs under an open
dialog; every continuation of a handler must respect it.

`DownloadTaskProofs`, from `DownloadAssumption`: `TypeCorrect`, `ThreadsStayInside` and
`ListenersAreToldTheTruth`, for any number of chunks and any faults. `FutureInv` says that the future
follows the thread and the status follows the future; `ResultInv` what a result says of the output, and
that a result with success was announced whole unless the task was cancelled; `ToldInv` that the
listeners heard the result of a task nobody cancelled. What the card made of it is in the statement: `unnoticed` says which of the two calls
nobody looks at failed. Without these invariants `ToldIsTrue` does not survive the step
that takes the result.

`ExtractedDumpProofs`, from `ExtractedAssumption` (any sequence of file sizes, any set of faults; of the
directories nothing needs to be assumed, not even `DirectoryAssumption`):
`TypeCorrect`, `ChunksMeetTheirFiles`, `SuccessfulDumpIsWhole` and `CancelledDumpIsRemoved`. A success is
only a count that has reached `Total`, so the invariant has to turn that count into contents. `CountersOK`
says that what was written and what is pending add up to what was handed over (`Handed`), unless a wait was
overtaken; `OpenOK` that the output open is that of the file the reader is in; `ContentOK` that
every file the reader has left holds its chunks in order and the one it is in holds those handed over;
`FlagsOK` and `EndOK` where the threads are once a flag is set, and what a verdict means for the directory
and the host. `Complete` then shows that with `data_written = Total` nothing but empty files can be
missing. What remains conditional is so in the properties themselves: a late wake-up, and a cancellation the file browser
meets between two directories.

`NspDumpProofs`, from `NspAssumption` (any title: NCAs of every kind, blocks, icons, patches and keys in any
number, any options and faults): `TypeCorrect`, `FailureLeavesNothingOpen`, `PatchesAreComplete` and
`PackagesAreConsistent`. The invariant follows the dump. `NcasOK` divides the NCAs into those not begun
(`Fresh`: ID and record are still those of what was read), the one under way and those sent (`Finished`: ID
and record are those of what was sent). `FlagsOK` is what makes the patches complete: `header_written`, the patch's flag and
`dirty_header` say exactly which pieces lie in blocks still to come, so that none ends
the patching of an NCA early. `MetaOK` relates the meta NCA's patch to the records. `EntriesOK` says that the other entries are
sent in the order in which they were laid out, at `Position`; `CountOK` that the count is that of the blocks
and entries sent; `PackageOK` when a package is open and who has seen that it ended. The sum of the sizes
(`BlocksUpTo`) and the list of entries (`CtxEntriesUpTo`) are recursive functions, and the
lemmas on them (`CtxEntriesPrefix`, `LayoutFacts`, `ContextAt`, `IconsAndXmlAt`) find each entry of the
layout again from the loop counters. There is one lemma for each action, over lemmas that say what
sending a block or an entry keeps (`BlockIsSent`, `SendKeeps`, `InNcasKeeps`, `InEntriesKeeps`).

`ContentReadsProofs`, from the assumptions of `ContentReads` listed in section 2 (any sections, titles,
tables of any number of entry sets and entries, any block and buffer size): `FindCovers`,
`PatchIsTold` and `ReadReturnsTheContent`. The algorithm
that answers whether a patch holds part of a block stands on four others, and so does the proof:

* `SearchFinds`: the binary search of the code finds the last of a rising row of offsets up to the one sought
  (`Narrowing` is the argument for any function that halves a range that way), and `FindCovers` that
  the search in the offset node and then in one entry set finds the entry that covers the offset;
* `MoveIsNext` and `ExtentsAreCovered`: a visitor goes from each entry to the next, over the ends of the
  sets, and what it is told of an entry is exactly the offsets the entry covers;
* `RangeIsTold`: the loop over the indirect entries of a range meets a patched one exactly when a cell of
  the range is patched;
* `PackedBlockIsTold`: over a compressed storage the loop ends at the first entry that is updated, fails or is
  the last (`FirstStop`), and the range each entry asks for (`UpdatedIsTold`) holds exactly its part of the
  block. This step needs `TablesPointInside`, and the condition that all entries of the block are stored as
  they are: with LZ4 entries the answer is wrong in general (`PackedPatchIsTold`, section 3).

The inductive invariant itself is small (`StorageInv`: the open storage is that of the title, and no answer
is pending while tables are read); the argument lies in the algorithms.

The other half of the module proves `ReadReturnsTheContent`: in every behaviour a read returns exactly what
the layers of the title define (`ReadIsTheContent`). The difficulty is that neither a pass nor an entry
knows whether the counter it uses is the right one: that depends on the generation and the virtual offset a
caller, or an earlier call, left in the section context. The proof goes up as the code is called:

* one pass: what `AlignDown`, the buffer and the cut make of it (`ThroughBufferIs`, `BlocksApart`) gives the
  plaintext of the cells it is for when the counters start where the cells were encrypted (`CipherPass`);
* all passes (`PassesAddUp`, then `ReadPassesIs` for `_ncaReadFsSection` with any crypto type, plaintext hash
  region and virtual offset, and `ReadKeyedPassesIs` for `_ncaReadAesCtrExStorage`): whatever the
  passes are cut into, they return every cell once and in order, and the offset handed down for the counter
  keeps pace with the one read at;
* all entries (`PiecesAddUp`, `TreeIsRight`): the loop of `bktrRead*Storage` ends, fails only where an
  iteration fails, and joins what its entries return, whatever read of the layer below it is given, as long
  as each iteration is right for one entry; the context each iteration leaves is what the next one is handed;
* one layer: an iteration is right for a sparse layer (`SparseIsRight`: the virtual offset handed down
  is the one the cell was encrypted at, which needs `SparseAssumption`), a table with generations
  (`CtrExIsRight`), an indirect layer (`IndirectIsRight`) and a compressed one (`CompressedIsRight`: the LZ4
  block is read whole, recognised, expanded and cut), over a storage below that is read right (`IsRight`);
* the stack (`LayersAbove`, `PatchIsRight`, `TitleIsReadable`): a storage means and reads the same seen from every layer
  above it (`BareStaysRight`, `LayerStays`), so the storage of any title is read right;
* the calls: `ReadsInv` adds to `StorageInv` that between two calls no virtual offset is left behind
  (`cipher.virtual = 0`) and that each table still to read belongs to a storage that answers any request. It
  holds after failures too, which is why `Answers` asks it of requests that run over the end. The generation
  is not in the invariant: a read through AesCtrEx sets its own and a section without generations starts from
  its header's, and only reading the tables of a patch depends on what was left (`OpeningSucceeds`, section 3).

The last three modules have recursive functions. That the functions exist and what they return is shown
without the library's induction theorems, whose operator parameters the provers cannot instantiate:
`LeastElement` derives from the well-foundedness of strict inclusion between finite sets that a non-empty
set of naturals has a least element, and each induction is the proof that a set of counterexamples has none.

Only model-checked:

* every liveness property, since the prover has no rules for fairness or `ENABLED`: `WriteErrorEndsDump`,
  `WrittenDumpEnds`, `ExitCompletes`, `NspDumpEnds`, `WrittenExtractionEnds`, `ClosedViewGoes`,
  `StatusSettles`, `SilentDeviceLeaves`, `ConnectComesBack`.

The runs that refute something need no proof: TLC's behaviour is one.

## 5. What is not modelled

The contents of a card and the arithmetic of reads across its two areas; lists of installed titles; how a
header, a key area or a hash patch of an NCA is computed (that a patch is applied is modelled); the
lookups of PFS, HFS and RomFS tables and saves; malformed bucket trees, and with them the alignment checks of
their entries; directories with no file below them in the file browser; USB mass storage, whose closing
order depends on a library outside the repository; initialisation order; cryptography; virtual devices;
views other than the two that own downloads; vendored code; FriishProduce apart from its network window.
The reasons are in `PROJECT.json` under "components", and hazards without a property under "hazards".

## 6. Plan

1. Done: `DumpService`, `DumpPipeline`, `UsbSession`, `GameCard`, `Discovery`, `NetworkExtraction`,
   `DownloadTask`, `NspDump`, `ExtractedDump` and `ContentReads`, with the proofs of all their safety
   properties.
2. `CardRead`: `gamecardReadStorageArea` as an algorithm against a flat read, over all small offsets and
   sizes; the card swapped between two reads of a dump.
3. `MassStorage` and `Resources`: populate callback against exit; initialisation with a failure at every
   step and the closing that follows.
