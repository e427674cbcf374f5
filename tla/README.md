# A TLA+ model of the distributed store in `cloud_storage`

`cloud_storage` is rclone with one subsystem of its own. `rclone dis_upload`
encrypts a file, cuts it into Reed-Solomon shards and spreads the shards over
the configured remotes; `dis_download` fetches them and restores the file;
`dis_rm` deletes them. What is where is recorded in `datamap.json`. This
directory models that subsystem in TLA+: TLC checks it on small instances, and
TLAPS proves the main safety results for every instance. Around it, and modelled
too, are a GUI that starts the commands and keeps their files encrypted under a
password, and a load balancer that chooses remotes.

The rest of the repository is upstream rclone (backends, sync engine, VFS) and
a vendored Reed-Solomon library. It enters the model only through what the
subsystem asks of it: a copy or a delete of one object, and how such an inner
command may end.

## Inventory

| Component | Code | State it keeps | Operations |
|---|---|---|---|
| datamap | `fs/dis_operations/datamap.go`, `dis_metadata.go` | `datamap.json`: per file Flag, State and, per shard, Remote and Check | MakeDataMap, UpdateFileFlag, UpdateDistributedFile_*, ResetCheckFlag, RemoveFileFromMetadata, GetUncompletedFileInfo |
| dis_upload | `dis_upload.go`, `hash.go` | shard directory, objects | duplicate test, DoEncode, renaming to hashed names, a pool of workers: allocate, copy, record, erase |
| dis_download | `dis_download.go` | shard directory, destination | flag, a pool of workers: fetch, rename, record; DoDecode; reset; clean-up |
| dis_rm | `dis_rm.go` | objects, datamap | flag, a goroutine per shard: delete, mark; reset; drop the entry |
| CheckState | `dis_status.go` | none | looks for a flagged entry before every command, dumps what it finds |
| erasure codec | `reedsolomon/streaming.go` | shard files | DoEncode, DoDecode (Verify, Reconstruct, Join, Decrypt) |
| command runner | `cmd/cmd.go` | exit codes, retries | RunWithSustainOS, resolveExitCode |
| load balancer | `dis_loadbalance.go` | `loadbalancer.json` | AllocateRemote by four policies |
| GUI | `gui/main.go` | shard directory on close | starts the commands as processes |
| password vault | `dis_password.go` | encrypted metadata files | encrypt and decrypt around a GUI session |
| dis_config | `fs/dis_config/config.go` | configuration files | synchronisation with the remotes (callers commented out) |
| dis_ls | `dis_ls.go` | none | prints names |

How they interact. A command is a process. It first runs CheckState, which may
call Dis_rm or reset flags for a command that died before; then Dis_Upload,
Dis_Download or Dis_rm. All three share `datamap.json` (a mutex within one
process), the local shard directory (no lock, no owner: a file there is used by
whoever finds it) and the remotes. Inner copies and deletes are rclone commands
run in the same process, so they may end it (`os.Exit`), return, or swallow an
error. Dis_Upload calls Dis_rm for a duplicate, Dis_Download calls it when the
user gives up a file that cannot be decoded.

What is hard: the process may die between any two steps, and recovery works
from what is left in `datamap.json` and in the shard directory; shards of one
file are treated by goroutines in any order; several steps can fail alone;
leftovers of dead commands are reused without asking who wrote them; the pools
count workers and jobs in one WaitGroup.

What makes the components correct:

* datamap and CheckState: whatever died before, one repair is enough
  (`OneUnfinished`); the file behaves as the atomic map the commands take it for
  (`UpdatesAtomic`), and what was stored stays listed (`ListedStays`). That a
  death is noticed (`DeathIsNoticed`) the code does not meet.
* dis_upload: an upload that is recorded as finished is on the remotes, whole,
  until somebody removes it (`StoredWhole`).
* dis_rm: nothing is forgotten while it exists (`NoOrphan`; with crashes the
  code does not meet this: `ForgottenAfterGone`).
* dis_download: success means the right file is restored (`DownloadSound`; not
  met with damage: `DownloadedMeansRestored`), and stale shards are never mixed
  in (`LocalFresh`).
* all commands together: each takes effect in one step or not at all
  (`OnShelf`); commands end (`CommandFinishes`); closing the window under one of
  them takes nothing from the files of others (`OthersComeBack`).
* codec: every size gets an acceptable number of shards (`ShardLimit`), any
  `dataShards` whole shards restore the file (`IntactRestores`), shards rebuilt
  from damaged ones are not used (`RebuiltRight`), decoding ends (`DecodeEnds`).
* pools: the caller goes on exactly when all shards are treated
  (`WaitGroupCounts`, `ReturnSound`, `WaitReturns`).
* load balancer: shards are spread evenly (`Balanced`), or to the fastest remote
  (`FastestChosen`), and a call fails for a cause only (`ErrorHasCause`). That the
  remote chosen is still configured the code does not see to.
* vault: no file is lost or encrypted twice (`NothingLost`, `SealedOnce`), the
  right password opens (`RightPasswordOpens`; not after a death of an open
  window: `RefusedMeansIncorrect`), and shows the newest files (`OpenIsCurrent`).

## Modules

| Module | What it is |
|---|---|
| `DataMap` | `datamap.json` as a function of names to FileInfo records, one operator per operation of `datamap.go` |
| `DisStore` | the state machine: commands, CheckState, goroutines, remotes, shard directory, faults |
| `Shelf` | abstract: a file is on the shelf or not; what `DisStore` implements |
| `UploadPool` | the worker pool of `startUploadFileGoroutine_Worker`: channel, workers, WaitGroup |
| `AtomicMap` | abstract: a map that each call of `datamap.go` changes in one step |
| `DataMapFile` | `datamap.json` as a file: mutex, read, truncate, write; several processes |
| `LoadBalancer` | the four policies and `loadbalancer.json` |
| `ErasureCodec` | DoEncode and DoDecode, block by block |
| `Vault` | encryption and decryption of the rclone directory by the GUI |
| `MCDisStore`, `MCDataMapFile`, `MCLoadBalancer`, `MCVault` | TLC instances; claims of the docs that the code does not meet |
| `DataMapProofs` | lemmas: what each operation of the map changes and keeps |
| `DisStoreProofs` | type correctness; at most one unfinished command; uploaded files stay whole until they are removed |
| `FreshProofs` | no stale shard, sound downloads, no forgotten object, the refinement of `Shelf` |
| `DataMapFileProofs` | calls of `datamap.go` are atomic; uploads stay listed |
| `LoadBalancerProofs` | failures have causes; the fastest is chosen; round robin is even |
| `VaultProofs` | no file is lost, encrypted twice or shown stale; the right password opens |
| `UploadPoolProofs` | the WaitGroup is exact; the pool returns soundly |
| `CodecProofs` | the codec: types, acceptable numbers of shards, rebuilt cells verified before Join, whole shards restore the file |

How they fit together. `DataMap` gives the operations on the map to `DisStore`,
`AtomicMap` and `DataMapFile`. `DisStore` applies each of them in one step, which
`DataMapFile` justifies where it does (`UpdatesAtomic`); it lets AllocateRemote
return any remote or fail, which covers what `LoadBalancer` does; it goes on
after a pool when all shards are treated, which `UploadPool` justifies; and it
knows DoDecode by its outcome, which `ErasureCodec` opens up. `Vault` stands
alone: it follows the close handler file by file. `DisStore` knows the close
handler by what it does to a running command: the map, `password.txt` and the shard
directory are gone, and the encrypted map comes back later.

### DisStore and the code

State. `datamap` is the JSON file. `store[r][f][s]` is the object of shard `s`
of file `f` in the Distribution directory of remote `r`; `hashed` and `plain`
are the two names a shard file may have in the local shard directory (the hash
under which it travels, and `<file>.fcef.<i>`). The content of a shard is the
number of the encoding it was cut from: DoEncode encrypts anew each time, so
shards of two uploads of a file never fit together. `0` is no file (or an empty
one, which openInput treats alike) and `-1` is a damaged one. `pc` is where the
main goroutine is, `phase[s]` where the goroutine that treats shard `s` is, and
`dst[s]` the remote in its own copy of the DistributedFile. `window` is the GUI's
window, `sealed` the encrypted `datamap.json` while it is closed, and `keyOf[e]` the
`password.txt` that encoding `e` was encrypted with: while the window is closed,
tryGetPassword finds none and makes another.

Actions. One action per step that another goroutine, a crash or a fault can
separate from the next:

* `Start`: a command line arrives; `path` says whether the file was named with
  a directory, which decides whether it is a key of the map. A retry by
  `cmd.Run` is a Start of the same command, so every retry is among the
  behaviours.
* `CheckState_Clean`, `DumpUploadState`, `DumpDownloadState` + `DumpReset`,
  `DumpRmState`: CheckState. In `CheckState_Unread` CheckFlagAndState can not read
  the map, prints that and finds nothing unfinished; in `CheckState_Fails` a dump
  returns an error, and the command ends with it.
* `Dis_Upload`, `DoEncode`, `ConvertFileNameForUP(s)`, `createHashNames_End`,
  `StartUpload` (MakeDataMap), then per shard `AllocateRemote`, `uploadFile`,
  `updateRemoteInfo_Up`, `EraseTempShard`, then `UploadWait`, `UploadFinish`.
* `Dis_Download`, per shard `downloadFile`, `ConvertFileNameForDo`,
  `updateRemoteInfo_Down`, then `DownloadWait`, `DoDecode` (five outcomes),
  `AskRemove`, `DownloadReset`, `DownloadClean`.
* `Dis_rm`, `RmNew` / `RmResume`, per shard `remoteCallDeleteFile`,
  `MarkRemoved`, then `RmWait` (ResetCheckFlag) and `RmDrop`
  (RemoveFileFromMetadata): two writes, hence two actions.
* the error returns of the calls on `datamap.json`, which come from an entry that
  is not there (the window was closed under the command) or from a file that can
  not be read or written (`file`), both in `NoEntry`: `Dis_Upload_Fails`,
  `Dis_Download_Fails`, `Dis_rm_Fails` end the command; `Dis_Download_Unlisted` and
  `RmNew_Unlisted` do after the flag was written. In the goroutines they are
  disjuncts of `updateRemoteInfo_Up` (the copied shard is not recorded, or it is
  and its throughput is not; either way it is not erased and the upload ends in an
  error), `updateRemoteInfo_Down` and `MarkRemoved`.
* the close handler: `cleanShardFolderOnExit` where no command runs (the map is then
  back before the next one), or where the encryption failed; `encryptFilesOnExit`,
  `RemoveOriginals` and, at the next opening, `DecryptAllFilesInPath` where one does
  run (`midway`).
* faults: `Crash`, `LoseObject`, `DamageObject`, `MoveSource`, and, inside the
  actions above, a failed allocation (`alloc`), a swallowed error (`silent`) and
  the two of `datamap.json` (`file`, `unread`). `MaxFaults` is a set of bounds, each a
  number for every kind; the faults of a behaviour keep to one of them. After `unread` and `midway` (`Blinding`) CheckState does not see what
  earlier commands left.

Abstractions. Names, sizes, paddings and checksums are functions of the file,
the shard index and the encoding number, and are left out. Which remote the
load balancer picks is left open (`\E r`), which covers its policies. Reading
and rewriting `datamap.json` is one step: `DataMapFile` takes it apart. DoEncode, DoDecode and the loops of
the dumps are one step each. An object that is damaged keeps its length: a
truncated one makes DoDecode fail, which is the outcome of too few shards.
`doomed` is a history variable: the file's removal has begun. A failing call
leaves `datamap.json` as it was; what a write that fails or dies half-way leaves is
in `DataMapFile`. The encryption and the decryption of a closing and a reopened
window succeed here; what their failures leave is in `Vault`. filecrypt is taken
to reject what was encrypted with another password.

`UploadPool` opens up what DisStore takes for granted of `UploadWait`: workers,
buffered channel, `wg.Add`, `wg.Done`, `close`, and the `continue` at
`dis_upload.go:267`. The download pool has the same shape without allocation.

The Shelf. `Library` maps DisStore to `Shelf`: a file is on the shelf while its
entry counts (`Kept`: recorded, not being uploaded, removal not begun), as the
encoding the entry names, and what was delivered is the last file restored. All
the copies, deletes, renames and writes of a command are stuttering steps but
one: `UploadFinish` puts a file on, the first write of a removal takes it off,
`DoDecode_Restored` delivers it.

### DataMapFile and the code

`kind` and `content` are the file: missing, empty (just truncated), torn (a
prefix of JSON) or whole. Each goroutine's call of `datamap.go` is five steps:
lock and read (`ReadAndChange`; MakeDataMap and RemoveFileFromMetadata take no
lock), `Truncate`, `WriteBegin`, `WriteEnd` with unlock and return, or an error
on the way (`ReadError`, `WriteError`). Around the calls is the map's side of
each command: `Start` (only commands CheckState would let run now, the repairs
included), `Lookup`, `List`, the pool, `PoolEnd`. `Kill` ends a process anywhere.
`Durable` maps the file to `AtomicMap`: a change counts from its truncation on,
because from then on the old map is gone and nothing but the new one can be
written. `spoilt` and `together` are history variables that say a write was cut
short and two processes overlapped; no command starts after `together`, since
no property says anything from then on.

What overlapping processes do: a process that reads between another's
truncation and its write finds a map without entries, and an upload then writes
that map with its own entry only. TLC finds this at once when `~together` is
taken out of `ListedStays`. Nothing in the repository claims otherwise, so there
is no run for it.

### LoadBalancer and the code

`info` is `loadbalancer.json`, `config` the list of GetRemotes. A call
(`AllocateRemote` with a policy, or `UpdateRemoteInfo`) begins by creating a
missing file in two steps, reads it, and may rewrite it in two. Unlike
`datamap.json` an empty file cannot be parsed, so a kill inside a write or a write that fails (`spoilt`) makes the later calls that read it fail: round robin,
the throughput policies, which fall back to it (`FallBack`), and UpdateRemoteInfo.
ResourceBased does not read the file. Each system call may fail (`fails`, bounded
by `MaxFails`): in `getLoadBalancerJsonFilePath_Fails` and `WriteDefaults_Fails` the
path is `""` and readJSON fails; `readJSON_Fails`; in `writeJSON_Fails` os.WriteFile can
not open the file, which stays, or leaves part of it. UpdateRemoteInfo returns the
error of its write; LoadBalancer_RoundRobin ignores that of
IncrementRoundRobinCounter (line 58), so the same remote is picked again. Left
out: an os.WriteFile that returns an error after all was written, and the close
handler's encryption of the file, which makes it missing. `UpdateThroughput` keeps the last `MaxEntries` speeds, and its
"average" is their maximum, as in `maxSpeed`. ResourceBased asks every remote
once per process (`saved`), and any remote that answered may be the largest; it
returns the empty Remote when all answers are zero. The pools call under one
mutex, so a process is in one call at a time; processes are not kept apart.

A remote that is deleted from the configuration stays in RemoteInfos; if it was
the fastest, the Optima policies keep choosing it and every upload fails, although
`src/cmd/dis_upload/dis_upload.go:35` says the distribution "will select all
remotes accessible at the time of call". `FastestChosen` claims nothing of such a
choice: it is about remotes that are configured. When it is asked that the
remote chosen (`got'[p]`) be in `Configured`, TLC finds the deleted one after two
calls and an edit.

### ErasureCodec and the code

Sizes are in cells; a shard is a sequence of cells, a cell is the number of its
row (its offset) when it holds the right bytes, `Bad` when damaged, `Rebuilt` when
computed from a row with a bad cell. `calculateShardsNum` is the loop over the
flags, which are variables of the process and keep their values in a retry.
`Split` gives the padding. Decoding follows DoDecode: rounds of Verify over
blocks (`VerifyRound`, with the rule of `readShards` for short reads),
reconstruction block by block and writer by writer (`ReconstructRound`,
`WriteShard`), the second Verify, `Join`, `trimPadding` and the decryption,
which accepts the exact ciphertext only. Shards may be lost, cut or damaged
before the download, and the download may die between any two steps; the next
one runs DumpDownloadShards and fetches again.

Two things the model shows that no property forbids: a shard cut at a block
boundary makes Verify stop there and answer true, and Join then fails although
enough whole shards are there; a damaged shard with none missing ends in the
nil error of `damaged_shard` (`"hollow"`). Neither restores a wrong file.

### Vault and the code

`dir` gives the content of each path, a path being a name with 0, 1 or 2
suffixes `.fcef`, and a content a version under layers of encryption. `Close`
and `EncryptFile`, then `RemoveOriginal`, are the two passes of
EncryptAllFilesInPath in the close handler; `Unlock` and `DecryptFile`, then
`RemoveEncrypted` or `RemoveDecrypted`, those of DecryptAllFilesInPath. Every
file is a step of its own, may fail, and the GUI may die at it (`Kill`), leaving
the file being written cut short. The lists of paths that the passes go through
are always in the order of filepath.Walk, so `todo` and `done` are sets and
`First` gives the next path. `CommandWrites` are the commands, which are
processes and outlive the window: `late` counts their writes while it is not
open. Assumed of filecrypt: it refuses a file cut short, and with a wrong
password it refuses or produces garbage. One GUI runs at a time.

## Runs

Passing:

| Run | Instance | Checks |
|---|---|---|
| `crash_recovery` | 2 files, 2 shards (1 needed), 2 remotes, 2 encodings; 2 crashes, or 2 failing calls on `datamap.json` or `loadbalancer.json`, or the window closed under a command | `OneUnfinished`, `StoredWhole`, `LocalFresh`, `DownloadSound`, `OthersComeBack` |
| `disturbed` | 1 file, 3 shards (2 needed), 2 remotes, 2 encodings, 1 crash, 2 losses, 1 clean-up, 1 move | `DownloadSound`, `NoOrphan`, `OnShelf` |
| `every_fault` | 1 file, 2 shards, 1 remote, one fault of each kind: `file`, `unread` and `midway` together, or all others together; no destination, fairness | `TypeOK`, `CommandFinishes` |
| `pool` | 3 workers, 4 jobs, the second allocation may fail, fairness | `TypeOK`, `ReturnSound`, `WaitGroupCounts`, `WaitReturns` |
| `datamap_file` | 2 files, 2 shards, 2 processes, 3 commands, 2 kills or failed writes | `TypeOK`, `ListedStays`, `UpdatesAtomic` |
| `load_balancer` | 2 remotes, 2 speeds, history of 1, 2 processes, 4 calls, 1 kill, 1 failing system call, 1 edit | `TypeOK`, `Balanced`, `FastestChosen`, `ErrorHasCause` |
| `vault` | 4 files, 2 passwords, 2 versions, 2 deaths or failures, 1 late write | `TypeOK`, `NothingLost`, `SealedOnce`, `OpenIsCurrent`, `RightPasswordOpens` |
| `codec` | sizes 1, 5, 6, 8; 2+2 or 2+1 or 4+2 shards; blocks of 2; 1 retry, 2 losses, 1 hurt, 1 death, fairness | `TypeOK`, `ShardLimit`, `IntactRestores`, `RebuiltRight`, `DecodeEnds` |

Why the bounds are enough to be interesting: two files and two crashes let a
command die, the recovery of it die, and a command on the other file come in
between; two encodings let an upload overwrite another one whose leftovers are
still in the shard directory; three shards of which two are needed give every
relation to the threshold (more, exactly, fewer), before and after a loss; of
two failing calls one may end a command and the other its repair; with two
files one is stored while the other is uploaded, fetched or removed when the map
goes (`Claimed` stops `crash_recovery` where the window is open again, since none
of its properties says anything then; `every_fault` goes on);
three workers and four jobs make a worker come back for a second job while
others exit. In `datamap_file` three commands are an upload, one that dies and
its repair, and two shards make goroutines compete for the mutex; two processes
overlap in every way until no more is claimed. In `load_balancer` four calls go
round two remotes twice, or fill a history and overwrite it. In `vault` two
deaths hit an encryption and the decryption after it; one version would hide
stale files, so there are two. In `codec` the sizes give no padding, some, and
a whole shard of it, and shards that end inside a block and at its end; two losses
are at, and above, the parity. Files, shards and remotes are interchangeable,
which the symmetry sets of the safety runs use; the runs with liveness
properties use none.

Deadlock is checked except where the system really stops: `every_fault` and
`pool` (an upload whose allocation failed waits for ever, and a function
returns), and the runs of the bounded environments, where no command, call, death
or download is left to happen.

Violations, each of a sentence of the repository, quoted in `PROJECT.json`:

| Run | Claim | What happens |
|---|---|---|
| `resumed_rm_leak` | `ForgottenAfterGone` | Check marks of the upload are taken for deletions by a resumed removal |
| `damaged_shard` | `DownloadedMeansRestored` | one damaged shard: success is reported, nothing is restored |
| `forgotten_map` | `DeathIsNoticed` | a kill between truncation and write of `datamap.json` empties the map |
| `lockout` | `RefusedMeansIncorrect` | the GUI dies with its window open: the right password is refused for ever |

More disagreements of this kind are in the model without a run of their own:

* a crash between the copy of a shard and its record leaves an object that the
  dump of the upload does not remove (`dis_upload.go:196`; `NoOrphan` asks that
  no process died);
* a copy whose record fails leaves such an object too, without a crash
  (`dis_upload.go:232`); one whose throughput record fails is known, with Check
  true, and its hashed shard stays in the shard directory through the dump
  (`dis_upload.go:236`), so that one death is enough to deliver a failed upload
  (`NoOrphan` and `OnShelf` ask that no such call fails);
* closing the window under an upload removes the map it is recorded in: the
  upload goes on with errors, or into a fresh map that the next opening
  overwrites, and a finished upload is forgotten (`gui/main.go:229`; only `OthersComeBack`,
  `CommandFinishes` and the types hold from then on);
* CheckFlagAndState takes a map it can not read for one in which nothing is
  unfinished, and an upload, download or removal runs on top of another
  (`datamap.go:239`);
* a remote that was deleted from the configuration keeps being chosen for its
  old throughput (`dis_loadbalance.go:306`);
* a round-robin counter that can not be written is ignored, and the same remote
  is picked again (`dis_loadbalance.go:58`; `Balanced` allows one for each failure);
* a crash between the two writes that end a removal leaves an unflagged entry
  without objects (`dis_rm.go:60`; on the Shelf the file is gone all the same);
* an inner delete whose error has no exit code is reported as a success
  (`cmd.go:519`; the fault `silent`);
* one failed allocation and `wg.Wait` never returns (`dis_upload.go:267`;
  `WaitReturns` and `CommandFinishes` except it);
* with two deaths, of an upload and then of its clean-up between its last two
  writes, a later download can deliver the upload that failed, from shards still in the
  shard directory; one death is enough where the download directory does not
  exist at first, because the download that creates it restores nothing and
  leaves its shards there. `OnShelf` is checked and proved with one death
  and an existing directory, and proved without deaths for a missing one.

Two others need no model checker, since one plain call shows each. A download into a directory that does not exist creates
it, reports success and restores nothing (`DoDecode_NoDestination`;
`streaming.go:280` returns the nil of `os.Mkdir`), which is why `DownloadSound`
asks for `DestReady`. And a duplicate that is named with a directory, as the
GUI names it, is an error, because the duplicate is found under its base name
and removed under the name of the command line (`Dis_Upload`;
`dis_upload.go:87`).

The passing safety properties say under which faults they hold
(`Never({...})`): they are stated for exactly the faults the code handles.

Fairness. `DisStore!FairSpec` assumes weak fairness of the process as a whole:
the Go scheduler runs goroutines that can run, inner commands return and
prompts are answered. Crashes, faults and new commands are never assumed to
happen. `UploadPool!FairSpec` assumes weak fairness of the caller and of each
worker, for the same reason, and `ErasureCodec!FairSpec` weak fairness of
DoDecode, which is one goroutine without a wait.

Each property has a mutant, an operator next to the definition it replaces,
that breaks the code the way a slip would (a forgotten `wg.Done`, a rename that
does not replace, a field not written) and that TLC must refute.

## Proofs

All theorems hold for arbitrary sets of files and remotes, any finite set of
shards and any bounds. They use the assumptions that the modules declare
(`NoRemoteAssumption`, `NeedAssumption` and `BoundsAssumption` for DisStore,
`CutsAssumption` and `MainAssumption` for DataMapFile, `RemotesAssumption`,
`SpeedsAssumption` and `LimitsAssumption` for the load balancer,
`WorkersAssumption` and `JobsAssumption` for the pool, `CodecAssumption` for the
codec, `VaultAssumption` for the vault), nothing else. Each invariant named below
was checked with TLC on the instance of its run before it was proved.

* `DataMapProofs`: for each operation of the map, that the result is a map, which
  entry changes and which fields of it. The proofs below see the map only
  through these lemmas.
* `TypeCorrect`: `Spec => []TypeOK`, in three parts (process, data, environment),
  each preserved by every action.
* `AtMostOneUnfinished`: `Spec => []OneUnfinished`. The property alone is not
  inductive: Dis_Download, MakeDataMap and Dis_rm set a flag without looking at
  the others. It holds while CheckState sees the map (`Seeing` steps; after one of
  the `Blinding` faults nothing is claimed, here and in the next results). `FlagInv` adds that outside of CheckState only the file the
  process works on may be flagged, and only while it works on it
  (`OnlyTarget`), and that the file worked on is the command's own before the
  command proper begins. Four lemmas (`FlagsKept`, `FlagsAtEnd`,
  `FlagsCleared`, `FlagsSet`) say how a step may treat flags, and one lemma per
  group of actions applies them.
* `StoredStaysWhole`: `Spec => []StoredWhole`. The invariant behind it,
  `StoredInv`, has three parts. `ModeInv` ties the process to the map: where a
  download or an upload runs, the entry says so, and a removal that is recorded
  or running has been noted in `doomed`. `UploadSafe` follows an upload shard by
  shard: what is renamed, copied and recorded is of the newest encoding, and a
  goroutine that ends without an error leaves its shard stored and recorded.
  `KeptWhole` is the property itself. `OthersUntouched` settles every file but
  the one worked on in one lemma: no command writes an entry or an object of
  another file. For the file worked on, each action either keeps its objects,
  or runs while it is flagged as an upload, or after its removal was noted, or
  is UploadFinish, where `UploadSafe` gives the result. `FlagInv` is needed too:
  Dis_Download may set State to "download" only because nothing was flagged.
* `NoStaleShard`, `DownloadRestores` and `NothingForgotten` (`FreshProofs`):
  `Spec => []LocalFresh`, `[]DownloadSound` and `[]NoOrphan`. A shard of an earlier
  upload would fit into the shard directory under the same name, so the invariant
  (`AllFresh`) says of every place a shard can be, local or remote, that it holds
  nothing or the encoding of the entry. It is preserved because a new entry is
  made only after DoEncode and createHashNames replaced all local files
  (`CutFresh`) while the name has no entry (`PathInv`), and a remote is recorded
  only after this upload's shard was copied there (`SentFresh`). DoDecode then
  never sees a mixture, and what it writes is the encoding of the entry
  (`RestoredOut`). For `NoOrphan` an object is followed from the copy to its
  record and from there to the delete that precedes the mark; it needs that nobody
  died and no call on `datamap.json` failed, as the list of disagreements shows.
* `StoreIsShelf` (`FreshProofs`): `Spec /\ []Mild => OnShelf`, the refinement of
  `Shelf`. `Mild` is what the property needs: nothing damaged, no silent failure, no
  failing call on `datamap.json` or `loadbalancer.json`, no window closed under a
  command, at most one death, and none where the download directory is missing
  at first (TLC refutes it with more). Every step maps to one step of the Shelf or to none:
  UploadFinish puts the upload on it, the first write of a removal takes it off,
  DoDecode delivers it. The hard step is DoDecode, since a removal that a death
  interrupted leaves an entry which no longer counts and may still be downloaded.
  `ShelfInv` says that encodings are numbered, no two entries and no file that
  was delivered having the same one (`Numbered`), that uploads that count have
  all their remotes recorded (`RemotesKnown`), and that such an entry has no
  objects left and too few local shards to decode, unless what would be decoded was
  delivered before (`GhostsOnly`). The last part is true of every entry that no
  transfer is about as long as nobody died (`LocalHarmless`, which rests on
  what renaming, erasing and the clean-up after a download leave, `Emptied`).
* `CallsAreAtomic` and `UploadsStayListed` (`DataMapFileProofs`):
  `Spec => UpdatesAtomic` and `Spec => []ListedStays`, with `TypeCorrect`. A
  process calls `datamap.go` at certain stages only, and only the pool calls it
  from several goroutines (`ControlInv`); there the mutex lets one in (`MutexInv`).
  While one process runs at a time, what a goroutine is about to write is
  therefore the file's map with its one call applied (`FileInv`), which makes
  the write a step of `AtomicMap`. `HistoryInv` says what a command has done to
  its file at each stage; with it a finished upload is listed for good.
* `FailuresHaveCauses`, `ChoosesFastest` and `SpreadsEvenly`
  (`LoadBalancerProofs`): `Spec => ErrorHasCause`, `Spec => FastestChosen` and
  `Spec => []Balanced`, with `TypeCorrect`. `FileInv` says that the pending write
  of a call is the file's content with one change, and that the histories are
  the newest `MaxEntries` of all transfers. For the even spread the invariant
  (`EvenInv`) says that there is a position the picks started from, such that
  the remotes between it and the counter, around the circle, are one pick
  ahead; the counter is taken modulo the number of remotes, and `NextTurn` and
  `LeadNext` say how the arc grows by one and closes. A pick whose process dies
  before the counter is written moves the picks and not the counter, and so does
  one whose write fails, since the error is ignored: `Lost` is what `cuts` and
  `fails` allow, and `LossEven` and `FailEven` say how such a step uses one of it.
* `VersionsSurvive`, `EncryptedOnce`, `OpensCurrent` and `RightOneOpens`
  (`VaultProofs`): `Spec => []NothingLost`, `[]SealedOnce`, `[]OpenIsCurrent` and
  `Spec => RightPasswordOpens`, with `TypeCorrect`. The invariant `Kept` says of
  each file that its newest version is there in the clear or encrypted under the
  user's password, and that an encrypted file is that version or cut short. Each
  pass has a conjunct of its own: a file in the clear is deleted only where the
  encrypted one is the newest (`SealInv`, `StripInv`, `UndoInv`), an encrypted one
  only after the password was found to be the user's (`OpenInv`, `UnsealInv`).
  Late writes void this for the file they hit, never for the password file
  (`Sure`). `RightOneOpens` needs `OpensInv`, that a GUI which never ended with
  files in the clear finds the encrypted password file and no file cut short;
  it holds through the deletion of the encrypted files because the password
  file is the last in the order of the Walk (`UserLast`).
* `CounterIsExact` and `PoolReturnsSound`: `Spec => []WaitGroupCounts` and
  `Spec => []ReturnSound` for `UploadPool`, with any finite set of workers, any
  number of jobs and any failing allocations. The counter is exact by itself;
  that the return is sound needs in addition that all workers were born and all
  jobs sent before the caller waits (`Started`), that only received jobs are in
  hand or uploaded (`Held`), and that as long as no error is listed a received
  job is uploaded or in a worker's hand (`Settled`). At zero no worker lives and
  no job is open, so every job was received, and is uploaded or an error is
  listed.

* `PoolTypeCorrect`: `Spec => []TypeOK` for `UploadPool`, from the same invariant.
* `ShardsAccepted`: `Spec => []ShardLimit` for `ErasureCodec`. The loop of
  calculateShardsNum starts from whatever an earlier call left in the flags, so
  the invariant (`FlagsOK`) says what that can be: the number for small files,
  or a positive multiple of the step, at most the default. The assumption on the
  constants is what the code's 170, 10, 5, 3 and 256 satisfy.
* `TypeCorrect` of `CodecProofs`: `Spec => []TypeOK`, from `Typed`. Its core is that
  no reader comes beyond the end of its shard, for any block size, any cuts and
  any lengths the buffers were trimmed to.
* `RebuiltCellsRight`: `Spec => []RebuiltRight` for `ErasureCodec`. Verify stops at
  the first shard that ends where a block does, and so does Reconstruct, which
  may have trimmed its buffers before; a rebuilt cell behind the row where
  Verify stops would reach Join unseen. The invariant (`CellInv`) says how far
  each loop is: Reconstruct has read whole blocks of all fetched shards
  (`WholeBlocks`), or has come to the end of one, and then no shard that ends at a
  block's end is shorter than what was rebuilt (`AtEnd`); so the rebuilt shards
  are not longer than any such shard when Verify runs (`LengthInv`), and all rows
  up to `read` were seen to be codewords (`VerifyInv`, `JoinInv`). A codeword with
  more fetched cells than data shards has no cell rebuilt from damaged ones.
* `IntactIsRestored`: `Spec => []IntactRestores` for `ErasureCodec`. The invariant
  (`IntactInv`) follows a file of which no shard was hurt and at most `parShards`
  were lost through one download: what is on the remotes is whole or missing
  (`RemoteWhole`); the readers of the whole shards keep pace, by blocks and then by
  the rest (`Paced`), so they give the same and `readShards` has no cause to fail;
  what is rebuilt is the right cells of its rows (`BlockRight`, `LoopRight`), and when
  the readers come to the end the rebuilt shards are whole (`AgainWhole`,
  `JoinWhole`). `FlattenIs` says what Join makes of whole shards, for any number of
  them: by a least counterexample, since the provers have no induction over
  data. `TrimmedIs` says that the cells behind the file are just the ones
  Split filled with zeros. That the encryption adds something (`Overhead` is not
  zero, in `CodecAssumption`) is needed for the empty file, which would have no
  cells otherwise.

Only model-checked: the liveness properties `CommandFinishes`, `WaitReturns` and
`DecodeEnds`, since fairness is out of the prover's reach, and `OthersComeBack`.
Every other invariant, action property and refinement that a passing run checks
has a theorem.

## Not modelled

* The Reed-Solomon arithmetic over bytes: `ErasureCodec` uses its contract.
* A `password.txt` that is lost or changed otherwise than by the close handler:
  `ErasureCodec` decrypts with the upload's password, `DisStore` with another one only
  while the window is closed.
* What the commands do to the throughput record and the allocation while
  `loadbalancer.json` is encrypted: DisStore lets both fail, LoadBalancer creates a
  missing file anew.
* The encrypted temporary file beside the source: nothing reads it again.
* The unused alternatives in the source: cReadShards and cWriteShards, the pools
  with a goroutine per shard, the re-upload and re-download that CheckState has
  switched off.
* dis_config (all callers commented out), dis_ls (read only), the GUI's lists,
  progress bars and dialogs.
* Upstream rclone: backends, sync, VFS. It is by far the largest part of the
  repository, is third-party code, and enters by what the subsystem asks of it.

## Plan

1. Done: `DataMap`, `DisStore`, `UploadPool`, their runs and first theorems;
   `DataMapFile` over `AtomicMap`, `LoadBalancer`, `ErasureCodec`, `Vault`, and
   `Shelf` under `DisStore`; `ShardsAccepted`.
2. Done: the theorems about `DisStore`, `DataMapFile`, `LoadBalancer`, `Vault` and
   `ErasureCodec` above.
3. Done: the refinement of `Shelf` and `IntactRestores`. What TLC checks alone is
   liveness and `OthersComeBack`.
4. Done: the error returns of the calls on `datamap.json` and `loadbalancer.json`, and
   the close handler under a running command, in `DisStore` and `LoadBalancer` and
   their proofs.
