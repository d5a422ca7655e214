# A verification of nmts-recovery

`nmts-recovery` restores the files of an account whose service is gone. From an
NMTS key and a *recovery list* it finds the stored, encrypted parts of every
file, opens them and puts the files on a disk; it does so from a terminal or
from a window, a page in the browser served by the program itself. This
directory holds TLA+ models of what that program does, the TLC runs that check
them on small instances, and TLAPS proofs of what matters most, for every size
of instance.

    tlc -config MCRestore_run.cfg MCRestore       # a run: see "Runs"
    tlapm RestoreProofs.tla                       # a module of proofs

`PROJECT.json` lists components, runs, hazards and theorems, and gives for every
definition that models code the lines it was written from.

## 1. The system

| component (src/…) | state it keeps | operations |
|---|---|---|
| Command line (`recovery/src/args.rs`) | what was read of the line | `parse` |
| Terminal restore (`recovery/src/main.rs`) | the list, the key, the plan, counters, an exit code | `main`, `find_on_network`, `open_from_file`, `account_code`, `proceed`, `do_restore` |
| List opening (`main.rs`, `mapfile.rs`, `kitfile.rs`) | none | `open_from_file`, `open_kit`, `mapfile::parse`, `kitfile::parse` |
| Wallet slot (`wallet.rs`, `crypto/src/opener.rs`) | none | the message to sign, reading slot and signature, `Opener::open` |
| Manifest (`crypto/src/manifest*`) | a document | `from_json`, `to_json`, `minimum_version`, `encrypt`, `decrypt` |
| Plan (`restore.rs` 54-236) | the names given so far | `plan`, `safe_segment`, `deduplicate`, `refs` |
| Restore engine (`recovery/src/restore.rs`) | the temporary file, the hash, the counter of parts, the decryptor; all of it local to one file's turn | `restore_item`, `decrypt_part` |
| Part sources (`source.rs`) | nothing between two parts | `HttpSource::open`, `DirSource::open`, `endpoints_for` |
| Filecoin fetch (`filecoin.rs`) | nothing between two parts | `fetch_piece`, `attempt`, `service_url` |
| NCF-3 framing (`crypto/src/framing`) | a buffer, the next chunk, what was counted | `StreamEncryptor`, `StreamDecryptor`, `decrypt_chunk` |
| Discovery (`discover.rs`, `grpc_web.rs`) | the search: addresses, pages, bundles, the best list so far, what went wrong | `find`, `owned_blob_ids`, `fetch_patch`, `supersedes` |
| Control window server (`recovery/src/gui/mod.rs`) | `Session` (phase, list, bundle, name of the list, job), behind one lock; a channel of events; one thread per request and per restore | `run_with`, `open_map`, `seed_from_network`, `api`, `start_restore`, `run_restore` |
| HTTP admission (`gui/mod.rs`, `gui/http.rs`) | a count of 32 request slots | `serve`, `handle`, reading a head and a body, Host, Origin and token |
| Page (`recovery/gui/index.html`) | the answer of its last poll, the ticks, whether it was closed | `poll`, pick a file, tick, Restore, Choose different files, Finish |
| Codes and keys (`crypto/src/codes.rs`, `phrase.rs`, `kdf`) | none | spelling and reading a code, derivation |
| Sharing (`crypto/src/share.rs`, `share_at.rs`) | none: bundles, addresses, envelopes and the columns beside them | `from_bytes`, `verify_address`, `wrap_dek_for_as`, `unwrap_dek_as` |

How they interact. A run begins with the command line, which decides where list
and key come from. `do_restore` and `run_restore` are the same loop over the
plan: `restore_item` per file, which asks a `BlobSource` for each part and hands
it a closure that reads; `decrypt_part` in the closure pushes what it reads into
a `StreamDecryptor` and writes what comes out. A source calls the closure at
most once per part. In the window, the main thread opens lists and prompts for
the key in the terminal, driven by a channel; every HTTP request is a thread,
every restore is a thread a request started, and all of them share the
`Session`. The page acts on what its last poll showed. A list is found with
nothing but the key by asking Sui nodes what the account's addresses own, and
aggregators for the one patch of each bundle the account can name; the bundle a
list was found in then stays with the session, because the list's own files may
be "in the bundle you found me in". Sharing is a library of the same crate, used
by other programs of the same accounts.

What is hard. In the window: request, restore and main threads interleave,
several decisions are made under one critical section and acted on in another,
and calls are dropped when the server is full. In the restore: nothing is atomic
but the rename, the storage may serve anything in any slices, any disk operation
may fail, the process may die and be run again over what it left, two runs may
share a folder. In the search: nodes and aggregators of two networks, failover in
the middle of pages, and silence that must not read as "nothing is there". In
framing: slices that have nothing to do with the chunks. In the documents:
writer, reader and restore each check, and a gap between them makes a list that
nobody opens. On the line: flags in any order, roads to the key that meet. In
sharing: a server between two people that holds the bundles and the rows.

What makes each part correct:

- *Command line, terminal*: the key comes from where it was named; another
  account is told from a broken file; exit 0 means everything; nothing goes out
  that was not asked for.
- *Manifest*: what is sealed opens; the lowest version is enough.
- *Plan*: a place of its own for every file, inside the folder and writable; an
  address for every part.
- *Restore*: what is at a destination is what was there before or the whole
  file; what was reported is there; a failure costs one file; nothing existing
  is replaced unasked; every file gets an outcome.
- *Sources*: a part is unavailable only if no place has it; nobody is asked who
  should not be; bytes are handed over once.
- *Framing*: a stream comes out one way however it is pushed; a reader is given a
  prefix of it, the whole of it, or a refusal; honest storage is never refused.
- *Search*: a search that reports nothing wrong has found the best list; failures
  cost only what they hit; ties are told.
- *Window*: what it says is so (a prompt, a list, a restore under way, closed), a
  restore never uses another list's bundle, restores end, no slot is lost.
- *Sharing*: a slip of the hand is told; a key reaches the one who was meant and
  nobody else; what opens is what its sender made for that row.

`PROJECT.json` lists the hazards, each at its line, with the properties that
would catch it.

## 2. Modules

| module | what it is |
|---|---|
| `CommandLine`, `KeyText`, `WalletSlot` | the words of the line; which spelling a key has; a key in a slot. `Terminal` EXTENDS them |
| `Terminal`, `MCTerminal` | one run of the program, from its line to its exit code |
| `TerminalProofs` | `RightRoadToTheKey`, `AsksOnlyWhatWasAsked`, `ZeroMeansAll`, `OtherAccountIsSaid` |
| `RecoveryList` | the list as a document and its envelope. `Plan` EXTENDS it |
| `Plan`, `MCPlan` | from an opened list to names and references |
| `PlanProofs` | `WhatIsSealedOpens`, `StampIsEnough`, `NoTwoShare`, `StaysInside`, `EveryPartHasAnAddress` |
| `Restore` | the restore engine over a disk, for any number of runs in one folder |
| `RestorePromise` | what a restore promises, file by file; `Restore` implements it |
| `MCRestore`, `MCRestoreApart` | the files, folders and storage of its runs |
| `RestoreProofs` | types, `FinishedIsWhole`, `ReportedIsThere`, `FailureCostsOneFile`, the implementation of `RestorePromise` |
| `OneAnswer` | the contract of a source; `Fetch` implements it |
| `Fetch`, `MCFetch` | who is asked for a part, and in which order |
| `FetchProofs` | `OnePlaceIsEnough`, `HeldBackIsNotAsked`, the implementation of `OneAnswer` |
| `Framing`, `MCFraming` | the encryptor, the decryptor and the ranged read |
| `FramingProofs` | `SealedIsReference`, `GivenIsPrefix`, `WholeIsWhole`, `HonestStorageIsEnough`, `RangedReadIsRight` |
| `Discover`, `MCDiscover` | the search |
| `MCNetwork` | `Discover` or `Fetch`, for one run |
| `DiscoverProofs` | `SilenceMeansBest`, `OthersStillCount`, `TieIsReported`, `OnlyForABetterOne` |
| `ControlWindow`, `MCControlWindow` | server, threads and page of the window |
| `HttpServer` | which connections become requests |
| `WindowServer`, `MCWindowServer` | `ControlWindow` composed with `HttpServer` |
| `ControlWindowProofs` | of the window: types, `NoForeignBundle`, `PromptIsThere`, `ReadyHasItsList`, `RestoringIsTrue`, `FinishedAddsUp`, `OneRestore`; of both: `CountIsTrue`, and that the rest holds behind the server |
| `Codes` | codes typed by hand. `Sharing` EXTENDS it |
| `MCCrypto` | `Framing` or `Sharing`, for one run |
| `Sharing`, `MCSharing`, `SharingProofs` | identities, bundles, envelopes and the server between them; `SlipIsTold`, `OnlyTheOneMeant`, `OpenedIsWhatWasSent` |

In every module a definition whose comment begins "Mistake:" is not part of the
specification: it is a wrong form of the definition below it, and the run that
checks the named property must find it (`PROJECT.json`, "mutants").

### CommandLine, Terminal

`args::parse` reads a flag at a time (`ReadFlag`, `RefuseWord`, `Tell`) and then
checks the whole (`Coherent`). `Terminal` follows `main` from there: `at` is the
function that runs next (`page`, `message`, `file`, `key`, `search`, `list`,
`proceed`, `restore`, `window`, `derive`), `exit` the code it ends with. A list or a kit
is a record of what the refusals look at; a key's text is its grouping, and
`KeyText` decides between code and phrase as `phrase.rs` does. A found list is
what a search of `Discover` may return; a restore is one outcome per file
(`RestoreItem`), whose inside is `Restore`. A wallet is what it signs: the message,
of which the address is a part.

### RecoveryList, Plan

A document is a sequence of items with a stamped version; each check of `to_json`
and `from_json` is an operator of its name, over fields that are there or not. A
reader may be shown what was sealed, another account's list, an envelope made
for something else, altered bytes, a stream, or what another program sealed
without checking. `sealed.magic` is chance: the random nonce in front of an
envelope may be the four bytes a stream begins with, and `decrypt` refuses such an
envelope unseen.

In `Plan` a name is a sequence of tokens, one for all forbidden characters and
one for all reserved words; what `safe_segment` and `deduplicate` do to a name is
modelled token by token because that is what the properties are about. Plans
are of everything, of what contains a needle (`--only`) or of ticked rows. What is
left to plan is a set of places on the rows asked for, and the next item is at the
first of them; the loops over a name (`trim_end_matches`, `rfind`) are likewise
operators that name the place where the loop stops. Recursion would say the
same and could not be reasoned about.

### Restore

`pc[w]` is the place in `restore_item`: `begin` (the refusals before anything is
created), `create`, `part` (top of the loop over parts), `stream` (inside
`decrypt_part`), `rename`, `remove` (the error path). The plan, `Queue`, is a
constant: names, parts, keys, size and hash as the list gives them. Bytes are
blocks: block `<<h, k>>` is the k-th block sealed under header `h`; that no
other stream can supply it is what framing and its cryptography promise, and
`Framing` checks the framing half of. An answer of the storage is any header
that exists, any number of its genuine blocks, and an end: of the answer, of the
connection, or bytes that are not the next block. A padded part yields more
blocks than it contributes (`keep`), as in `decrypt_part`.

The disk is names (`dir`) and inodes (`data`) because the difference matters:
`File::create` truncates what is there, and a renamed file is the inode some
handle may still be writing to. `Crash` ends the process and runs it again; what
was written stays written. `Intrude` is another program putting a file of its
own where one will be restored. `Healthy` names files that are served and
writable, for `FailureCostsOneFile`; everything may fail for the others.
`PartMisplaced` is defence in depth: parsing a list already refuses one whose
part numbers are out of order.

### Fetch

`endpoints_for` and the order it yields, the loop of `HttpSource::open` over it,
the folder of `DirSource`, and `fetch_piece`: the recorded addresses first, then
the registry, never one address twice, https only. `up` are the places that
answer; the registry may have moved a company, or have nothing. `route` is the list
of addresses the loop goes over, with its repetitions and what it skips, and `due`
the places on it whose turn is still to come. `Places`, which the properties speak
of, says for each kind of part where it may be, and not how the code finds out.

### Framing

Bytes are records that say of which stream, chunk and final mark they were
sealed, from which text, and which byte of the chunk they are; a chunk opens
only from exactly the bytes of one sealed under that header, number and mark.
The encryptor is fed slices of any size; the reader is given any header, then
slices of any size from the storage, which may go on anywhere in any stream
`MaxJumps` times. `ExpectedLen` is `source.rs`'s `expected_stream_len`, checked
equal to what the encryptor produces. `finish` has a loop that seals full chunks
still in the buffer; `push` never leaves one, so the model leaves the loop out.

### Discover

A node answers a page of what an address owns, truthfully for its own network,
or fails at any point; an aggregator has a bundle of its network and its patch,
has never heard of it, fails, or stops part way. Which of these questions may
fail is limited only for the addresses in `steady`, which are needed to state
that one failure does not cost the others (`OthersStillCount`). Deriving
addresses and the name of the patch is cryptography and enters as `Owners` and
`Patch`.

### ControlWindow, HttpServer, WindowServer

One action per critical section of the session lock: `start_restore` is
`BeginRestore`, `ReadBundle` and `Spawn`, because it takes the lock twice and
then starts a thread, and anything may happen in between. `main` is where the
main thread stands (`seed`, `read`, `recv`, `open`, `prompt`, `closing`,
`over`); `slot[s]` a request thread; `run[r]` a restore thread, each of whose
files is a `SettleFile` (what happens inside is `Restore`). `seen` is the answer
of the page's last poll; `shown` the lists whose rows it has had on screen: a
tick is a row number and is not cleared when another list is shown. A *patient*
page sends nothing while something is under way and acts on an up-to-date
picture. `FinishedAddsUp` and `OneRestore` hold for it, and for any page, however many
restores it asks for at once, as long as it has handed over no list (`Steady`); they do
not hold for a page that hands over lists without waiting.

`HttpServer` is a connection's way to the api: the backlog, the acceptor that
counts and drops, the thread that reads a head (in pieces, if the caller likes),
decides from it alone, reads a body and gives its slot back. `WindowServer` lets
the page's requests of `ControlWindow` go that way (`Call`, `Api`), beside other
programs that send what is refused or harmless (`Visit`), and adds what
happens to the page when a call of its is dropped (`CallLost`).

### Codes, Sharing

`Codes` is the arithmetic of `codes.rs` on real bytes: five bits at a time through a
16-bit buffer, the padding, the check symbol mod 37; each loop is a recursive
function from the number of turns to what the loop has by then. `Sharing` has identities,
the bundles that a server may hand out for them (any field another's, any
signature), the addresses that people type (any spelling, any slip), envelopes
and rows that the server may take apart and join. KEM, Diffie-Hellman, signature
and derivation are constructors: equal results come only from equal inputs.

## 3. Runs

| run | instance | what it shows |
|---|---|---|
| `restore` | four files (two parts, one padded; list in the wrong order; wrong hash; one part), three starting folders, every disk operation failing, one crash at any step, no `--overwrite` | a destination is absent, as it was, or whole; what was reported is there; a served file comes back whatever became of the others; `RestorePromise` is implemented; every file gets an outcome |
| `apart` | two restores at once of different files of one folder, `--overwrite`, another program, failing writes and renames | they do not disturb each other |
| `window` | two lists, two request and two restore threads, two lists handed over, two restores asked for, threads that cannot be started, patient and impatient pages; started with a list found on the network or with `--map` | no foreign bundle; prompt and list are what the window says; for a patient page, and for any that has handed over no list, the counters add up and there is one restore at a time |
| `live` | one list handed over, one restore, a window started with `--map` behind a server with room for two requests; two page calls at once and one stranger, who trickles, is refused or is harmless | a restoring window has a restore; the count of requests is true; a restore ends; the page is served again; closed is closed, unless a call was lost |
| `network` | a search or a fetch. Search: three addresses with up to five objects, two pages of two, two nodes of one network, three aggregators of two. Fetch: every choice of named, recorded and allowed endpoints, pieces of two companies, any set of places answering | silence means the best list; failures cost what they hit; ties are told; a kept list only gives way to a better one; a part is given up only if no place has it; nobody is asked unasked; `OneAnswer` is implemented |
| `crypto` | a stream or a share. Streams: four (two of one part, one of another part, an empty one of another key), slices of up to three bytes, two jumps. Shares: three identities with addresses of the real sixteen bytes, every slip in the last two symbols, two in each other place, every swap of neighbours; every bundle with a field of another's; two envelopes | the stream is the reference; the reader's text is a prefix; whole is whole; honest storage is enough; a ranged read is the chunk asked for; a slip is told; a key reaches the one meant; what opens is what was sent |
| `plan` | one part in each of nineteen shapes under every quilt record, alone or second, under versions 1 to 6, two accounts; three files with eleven names that meet; ticks repeated and out of range | what is sealed opens; the lowest version is enough; no two files share a destination; every name is inside the folder and writable; every part has an address of its own kind unless its network is unknown or its bundle is |
| `command` | up to six of nineteen flags with good, bad and missing values; 344 lists and kits; ten spellings of keys; slots and signatures of two wallets | the key comes from where it was named; other account or broken file; exit 0 means all; nobody is asked for what was not asked for |

`Discover` and `Fetch` share no state, nor do `Framing` and `Sharing`: the modules
`MCNetwork` and `MCCrypto` put each pair side by side. A behaviour is one of either, the
other stands where it began, and both are checked as they would be alone.

Runs that must fail show where the program does something else than its own
words say; `PROJECT.json` quotes the words.

| run | property | what TLC finds |
|---|---|---|
| `same` | `FinishedIsWhole` | two restores of one file into one folder share a temporary: one renames it while the other is writing it |
| `silent` | `SilenceMeansBest` | with nodes of both networks, the home nodes' failures vanish when the other network's node answers "nothing" |
| `quiet` | `NoNetworkMeansNone` | `--list --find` and `--print-fetch-plan --find` ask the nodes and the storage, although both modes promise "No network" |
| `cohort` | `NoCohortIsRead` | a quilt record with a blob and a patch on an item of several parts passes the checks of a list, and each part is asked for as a whole blob, the bundle of many files; `restore.rs` says that the parse refuses this shape |

Why these bounds. A restore keeps nothing from one file to the next but the
disk, so four files are enough for what one leaves another, and two parts with a
padded last one for every position of the loop; one crash per run is checked, from
folders that already hold a file or an earlier run's temporary, and `Typed`,
`NothingHalfWritten` and `RestoredStays` hold for any number of them. Two restores
are enough for interference because temporaries and destinations are compared
in pairs, and the proofs lift both limits. The window's decisions span at most two
critical sections of one thread and one of another; two threads of each kind and
two lists give every such pair and one more to arrive late. `MaxConnections` is 2
instead of 32: the page's two calls fill it, or one and the stranger; the proof
of `CountIsTrue` is for any limit. In the search, three bundles suffice for
better, worse and tied and five objects for a third page that is not read. Chunks
of two bytes and slices of up to three cut every chunk and tag in every place, and
straddle two chunks. Each check of a document looks at one item and at one part
or at how many there are, so one part, and one beside a good one, reach every
refusal; three names reach a numbered name that is itself taken. Six flags are a
mode, a list, two for the key, `--out` and one more; the proofs are for any number.
Four numbers of `deduplicate` (`Marks`) stand for the 2^32 it tries.

Deadlock is not checked where the program stops by itself (the restores end,
the window is closed, the search is over, the program exits, a plan is done);
`Framing` and `Sharing` end in a step that does nothing, and it is checked in run
`crypto`.

Fairness. `Restore!FairSpec`: every worker that can take a step takes one. Reads
from the network have a timeout, and nothing else in the loop waits. It asks
nothing of the storage: which answer comes, or how it ends, is free.
`WindowServer!ServerSpec`: every thread of the program runs, and the main thread's
steps include the end of the prompt, so liveness is conditional on the person
answering it; the acceptor takes what is in the backlog, and a read that nothing
arrives for times out. No caller is made to send anything, the page need
never do anything, and a stranger may trickle (`MaxHead` pieces, as the limit on
a head allows).

Behaviour seen with other constants or pages, for whoever changes the models:

- `MaxIntrusions = 1` without `--overwrite`: `KeepsPromise` fails. The destination is
  looked at before the file is fetched and replaced after it.
- A destination called what another file's temporary is called: `ReportedIsThere`
  fails; `Apart` excludes it.
- A rename that fails leaves the temporary behind: its error takes the `?` and
  not the path that removes it (`restore.rs:393`).
- `SpawnFails = TRUE` in `live`: `RestoringIsTrue` and `RestoringEnds` fail. The
  phase is set before the thread exists, and an error answer does not unset it.
- A list opened between the rows and the bundle of a restore (`gui/mod.rs:717`)
  costs the found list its bundle: its own files then have no address. The
  restore reports them as failed; it never takes another list's bundle.
- A list admitted before a restore began may open while it runs, and the window
  is then ready for another: `Steady` excludes just this.
- An impatient page may restore rows of a list it no longer shows: row numbers
  are all that is sent. This is the protocol, and no property is kept for it.
- "Choose different files" lasts until the next poll's answer.
- A page takes a dropped poll in "finished" for the program's end, and does not
  notice a lost request to close: `ClosedIsClosed` excepts exactly these (`lost`).

Seen while modelling, and in the models as the code has it:

- A file called "a" and a folder called "a" give one destination below the other;
  the second fails when it is written, and is reported.
- `print_summary` prints a file's name in the list, and not the number it gets.
- `to_json` asks for the forms of a version and not for the version of the forms:
  a list of version 1 without part numbers is written and read.
- `from_json` has no newest version; only a list file's own marker has one
  (`mapfile.rs`), so a list found on the network is read under any.
- A key of 33 symbols typed in pairs is read as a phrase, and refused;
  the comment at `phrase.rs:193` says that this cannot be.

## 4. Proofs

Every theorem is about a specification of section 2 with constants of any value
that its named assumptions allow; the assumptions say what kind of thing each
constant is, and TLC evaluates them on every run. Where a theorem has a
hypothesis beyond them it is said here, with the run that shows it holds of an
instance or that it is needed.

### RestoreProofs

For any number of runs, files, parts, blocks and crashes, any storage, any disk
faults, any intruders:

- `Typed`: `Spec => []TypeOK`.
- `NothingHalfWritten`: `Apart => (Spec => []FinishedIsWhole)`.
- `RestoredStays`: `Apart => (Spec => []ReportedIsThere)`.
- `OthersComeBack`: `Apart /\ Restorable => (Spec => []FailureCostsOneFile)`.
- `PromiseIsKept`: `Apart /\ MaxIntrusions = 0 => (Spec => KeepsPromise)`, that is,
  `Restore` implements `RestorePromise`.
- `NeverGoesRound`: `Spec => [][OnlyForward]_vars`: every step of a worker settles its
  file, ends a part, goes on to a later step of the part (`Rank`) or reads one more
  block of the answer, within what the list says there is, and only a crash takes a
  worker back. From `Local`, so it holds for files that are not kept apart too.

`Apart` says that no two files have one destination, none is called what a
temporary is called, two runs share no temporary, and no two names of the
starting folder are hard links. Run `same` shows that it cannot be dropped;
`MCRestoreApart` has TLC evaluate it for run `apart`. Its first part is, for one
plan, `PlanProofs!DestinationsDiffer`. The assumption `Tiled` says that a part
starts where the parts before it end, which is how a list describes a file.
`Restorable` says that the list is right about the healthy files, and that they may
be written over or that nothing is in their place and nobody puts anything there.

`FinishedIsWhole` alone is not inductive: the step that matters is the rename,
and what it moves is a temporary no invariant spoke of. The inductive invariant
is `Local /\ Disk`. `Local` relates the variables of one worker: at `stream`, the
header being read is the one expected at this position, `got` blocks of it have
opened and `put` is exactly the blocks of the parts before this one and the first
`min(got, keep)` of it; at `rename`, `put` is the whole file. `Disk` says that no
two names share an inode, that the inode a worker writes is the one its own
temporary leads to, that its contents are `put`, and that destinations are whole
or old. With that, the rename makes a destination of something that is known to be
whole, and every other step leaves destinations alone. `QuietStep`, `WriteStep`
and `RenameStep` are those three cases.

`FailureCostsOneFile` needs that no check refuses a healthy file. `ComesBack` adds
`Well` (a worker at such a file is not on the error path, and what it is served is
all of the part) and `Vacant` (where nothing may be written over, nothing but the
file itself is there). What then has to be shown is that a sound list passes the
checks of `restore_item`: `SoundPart`, `HashMatches` and `SoundPasses`.

For the promise a file is what its destination holds (`FileBar`) and what was said
of it (`VerdictBar`). Every step is a step of the promise about the file its worker
is at, or a stutter; `NothingThere` carries what the worker saw at the destination
to the rename. It is false when another program may write there in between, which
is why `MaxIntrusions = 0` is a hypothesis (see the first item of "Behaviour seen").

### FramingProofs

For any streams, any chunk and tag lengths, slices of any size, any number of
jumps of the storage: `SealedAsReference`, `GivesAPrefix`, `WholeMeansWhole`,
`SlicesDoNotMatter`, `RangedReadGivesItsChunk`.

The invariant has a half for each side. `Writer`: what is stored is complete, and
what is being sealed is cut so far as the stream must be cut (`Cut`) while the
buffer holds exactly the text after it. `Reader`: what was given, followed by what
this push has opened, is the text up to `decoded` (`TextFollows`); and as long as the
storage never jumped, the buffer is what stands in the store just before where it
is read (`BytesFollow`), which is why honest storage is never refused. What joins
the halves is the type of a sealed byte (`Bytes`): it carries the text of its own
place in its own stream, so a chunk that opens under the number the reader is at
carries the text that is next, however the storage jumped. The rest is geometry of
chunks (`CeilDivIs`, `StartIs`, `CutGrows`): multiplication, division and the short
last chunk. For this the model says of a chunk where it starts (`Start`) and what
it is (`Chunk`), and builds no sequence of chunks by recursion.

### FetchProofs

For any parts, endpoints, companies, registry and places that answer:

- `EveryPlaceIsTried`: `FetchSpec => []OnePlaceIsEnough`.
- `NobodyElseIsAsked`: `FetchSpec => []HeldBackIsNotAsked`.
- `OneAnswerEach`: `FetchSpec => GivesOneAnswer`: every step of a source is a step of the
  contract or changes neither `handed` nor `answer`.

The inductive invariant has a part for each. The first rests on `NoneForgotten`: a place that may be asked was tried, or its turn on
the route comes, or the company it is at is still to be looked up. It holds at the
start because `EndpointsFor` leaves out nothing that may be asked (`EndpointsAre`,
`DistinctKeeps`: dropping repetitions drops no address), and in the end nothing is
left but what was tried in vain. The second rests on `OnTheRoute`: whom a part is
asked for does not grow on the way. `NothingYet` is what the contract needs.

### DiscoverProofs

For any addresses, ledgers, pages of any size, nodes and aggregators:

- `SilenceMeansTheBest`: `HomeFirst /\ OwnNodes => (Spec => []SilenceMeansBest)`.
- `OthersAreConsidered`, `TiesAreTold`: `HomeFirst => (Spec => []OthersStillCount)` and
  `[]TieIsReported`.
- `OnlyBetterReplaces`: `Spec => OnlyForABetterOne`.

`HomeFirst` says that the first node and some aggregator are of the account's
network. `DEFAULT_RPCS` and the built-in aggregators satisfy it for an account of the
main network; `discover.rs` tells an older account to name its own node.
`OwnNodes` says that every node is. `DEFAULT_RPCS` does not satisfy that, and run
`silent` shows what happens there; the first theorem is for a search whose nodes
`--rpc` names.

The invariant accounts for every bundle (`Settled`): it is still to come
(`Waiting`), or it was considered (the list kept is no worse, and a tie was told),
or there is an excuse that the search tells of: an address longer than it reads, or a
question about it that may fail and did. `Place` says that what was read of an
address is its bundles up to the page reached, and `Asked` that while no aggregator
has failed, those asked do not have the bundle. What was considered stays
considered because `Supersedes` is transitive and never goes to a lower sequence
(`SupersedesIs`, `StaysConsidered`).

### ControlWindowProofs

For any lists, any number of request and restore threads:

- `WindowTyped`: `Spec => []TypeOK`.
- `BundleIsNeverForeign`: `Spec => []NoForeignBundle`. The invariant,
  `BundlesMatch`, says what protects a restore that has taken its rows and not yet
  its bundle: the open bundle is that of the open list or of the last one, and
  for such a request it is nobody's or its own list's. It holds because
  `CodeOpens` clears the bundle in the section that sets the list, and because
  the only section that sets one, `SeedFromNetwork`, runs before any list is open.
- `PromptIsTrue`, `ReadyIsTrue`: from `SaysWhatIs`, which adds that what the main
  thread is opening is a list and that at the prompt it is the one named.
- `RestoringIsNoLie`: `~SpawnFails => (Spec => []RestoringIsTrue)`.
- `TheCountersAddUp`: `Spec => []FinishedAddsUp`; `OneAtATime`: `Spec => []OneRestore`,
  for a patient page and for any page while it has handed over no list. There are
  two invariants. For a page that does not wait, any number of restores may be
  asked for at once and be at any step of `start_restore`: `FirstListOnly` says that the list
  the program was started with is the only one there will be, and `OneJob` that the
  first to take the lock is the one restore while the phase says restoring, because
  every other is then refused, and that what it has done, failed and left adds up.
  For a patient page that hands over lists too it is `OneThing`: there is one request
  other than a poll, or one restore, or one list being opened; such a page sends only
  while it is calm, and `Calm` sees everything that is under way.
- `TheCountIsTrue`: `ServerSpec => []CountIsTrue`, for any number of sockets, any limit
  and anything sent. The invariant adds that a socket is nowhere or on its way with
  a request; `SameCount`, `OneMore` and `OneLess` are the three things a step can do
  to the count, and every step is one of them.
- `BehindTheServer`: `NoForeignBundle`, `PromptIsThere`, `ReadyHasItsList`,
  `FinishedAddsUp` and `OneRestore` under `ServerSpec`; `RestoringBehindTheServer`:
  `RestoringIsTrue`, if threads can be started. `ServerSpec` does not imply `Spec`: a
  call of the page may be dropped, which is no step the page has by itself. The
  invariant adds `Unserved`: a restore has begun only for a request that the server
  let through. A dropped call was still in the backlog, so it had begun nothing, and
  freeing its slot keeps what the window keeps (`ServerSteps`, `ServerKeeps`).
- `ClosedIsTold`: `ServerSpec => []ClosedWasTold`: unless a call was lost, a page that says
  "closed" is right that the program was told; the request to end is at a thread of
  its own, in the channel, or taken. A list sent before or after does not drop it
  (`ReceiveObeys`), and a call of the page takes no other's slot (`PageStaysTold`).
- `OthersFillTheServer`: if there are as many slots as the page makes calls at once, the
  server drops a call of the page only while a stranger holds a slot. From the count:
  the page's other calls are too few to fill it.

### PlanProofs

For any contents, versions, names and selections: `SealedIsOpened`,
`LowestVersionWrites`, `DestinationsDiffer`, `DestinationsAreInside`,
`CheckedMeansAddressed`.

The invariant is `ListHistory` (what was refused, sealed or not opened was so for a
reason), `Opened` (what is opened is a list made of the contents, which reads) and
`PlanHistory` (`taken` is the destinations given, each a `Path`). `LowestIsEnough` is the
reason for the second theorem: only three of the checks ask for a version, and
`minimum_version` reaches each form that makes them ask (`MinimumReaches`). The third
rests on `DeduplicatedIsFree`. For the fourth, `SafeIs` says that `safe_segment`
makes of any name one that is writable, and `MarkedIs` that a number put before the
ending leaves it so; they follow the code from place to place (`TrimIs`, `StemIs`) and
need no induction, because a place where a loop stops is the first or last of a set
(`LeastPlace`, `GreatestPlace`). The fifth goes through what the checks of `from_json`
leave of a part, and why it is asked for as it is (`AddressOfRead`, `WhyThisAddress`): a
whole blob only for a file in no bundle, or in the shape of run `cohort`.

### TerminalProofs

For a command line of any length, any files, keys and lists:
`KeyIsTakenFromThere`, `NothingElseIsAsked`, `ZeroIsAll`, `TheOtherAccountIsSaid`.
The invariant has what each place implies of the line that led there (`Route`:
at `search` it has `--find`, at `file` and `list` it has not), that nobody was asked on
the way to a key and no later place but the window is reached without one
(`NobodyYet`), that a list from a file is usable,
and that during a restore every planned file is left, restored or failed.

### SharingProofs

For any identities, addresses, bundles, rows and number of envelopes:
`OneSlipIsTold`, `KeysReachTheOneMeant` and `OpenedIsGenuine`, under two hypotheses
that `MCSharing` has TLC evaluate: `AtMostOneSlip` (what is typed is the address with
at most one symbol changed, two neighbours swapped, or another number of symbols)
and `OwnersSignTheirOwn` (a signature over another's keys does not exist). More slips
than one cannot be promised: a check symbol of 37 misses one in 37 of them. The
invariant says of every envelope sent what its key was made from (`WellMade`), of
the sender that bundle and address are on the way to the one meant (`OnTheWay`), and
that the address in hand is spelled as it was typed (`AsTyped`).

That no slip makes another address (`SlipsAreCaught`) is arithmetic, for every 16
bytes, and takes most of the module:

- The loops of `encode_base32`, `decode_base32` and `checksum` are recursive functions.
  They exist because finitely many turns always can be taken (`LoopHas`), and what a
  turn keeps holds after every turn (`LoopKeeps`), both by the least element of a
  set of numbers (`LeastPlace`, `UpTo`); no induction over sequences is needed.
- What every turn keeps is one number: what is out, followed by the bits that are
  held, is what was read (`EncodeTurn`, `DecodeTurn`). The buffer of 16 bits never
  loses a bit that is still needed, because at most 12 are held. So 26 symbols
  spell four times the number of the address (`EncodeIs`), and symbols that are
  taken spell four times the number of the bytes plus the padding (`DecodeIs`).
  `AddressReadsBack` follows at once.
- The check symbol is that number modulo 37 (`ChecksumIs`). 32 and 31 have inverses
  modulo 37 (`Undo32`, `Undo31`), so one symbol changed (`OneSymbol`) or two different
  neighbours swapped (`TwoNeighbours`) leave another remainder, wherever they stand.
  A swap of the last symbol with the check symbol (`LastNeighbours`) is told by
  both: the padding makes the two multiples of four, and then the remainders differ.

### What stays with TLC

- Liveness: `EveryFileIsSettled`, `RestoringEnds`, `PageIsServedAgain`,
  `ClosedIsClosed`. What fairness gives depends on ENABLED, which the prover does not
  reason about. What each asks of single steps is proved: a worker only goes forward
  (`NeverGoesRound`), a window that is restoring has a restore
  (`RestoringBehindTheServer`), only strangers fill the server
  (`OthersFillTheServer`), and a request to end is not forgotten (`ClosedIsTold`).

## 5. Not modelled

- Cryptographic primitives, key derivation and its vectors, word lists and Hangul
  arithmetic, calldata: functions of byte strings with no order and no state. What
  they promise enters as constructors (an envelope opens under its key and
  label; a chunk under its header, number and mark).
- Wording, layout, JSON, the optional meta block of a list, a row's text on the
  page (`gui/rows.rs`).
- What a file system keeps of unsynced data across a power cut: `Crash` ends the
  process, not the machine.
- Destinations that differ only in case; two plans of one list, each of which
  numbers its files by itself. `Restore` assumes `Apart`.
- One page in one tab; reloading it (which is a page that starts over from the
  next poll) and a second tab are not modelled.
- Panics: the request slots they would keep, and a session lock they would poison.
- The sum in `expected_stream_len` at the edge of 64 bits; numbers are naturals.
- `verify_part_set`: the recovery program compares each part with the list instead.
- A second node for the registry, redirects, proxies and TLS: what a connection
  does is one of the ways an answer may end.
- The link tokens of `wrap.rs` and the tests' seeded constructors.

## 6. Plan

Done, the most important first: `Restore` with its promise and proofs,
`ControlWindow` with its proofs, `Discover`, `Fetch` with its proof, `Framing`, then
`WindowServer` over `HttpServer`, `Plan` over `RecoveryList`, `Terminal` over
`CommandLine`, `KeyText` and `WalletSlot`, and `Sharing` over `Codes`, with their
proofs. Every invariant a run checks is a theorem too. So are
the action properties, the two refinements and the safety half of each liveness property.
What is left is `Apart` of `Restore` from `DestinationsDiffer`, by composing `Plan` with
`Restore`. Part of it would stay an assumption: nothing in the code keeps a list
from naming a file as a temporary is named (`restore.rs:304`).
