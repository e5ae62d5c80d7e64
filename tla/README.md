# TLA+ models of LWRT

LWRT is a router's userspace in one Rust binary (`src/src/*.rs`): PID 1, a message
bus, DHCP, DNS, a firewall loader, a web interface, packages, a log and firmware upgrade,
each an *applet* of the same executable. This directory holds TLA+ models of every part of
it that keeps state, the TLC runs that check them and TLAPS proofs.

## 1. Inventory

| Part | State | Operations | Talks to | What is hard | What makes it correct |
|---|---|---|---|---|---|
| `ubus.rs` broker | `Bus` behind one mutex: objects, connections, listeners, calls in flight | list, call, reply, add, send, listen; accept and clean-up of a connection | clients over a Unix socket, one thread each | threads interleave; sockets are written under the lock; providers and callers die | one answer per request, calls routed right, registry consistent, events in order, the lock comes free |
| `init.rs` PID 1 | `STOP`, table of `(pid, service)` | mount, network, one-shots `dhcp client`, `fw`, `wg`; supervise; reboot | every service through fork/waitpid; httpd through SIGTERM | pid reuse, orphans, fork failing, a signal racing waitpid, one-shots that hang | table = living services, dead services come back, a requested reboot happens, the boot gets through |
| `fw.rs` + `nl.rs` | one netlink batch, answers of the kernel; the rules it leaves there | parse forwards, build, send, drain answers | kernel, init, config | number of answers against the loop's bound, blocking receive; a second run on top of the first; order of rules; byte order | errors are reported, the applet returns; the WAN reaches the router and the LAN only through a forward, and every forward to another host works |
| `dhcp.rs` server | pool in memory, `/run/dhcp.leases` | DISCOVER, REQUEST, persist | clients by broadcast; dns and httpd by the file | arbitrary packets, exhaustion, u32 wrap, crash inside persist, restart with an empty pool | no address leased twice, promises kept, NAK only when full, the file tells the truth |
| `dhcp.rs` client | one exchange | DISCOVER, wait OFFER, REQUEST, wait ACK, configure | a server | loss, repetition, delay, timeouts | brings up what it was given and nobody else's |
| `dns.rs` | answer cache, upstream | answer from leases, from cache, forward | lease file, upstream | stale or half-written lease file, host names that clients choose, late or foreign answers | a local answer is a lease, a cached one is fresh and for this question and id |
| `httpd.rs` + `config.rs` | sessions, the configuration file | login, settings, reboot | config, init, lease file | concurrent read-modify-write of one file, expiry | nobody passes without the password, what is saved is what is parsed, and a save that nothing overlaps or cuts short touches nothing else |
| `ipkg.rs` | index, manifests, files | update, install, remove | HTTP server | failure half way, files shared by packages, names that do not lead back to the file | what is installed is what the manifests say |
| `mtd.rs`, `sysupgrade.rs` | flash, backup | validate, backup, erase, write, reboot | kernel | power loss between any two steps, image changed after validation | nothing is erased before it is validated and saved; no reboot into half an image; `verify` tells the truth |
| `log.rs` | log file and its predecessor | append, rotate, read | kernel log, applets | two writers rotate at once | the size stays capped, recent lines survive a rotation, a reader prints no line twice |
| `ntp.rs`, `wg.rs`, `net.rs`, `sys.rs`, `json.rs`, `sha256.rs`, `util.rs`, `main.rs` | none that outlives a call | wrappers, encoders, parsers | kernel | | |

`PROJECT.json` lists every hazard with its line and the properties that would catch it.

## 2. Modules and the code

Where state is shared by processes, threads or a crash, an action is one step between two
points at which another can intervene; otherwise it is a whole handler. Variables marked
*history* are read by properties only.

**Ubus** (`MCUbus`, `UbusProofs`). The six variables of `bus` are the fields of
`struct Bus`. `lock`, `fan` and `last` are the critical section: which thread holds the
mutex, the listeners it has still to write an event to, and the frame it writes last.
A handler is one `Handle*` action (take the line and the lock, change the bus, fix the
frames) followed by `WriteEvent` steps and one `WriteLast`, which unlocks; this is
exactly where another client can make the thread wait, because `send_to` blocks on a full
socket buffer. `Drop` is the end of `handle_conn`, after end of file or a line that is not
UTF-8. The critical sections that write nothing are one step. Payloads and the text of
errors are left out: a frame has a kind and the call or event it belongs to. `owed`,
`caller`, `provider`, `events` and `got` are history. Clients are free: they send any line
of `Requests`, read, answer, or close.

**FwProgram** (`SupervisorProofs`). `build_ruleset` is reduced to `BatchAcks`, the number of messages that ask
for an answer; `program` is kept step by step. The kernel answers every message, with an
error at any position, or rejects the whole batch with one error.

**FwRules** (`MCFwRules`, `FwRulesProofs`). The other half of `fw`: `parse_forwards`, `build_ruleset` and the
`rule_*` functions as data (a rule is a set of tests and an action), committed by `FwCommit`
to the chains of a kernel that evaluates them on packets. A forward may name any address: a
host of the LAN, one beyond the WAN (`Far`) or the router itself. `rules` is one list for all chains:
a rule knows its chain, and only the order within a chain counts. The kernel is external: a
rule without `NLM_F_APPEND` goes to the head of its chain, a batch is atomic, only the first
packet of a connection visits the nat chains, and the state of a connection is a register
in the machine's byte order. Connections do not influence one another, so that one is
remembered.

**Supervisor** (`MCSupervisor`, `SupervisorProofs`) extends FwProgram. `pc` is where PID 1 is; `st`
and `prog` are what the kernel knows of its children; `table` is `pids`. The `fw` one-shot
runs FwProgram's own steps while PID 1 is in `waitpid`; `dhcp client` and `wg up` end by
themselves and are one step: the client's receives time out after five quiet seconds (this
takes a network that is quiet at some point), and `wg` receives one answer per request.
`libc::signal` restarts system calls, so `Sigterm` only sets `stop`. `lost` and `reaps` are
history.

**Leases** (`DhcpProofs`) is the abstract specification of a DHCP server: a lease is a
partial injection from clients to addresses of the pool; a client is told its lease or, when
the whole pool is leased to others, refused; a restart forgets everything.

**DhcpServer** (`DhcpProofs`). `byMac`, `used`, `names` are the fields of `Pool`; `cfg` is
the pool's start and count, read again at every start. Addresses are numbers modulo
`WordSize`, because `start + off` and `start + count` are unchecked `u32` sums in a release
build. `persist` is a step that truncates and one `PersistLine` per lease, each of which may
fail; `Restart` may come between any two. A host name comes from the client's packet and is
written into the file as it is, where white space and line breaks in it make words and lines
for the reader: a name is what it reads as (`Reads`: the fourth word of its line, and further
lines, each with the address and the name that `lookup_lease` would find there). A line that
cannot be written is missing. Any packet may arrive at any time. `replies`
(also the network of the next module), `epoch` and `current` are history. The refinement
of Leases maps `lease` to `byMac`, `pool` to the addresses `start + off` (`PoolSet`), and
`told` and `refused` to the replies of the present run of the server (`Told`, `Refused`);
`used`, the names, the file and persist are hidden.

**DhcpClient** (`MCDhcp`, `DhcpProofs`) extends DhcpServer with runs of `dhcp client`
for some of the hardware addresses and a network in which a packet, once sent, can be
received any number of times or never; machines with the other addresses send anything. The
transaction id stands for its client. Giving up after the timeout is always possible.

**Dns** (`MCDns`, `DhcpProofs`; specification `DnsSpec`) extends DhcpServer with the resolver that reads its file: `AnswerLocally`
(`local_answer`, `lookup_lease`), `AnswerCached`, `Forward` and what comes of it, the clock
and the death of the resolver. The file is read anew for every query, line by line as it reads, also in the
middle of `persist` and after a restart. A query is its id and its question. `Forwarded` takes
any datagram, with any id and question, as `forward` does.

**ConfigFile** (`HttpdProofs`) holds two pure algorithms on the lines of `/etc/lwrt/config`: what
`Config::parse` and `get` read, and what httpd's `apply_settings` writes. They were written
separately and treat a header followed by a comment differently. `apply_settings` has the
three loops of the code (over the lines, in `flush_section`, over the updates that are left),
each a recursive function on positions; `left` is the set of positions of `updates` not yet
written. Names and values are members of `Word`, which is STRING in the run: the provers do
not know that a literal is a STRING, so the few literals that the code itself writes are an
assumption about `Word`.

**Httpd** (`MCHttpd`, `HttpdProofs`) extends ConfigFile. `conn[c].pc` is where the thread of a connection
is: it loads the configuration, logs in or is checked against the session table (under its
mutex, hence one step), and a save is read, open-and-truncate, write, with the other threads,
a failing write and the death of the process in between. `Loaded` is `Config::load`; the history
it keeps, `clean`, says whether the file was whole at that moment. `Overlay` is a write through a
handle opened before another's. Values of a form carry no line break (the code does not
remove them; they would be lines of their own).

**Flash** (`MCFlash`, `FlashProofs`) has one cell per byte of a partition. `mtd write`, `erase`, `verify` and
`sysupgrade` are programs over it, block by block and byte by byte; an unerased cell that is
written is spoilt. The image file may change at any time, erases and writes may fail, the
power may fail between any two steps. Offsets are `u32`.

**Ipkg** (`MCIpkg`, `IpkgProofs`). `update`, `install` and `remove` as steps over the index, the manifests
and the files. A build stands for an archive and its digest. A member has a name, which leads
to one path when it is extracted (`Sanitized`) and, handed to unlink as it is, to one that may
differ with the directory `remove` runs in (`Resolved`); a manifest written in part ends with a
beginning of a name (`Cuts`). Downloads break off, writes and
unlinks fail, new builds are published, the process dies.

**Log** (`LogProofs`). `append` is its four steps (look at the size, rename, open, write), executed by
the daemon and by `log <text>`; `log read` is two reads. Files are inodes, so that a writer
keeps the file another has renamed. Lines have unit size.

The operators marked *Mutant* are deliberately wrong variants of the definition that
follows them. They are used by no specification; putting one in the place of the original
must break the property named for it in `PROJECT.json`, which shows that the property
can fail.

## 3. Runs

| Run | Checks | Bounds, and why they are enough |
|---|---|---|
| `ubus` | TypeOK, RegistryConsistent, ExactlyOneAnswer, CallsRouted, EventsInOrder; LockReleased, EveryCallSettles | 2 connections, each of which can be provider, caller and listener (a connection may call itself), 3 lines of any kind besides the replies to invocations, 1 line and 2 frames per buffer: enough for register/call/call, listen/send/send, forged replies, full buffers that make the lock holder wait, deaths at every point. The proofs cover more connections |
| `supervise` | TypeOK, TableExact, MissingOnlyIfForkFailed, SeenErrorReported, Respawned, StopSeenAtNextExit, BootPastFw | 2 services for the 5 (they are symmetric but for the order of the first spawn), 3 pids so that they are reused, 3 exits, 2 failing forks (so that no child may be left), 1 orphan; rulesets of 0, 10 and 11 forwards, below, at and above the loop's 32 answers |
| `supervise_stop` | StopReboots, **violated** | no exit: nobody dies, so that nothing ends `waitpid` |
| `boot_hang` | BootCompletes, **violated** | no port forwards |
| `fw_rules` | Protected, ForwardsWork | 2 runs of `fw` with any configuration of: none, two forwards of one port around a malformed entry, the same port to the router itself, to another host and to one outside; 2 LAN hosts, 2 ports, every interface, address and protocol for the packets |
| `fw_back_traffic` | BackTraffic, **violated** | same |
| `dhcp` | TypeOK, PoolConsistent, LeaseFileSound, ConfiguredIsAcked, NoSharedAddress, LeasesKept | 2 clients and 2 machines that send anything, 4 addresses; pools of two, of one (exhaustion) and around the end of the address space; a host name with a second line; no restart, after which ConfiguredIsAcked and NoSharedAddress say nothing |
| `dns` | AnswersCurrent, LocalAnswersLeased | 1 client with one of two host names, one of which has a line that gives the name asked for an address of its own; pools of one address that a restart may move, 1 restart at any point of persist; 2 ids, 2 questions for a name, any datagram as answer, answers that live 1 tick |
| `httpd` | TypeOK, AuthedByLogin, SessionsBounded, SaveMerges, UnmanagedKept | 2 threads, 3 requests, 2 files (one with a commented header; values with comments behind them), 2 forms, sessions that live 1 tick, 1 death. The threads are symmetric |
| `ipkg` | OnlyVerified, Accounted, InstalledWhole | 2 packages that share a path, 2 builds of one of which the newer drops a file; a relative name that in the other of 2 directories is the other package's file, and a name whose beginning is another file's name; 5 commands, 1 publication |
| `flash` | TypeOK, CrashShape, RebootSafe, VerifyTruth, CommandEnds | chips of 2 blocks, of 1 block and without blocks; images that are empty, end within a block, cross one, and are too large; 3 commands, 2 changes of the image; `WordSize` just above the size, so that rounding up could wrap |
| `log` | SizeCapped, KeepsRecent, ReadSound | the daemon, 1 logger, 1 reader; rotation after 2 lines, 5 lines (two rotations), 1 kernel record, 1 death, a socket for 1 datagram |

What the properties say is written above each of them. Where the code gives a guarantee only
outside an incident, the property names the incident: `overlap`, `torn`, `clean`, `failed`,
`stray`, `touched`, `misled` and `fits` are history variables for two saves, a failed write, and so on.

The violated properties are what a comment or the documentation says; each is a finding in
`PROJECT.json`:

- SIGTERM during `waitpid` is acted on only at the next exit of a child, so that the reboot
  button of the web interface does nothing while the services are healthy;
- `fw` receives 32 answers from a blocking socket: with fewer, `fw` and the boot hang;
- the mask of the connection state is in network byte order where the kernel compares with
  a register of the (little-endian) machine, so that no packet counts as established.

Further deviations that the models contain, and that properties make room for, without a run
of their own:

- a closed connection's calls stay in `pending` (`ubus.rs:150`);
- a failed fork takes a service out for good (`init.rs:136`);
- with more than 32 answers an error among the last is reported as success (`fw.rs:471`);
- `fw` run again adds every rule a second time, where a comment says idempotent
  (`fw.rs:163-165`); as new rules go to the head of a chain, the verdicts stay right;
- the DNAT rule tests neither interface nor address, so that LAN traffic to a forwarded port
  of any host is redirected too (`fw.rs:118-119`);
- the DHCP client configures the address of the OFFER and not that of the ACK, which differ
  when the server restarts between the two (`dhcp.rs:382`);
- forwarding is enabled before there are rules, and stays so when the batch is rejected: until
  a commit, everything is forwarded (`fw.rs:168`); `Protected` speaks of what follows one;
- a forward to the router's own address is accepted and committed, but what it rewrites is
  dropped by the input chain, which knows no forwards (`fw.rs:139`, `fw.rs:388`); `ForwardsWork`
  says so;
- a host name with a line break adds lines to the lease file that are no leases, and the
  resolver answers with them (`dhcp.rs:97`, `dhcp.rs:210-218`, `dns.rs:147-151`);
  `LeaseFileSound` and `LocalAnswersLeased` say that this is the only way to such an answer;
- `forward` checks neither the sender, the id nor the question of what it takes for the answer,
  passes it on and caches it (`dns.rs:73-80`, `dns.rs:56-61`); `AnswersCurrent` promises the
  right id and question of a forwarded answer only where the datagram had them;
- a save that overlaps another can read the file while it is truncated, and loses the rest
  of the configuration (`httpd.rs:304`, `httpd.rs:307`);
- while a save has the file truncated, and after a write was cut short, `Config::load` finds no
  password: every request is let through, a save and a reboot included, and every login gets a
  token that stays good for SESSION_TTL, where `httpd.rs:15-17` says that every endpoint needs
  a session (`httpd.rs:141`, `httpd.rs:307`); `AuthedByLogin` exempts exactly the requests and
  the logins whose load fell into that time;
- a replaced line loses the comment behind its value (`httpd.rs:364-366`), where
  `httpd.rs:281-282` says that comments are preserved; all other lines stay as they are;
- `ipkg remove` unlinks names as they are spelt: a relative one is looked up in the current
  directory, where it may be another package's file, one with `..` leads elsewhere than
  `sanitize` put it, and so does one that was cut when the manifest was written in part
  (`ipkg.rs:124`, `ipkg.rs:187`, `ipkg.rs:321-326`); a failed extraction or unlink leaves files
  that no manifest names (`ipkg.rs:131`);
- two writers that rotate together lose the older file (`log.rs:133-134`).

Runs say `CHECK_DEADLOCK FALSE` where the system may rest: clients that send nothing
more, a machine that is down, a bound that is used up.

**Fairness.** `FairSpec` of Ubus: a thread that can run does (weak fairness is enough,
because only finitely many lines compete for the mutex), a client reads what is in its
buffer, and a provider answers what it has read. Nobody has to send or close.
The clients' part is an assumption about them: without it `LockReleased` is false, since a
client that stops reading stops the broker. `Spec` of Supervisor: PID 1 and its one-shots
run when they can; no exit, signal or failure is ever obliged to happen. `Spec` of
Flash: a command that can go on does, and one that its own checks refuse ends; no failure, power loss or
change of the image has to happen. The other specifications state safety only.

## 4. Proofs

All for every value of the constants, under the `ASSUME`s of the modules.

| Module | Theorem | States | Inductive invariant |
|---|---|---|---|
| `UbusProofs` | `TypeCorrect` | `[]TypeOK` | itself, in four parts |
| | `RegistrySafe` | `[]RegistryConsistent` | itself, with TypeOK; the steps that matter are Accept, Drop and HandleAdd |
| | `CallsSafe` | `[]CallsRouted` | `CallsInv`: ids above the counter are unused (`Fresh`), and the frame that the lock holder has yet to write is routed right (`LastRouted`); without the first a new id could be one in use, without the second `WriteLast` could deliver anything |
| | `AnswersSafe` | `[]ExactlyOneAnswer` | itself with `CallsInv`; the cardinality of the set of pending calls changes by one in Route and HandleReply |
| | `EventsSafe` | `[]EventsInOrder` | `EventsInv`: what is in a buffer is no newer than `got`, and only the lock holder fans out (`EventsBounded`) |
| `DhcpProofs` | `ServerTypes`, `PoolSafe` | `[]SrvTypeOK`, `[]PoolConsistent` | `SrvInv`. `LeaseForSpec` says what `lease_for` returns; its hard case is a requested address when `start + count` wraps, where the range check must let nothing outside through (`HonouredInPool`, from `ModOnce`: a sum of two addresses wraps at most once) |
| | `FileSafe` | `[]LeaseFileSound`, for every way in which host names read | `SrvInv`: every reply of this run is what the pool says (`RepliesHeld`), persist is about existing leases (`WritingLeased`), and an acknowledged client is in the file or still to be written (`FileComing`) |
| | `ServerImplementsLeases` | `LeasesKept`, that is `Promises!Spec` | every action is mapped: grants to `Promise`, a NAK to `Refuse` (`LeaseForNone`: the first free offset exists whenever a free one does), `Restart` to `Forget` (no reply is of the new run, `EpochsPast`), `PersistLine` to a stutter |
| | `ServerKeepsPromises` | `[]PromisesKept` of Leases, for the server | `LeasesInv` of the abstract specification (leases are injective, what was told is still leased, whoever was refused has none), carried to the server by the refinement |
| | `ClientTypes`, `ConfiguredSafe`, `AddressesDistinct` | `[]TypeOK`, `[]ConfiguredIsAcked`, `[]NoSharedAddress` | `CliInv`: `SrvInv`, and a client that took an OFFER still holds that lease (`HeldInv`). Every step of the composition is a step of the server or leaves it alone (`ServerSteps`), so that `SrvInv` carries over; leases only end with the run of the server (`LeasesStay`) |
| | `ClientsUseServer`, `DnsReadsServer` | `Spec => SrvSpec`, `DnsSpec => SrvSpec`, hence `[]PoolConsistent`, `LeasesKept`, `[]LeaseFileSound` of the compositions | every step of a composition is a step of the server or leaves it alone; for the clients this needs that packets on the network carry values of their types |
| | `DnsAnswersCurrent` | `[]AnswersCurrent` | `DnsInv`: what is cached under a question says what the datagram taken for its answer said last, with the same time (`CacheGiven`); the resolver's death and late answers must not leave the two apart |
| | `DnsLocalAnswers` | `LocalAnswersLeased` (an action property) | `SrvInv` again, and every lease, and the line of every entry of the file even of an earlier run, was told to somebody (`LeasesTold`); which line answers follows from what `FirstEntry` and `FirstLine` choose |
| `SupervisorProofs` | `SupervisorTypes`, `SupervisorTable`, `SupervisorMissing` | `[]TypeOK`, `[]TableExact`, `[]MissingOnlyIfForkFailed` | `SupInv`: the services given to the first spawn so far are partitioned into those in the table and those lost by fork (`Partition`), and how many that is (`SpawnOrder`); without these a spawn or re-spawn could start a second process for a service |
| | `FwReports` | `[]SeenErrorReported` | `FwInv`: the loop has not passed an error, and the status is set only by leaving (`FwOrder`) |
| `FlashProofs` | `FlashTypes`, `FlashShape`, `FlashReboots`, `FlashVerifies` | `[]TypeOK`, `[]CrashShape`, `[]RebootSafe`, `[]VerifyTruth` | `FlashInv`: for each place in the program, which cells hold the image, are erased or are as before, in terms of `off` (`Erasing`, `Writing`, `Rebooting`), and what was written last is still there (`Written`). The arithmetic: positions are multiples of the block, the rounded range covers the image and ends inside the partition, so that no `u32` sum wraps (`RoundUpBounds`, `NextMultiple`) |
| `IpkgProofs` | `IpkgVerified`, `IpkgAccounted`, `IpkgWhole` | `[]OnlyVerified`, `[]Accounted`, `[]InstalledWhole` | `IpkgInv`: what the commands hold in memory: an entry that names a digest is of a build an index has named (`Vouching`), what was extracted is there (`Extracted`), the file in the making is known to be in the way (`InHand`), what remove has passed is gone or stray (`Removed`) |
| `HttpdProofs` | `HttpdTypes`, `HttpdAuthed`, `HttpdSessions` | `[]TypeOK`, `[]AuthedByLogin`, `[]SessionsBounded` | `IInv`: the session table forgets (expiry, restart), so what a thread was let through for is a fact about the history of logins; the table is always a part of it (`Table`), with one entry for a token (`OneEach`). `HttpdAuthed` also needs `LoginInv`: what was loaded from a whole file has the passwords of the start, because the form has no field for them (by `FileInv` below, which holds this also of files that are not plain), so that a login under it has sent that password |
| | `ApplyMerges` | `Merges(lines, ApplySettings(lines, updates), updates)` for every plain text and updates of distinct keys in named sections, lines that are not replaced verbatim | loop invariants. `Sound`: an update that is left has no line yet, the others have exactly theirs, every other key reads as in the lines read so far, and the text is plain. `Reading` adds that no update is left for a section that has ended, and none was written for a key that a later line could set (else a key would stand twice); `Creating`, that the sections still to be created do not exist |
| | `HttpdSaves`, `HttpdUnmanaged` | `[]SaveMerges`, `[]UnmanagedKept` | `FileInv`: without overlap one thread is between read and write (`Solo`) and what it computed is of the text on disk (`Fresh`); while it writes the file is empty, and every line of a key the form does not manage is in its hands as it was (`SavesKeep`). It needs that what is written is again plain, for the next save |
| `LogProofs` | `LogCapped` | `[]SizeCapped` | `Capped`: the lines of a file and the writers that will write to it without another look at the size stay within the cap together. Writers are counted by cardinality, also across a rename, which moves FILE's writers to OLD |
| | `LogRecent`, `LogReads` | `[]KeepsRecent`, `[]ReadSound` | `Ordered`: without overlap there is one writer (`Alone`), what it saw still holds (`Steady`), every line's number is that of the last line less its distance from the end (`Numbered`), and what the reader has of OLD ends before FILE begins (`HalfRead`) |
| `FwRulesProofs` | `FwProtects`, `FwForwards` | `[]Protected`, `[]ForwardsWork` | `IInv`: every rule in the kernel is one that `build_ruleset` makes for a forward committed since the boot, and those of the last commit stand before all others and are complete (`RulesInv`, `Leads`). From this, the first rule of a chain that matches a packet from the WAN is followed through prerouting, input and forward. That `parse_forwards`, a recursive function, yields a list of forwards is proved by least counterexample (`Smallest`, `KeptExists`) |

Only model-checked:

- the liveness properties `LockReleased`, `EveryCallSettles`, `Respawned`,
  `StopSeenAtNextExit`, `BootPastFw` and `CommandEnds`: fairness and ENABLED are out of the
  prover's reach;
- the three violated properties, for which a counterexample is the result.

The library's induction theorems take an operator as a parameter and cannot be instantiated
by the installed provers; where an induction is needed (the loops of `parse_forwards` and
`apply_settings`) it is done on a set of numbers with a least counterexample (`Smallest`,
`UpTo`), and that the recursive function exists is a lemma of its own (`KeptExists`,
`EmittedExists`, `ReadExists`, `CreatedExists`). No module has a RECURSIVE operator.

## 5. Not modelled

- Time, except as ticks in Dns and Httpd: the DHCP client's five seconds, lease times.
  Timeouts are free choices.
- Two clients that fall back to the same hardware address because theirs cannot be read
  (`dhcp.rs:347`); DHCP transaction ids that collide; lines that exceed memory; a thread that panics
  (the binary aborts, and init starts it again).
- The encoding of netlink attributes, JSON text, HTML, gzip and tar, hashing (a digest is taken
  to be injective), the byte-level reading of an HTTP request.
- Several `ipkg` or `mtd` processes at once: nothing in the repository starts two.
- A line of the lease file that is written in part and runs into the next (a line that fails is
  missing as a whole), and members of a package whose names hold a line break.
- The control file of a package, which nothing reads again.
- `ntp` (one exchange per server, no state), `wg` and `net` (one-shot calls to the kernel),
  `sys` (wrappers), `json`, `sha256` (pure, over bytes), `main` and `util`, and what the
  command lines of `ubus`, `config`, `mtd` and `ipkg` print. They keep no state between
  calls and nothing else can intervene in them.

## 6. Plan

Every invariant, action property and refinement that a passing run checks is proved. What could follow:

1. An abstract specification of calls (requested, answered, abandoned) refined by Ubus.
