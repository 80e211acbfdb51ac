# Formal models of the nextdns proxy

`nextdns` is a DNS proxy daemon: it answers DNS queries received over UDP and
TCP from a cache, from what it discovers of the local network, or by sending
them over DoH (or plain DNS) to the best endpoint it can find. This directory
models the parts of it whose correctness depends on the order in which things
happen, checks the models with TLC on small instances, and proves their safety
for every instance with TLAPS.

To repeat the checks, in this directory:

    tlc -workers 2 -config MCProxy.cfg MCInflightProxy
    tlapm InflightProxyProofs.tla

`PROJECT.json` lists every run with its module and configuration, the source
lines each definition stands for, the mutants that break each property, the
findings, the hazards and the theorems.

## 1. Inventory

| Part (source) | State | Operations | What is hard | What makes it correct |
|---|---|---|---|---|
| Endpoint election (`resolver/endpoint/manager.go`) | the active endpoint object with its timer, testing flag and error counter; the manager's mutex | `Do`, `Test`, opportunistic, recovery and network-change tests, `OnChange` | tests race with queries and each other; the lock is released around the callback; the first election is made under the lock | one test per object, lock discipline, queries return, the best working endpoint is found again |
| Sockets (`proxy/udp.go`, `proxy/tcp.go`) | slots in flight, sockets, a WaitGroup per connection | read, serve, answer, close | all sockets share one pool; panics; several queries per connection | slots given back once, no write after close, responses not mixed |
| DoH resolver and cache (`resolver/doh.go`, `resolver/cache.go`) | cached responses, last configuration change per URL | look up, send, store | responses out of order, truncated times, two clocks that do not agree | no stale answer, no answer of a superseded configuration |
| Service (`run.go`, `proxy/proxy.go` `ListenAndServe`) | context, listeners, channels | Start, retry, Stop | listeners fail at any moment; timers; the order of errors | attempts do not overlap, Stop is complete, errors are not lost |
| Answer path (`proxy/proxy.go` `Resolve`, `proxy/util.go`, `resolver/resolver.go`) | the goroutine's buffer | local lookup, upstream, discovery, replies, UDP truncation | an error beside a stale answer, a buffer written over, sizes at their limits | a client gets its own answer; what is known here stays here; cut means marked |
| Plain DNS (`resolver/dns53.go`) | its use of the cache | dial, read, store | late answers of other queries, truncated answers | the answer is for the question |
| DNS messages (`internal/dnsmessage`, `resolver/query`, `resolver/cache.go` `updateTTL`) | builder, parser | build, pack, parse, rewrite the TTLs, read the EDNS options | compression pointers, sections cut short, calls out of order | what is packed is what is read; the TTL returned is the least left; a client's address goes no further |
| Transports and dialer (`resolver/endpoint/*.go` other than the manager) | endpoints, connections | HTTPS records, dial in parallel | losers of a race | one connection is kept, the others closed |
| Profiles, forwarders, flags (`config/`) | two lists, the stored file | set, match, parse in three passes, save | precedence, values that replace one another | a query gets the profile and the server it was meant to |
| Private DNS (`discovery/dns.go`, `semaphore.go`) | names in flight, a cache, a `Once` | look up, probe | re-entrancy: the server forwards our queries back to us | a lookup returns; one query per name |
| mDNS, hosts and lease files (`discovery/mdns.go`, `hosts.go`, `dhcp.go`, `util.go`) | tables of names and addresses | packets, eviction, refresh of a file | the limit of the table; two refreshes under a read lock | the latest is found; the tables are those of the file |
| Network status (`netstatus/`) | receivers, previous interfaces | Notify, Stop, broadcast | unbuffered channels sent to under a lock | every receiver knows of every change |
| ARP, NDP (`arp/`, `ndp/`) | a table and its date | lookup, refresh | two atomics and no lock | one read at a time, a table fresh enough |
| Control socket (`ctl/`) | connections, their handlers, calls | accept, command, broadcast, Send, Stop | replies and events on one stream, told apart by name | a call is served once and gets its own reply |
| Activation (`activate.go`, `host/dns_*.go`) | `resolv.conf`, its backup, what NetworkManager or resolvconf is told | set, reset | failures and crashes between two renames; daemon and command at once | the administrator's file comes back |
| Routers (`router/`) | saved parameters, dnsmasq | Configure, Setup, Restore | the saved values die with the process | Restore undoes Setup; port 53 is free in time |
| Init systems (`host/service/`, `service.go`) | unit, links, helpers | install, uninstall, start, stop, status | commands left half done | an install that says it succeeded did |
| Logs, host information, self-upgrade | | | I/O only | not modelled |
| `ctl/internal/winio`, `internal/testutil` | | | a third-party copy; helpers of tests | not modelled |

How they interact: `run.go` builds one `proxy.Proxy` whose `Upstream` is the
`resolver.DNS` (or a list of forwarders, each with a `resolver.DNS` of its
own). A socket reads a query and hands it to a goroutine; `Proxy.Resolve` asks
the hosts file, the upstream and the discovery, in that order;
`resolver.DNS.Resolve` calls `Manager.Do`, which calls back with the active
endpoint, over whose transport `DOH.resolve` sends what the cache could not
answer. Errors go back through `Do`, which counts them and starts tests.
`netstatus` calls `Manager.Test` when the interfaces change. The service
framework calls `Start` and then `Stop`, once each and in that order. Around
them, `run` configures the router and the system's DNS settings and puts them
back; the commands of `service.go` and `activate.go` are processes of their own
that do the same, and reach the daemon through the init system or the control
socket.

## 2. Modules

    EndpointManager   <- MCEndpointManager,   EndpointManagerProofs
    InflightProxy     <- MCInflightProxy,     InflightProxyProofs
    DoHCache          <- MCDoHCache,          DoHCacheProofs
    ServiceLifecycle  <- MCServiceLifecycle,  ServiceLifecycleProofs

    SystemDNS  RouterSetup  InitSystem  <-  Host  <- MCHost,  HostProofs

    DNSMessage  AnswerPath  HardwareTable  Profiles  Transport  <- MCAnswers
    MessageProofs: DNSMessage
    AnswersProofs (on MessageProofs): AnswerPath, Transport, Profiles,
    HardwareTable, MCAnswers

    NameLookup  Neighbours  NetStatus  Control (-> RemoteCall)  <- MCNetwork
    NetworkProofs: NetStatus, Neighbours, Control, MCNetwork

A `MC` module only adds the symmetry and the values a configuration cannot
write; `MCAnswers` and `MCNetwork` also put together parts that share no state,
of which a behaviour chooses one. A definition whose comment says `mutant` is a plausible bug of the code
and is used by no specification: putting it in the place of the definition it
is named after must break the property `PROJECT.json` names.

### EndpointManager: `resolver/endpoint/manager.go`

Processes: the callers of `Do` (queries), the goroutines of `activeEnpoint.test`
(`Testers`), and the loop of `run.go` that calls `Manager.Test` on network
changes (`Watchers`). `mu` is `Manager.mu`; `active` is `activeEndpoint`; `ae`
holds the `activeEnpoint` objects, which are reused here as soon as nothing
refers to them (the program's garbage collector), and which keep only their
flag when only a test refers to them (nobody reads the rest); `pc` and `ref` say where a
process is and which object it works on; `scan` is the position of
`findBestEndpointLocked` in the providers and their endpoints. One action is
what the code does between two points where another process can be seen to act:
`GetActive` and `InitActive` (`getActiveEndpoint`), `ShouldTest`, `ClaimTest`,
`StartTest`, `ActionOK`, `ActionError` (`do`), the scan, `Elect` inside
`EndpointOK` and `Fallback`, `OnChange` and `Relock` (`testLocked`), `Unlock`,
`EndTest`. Timers are a flag, `due`, which time may set at any moment. What
providers and endpoints answer is free in the safety runs and free until the
network settles in the liveness runs. No election ends with an error: the only
one it knows is ENETUNREACH, which `isErrNetUnreachable` (`manager.go:174`) looks
for with `errors.Unwrap`, and the testers and providers make their errors with
`%v` (`doh.go:82` and `114`, `dns.go:34`, `45` and `50`, `endpoint.go:245`).

### InflightProxy: `proxy/udp.go`, `proxy/tcp.go`

`rd` is where each reading loop is: waiting for a slot (`acquire`), holding it
in the read (`read`), waiting for its queries (`wait`) or `closed`. `st` is
where each query is; `head` and `body` are the two writes of a TCP answer.
`inflightRequests` is the number of tokens in the channel of that name and `wg`
the WaitGroup of each connection.

### DoHCache: `resolver/doh.go`, `resolver/cache.go`

The cache of one URL, which it shares with other URLs (`Evict`). A message is
its smallest TTL; `ver` and `at` say of what
configuration and when the server computed it, for the properties only. `now`
is the time the query was made, which is what an entry is dated with, and
`mod` the header of the server, in whole seconds.

There are two clocks. `clock` is the server's, in which the header is written;
the client's wall clock is `ahead` of it, by any of `Offsets`, and `StepClock`
sets it at any moment. A `time.Time` of the client has two readings: `time`, the
monotonic one, of which `Time.Sub` makes the ages and which does not step, and
`wall`, which `lastModified` is compared with. So a client whose clock is ahead
(`run.go:515-519` says that routers start with one that is not set) keeps serving
the old configuration for as long, and `NewConfiguration` allows exactly that
much: an answer computed earlier than the change by less than the clock was
ahead when it was asked for.

`Tick`, `ChangeConf`, `Evict`, `Answer` and `NotCached` are the time, the user,
the ARC cache and the network. `Age` translates the conversion of a negative
duration to uint32; `Wrap` stands for 2^32 (like it, it is larger than any TTL of
the instances).

### ServiceLifecycle: `run.go`, `proxy/proxy.go`

`main` is the process that calls `Start` and then `Stop`; `run[g]` is the
goroutine of the g-th call of `start`, `lst[g][l]` that of each listener.
`cause[g]` is what cancelled the context of that start (the code does not keep
it, the properties need it). The channel `errs` is FIFO and has room for every
sender, so which error is kept is decided when they are sent (`SendErr`).
`StartedRace` is the data race on the named result of `start`. The data race on
the slice header of `closeAll` is modelled as a read of the slice before or
after each append; a read that mixes the pointer of one append with the length
of another is left out. `Restart` has no caller and is not modelled.

### Host: `SystemDNS`, `RouterSetup`, `InitSystem`

`SystemDNS` is `SetDNS` and `ResetDNS`, step by step: `file` says whose each
file is (`user`, `ours`, `empty`, `none`), `dns` whose servers each network
service of macOS or Windows has, `step` where each caller is between two system
calls. `RouterSetup` writes a platform as the sequence of the steps of its
set-up and of its `Restore`; `conf`, `opts` and `masq` are the file nextdns
gives dnsmasq, the firmware's settings and what dnsmasq has loaded, `mem` what
the `Router` object remembers. `InitSystem` writes an init system as the steps
of its install and uninstall on three artefacts, and says how it starts, stops
and respawns a process. On Merlin, whose script nextdns writes itself in front of
the user's, `conf.user` is what of the file is taken for the user's (`script`, the
user's own, or `torn`, a piece of nextdns's part) and `Cut` what a write leaves
that does not come to its end; `lost` tells that a daemon has ended while the file
did not hold the user's script. A Windows service that is deleted while it runs
is only `marked`, and its name is taken until the process has ended
(`WithoutProcess`). `Host` composes them: `life` is the daemon from `run`
to its exit, `cmd` and `acts` the command under way, and `Fault` makes the step
under way fail, kills a process or restarts the machine.

### Answers: `DNSMessage`, `AnswerPath`, `HardwareTable`, `Profiles`, `Transport`

`DNSMessage`: a message is a sequence of cells and an offset counts cells, so
that a pointer, a cut and a length mean what they mean in bytes. `bld` is the
`Builder`, `prs` the `Parser`, `aged` a call of `updateTTL`, `qry` what
`Query.parse` found. `UnpackName` counts the pointers it has followed as
`Name.unpack` does, and gives up above `MaxHops`.

`AnswerPath`: `job[c]` is a goroutine of `serveUDP` or `serveTCPConn`, from the
query it received to what it wrote; `n`, `buf` and `err` are the values each
call of `Resolve` returns, which do not exclude one another, and `left` and
`spoiled` tell what the properties need: that the query went upstream, and that
the buffer was written over. Of a query that cannot be parsed only the identifier
in its payload is known (`Unparsed`), which the parser does not tell the rest of
the code (`QueryID` is 0). `cache53` is the cache of the plain DNS resolver.

`HardwareTable`: the two atomics of `cache.get`, `lastUpdate` and `table`, read
and written in separate steps by lookups and refreshes. `Profiles`: `line` and
`file` are the flags of the command line and of the stored configuration,
`taken` how far the three passes of `Parse` have come, `rules` the list they
fill; `Save` stores the list as `String` prints it and the daemon reads it
again. The old name of `-profile` is `config` where it is an argument of its own,
which the last pass rewrites, and `config=` in `-config=id`, which it does not. `Transport`: `Endpoints` are those `GetEndpoints` makes of a list of
HTTPS records, `racer` and `sock` the goroutines of `DialParallel` and their
connections.

### Network: `NameLookup`, `Neighbours`, `NetStatus`, `Control`, `RemoteCall`

`NameLookup`: a lookup in the private DNS has queries out (`asks`), each of
which the server answers, ignores, or forwards to this daemon as a new lookup.
`once` is the `sync.Once` of `init`, `acquired` the names in flight, `kept` the
cache. `Neighbours`: `names` and `addrs` are the tables of `mdns.go` with the
eviction; `byName`, `byAddr` and `info` those of a file, which `reader`s refresh
step by step under the read lock. `NetStatus`: `checker` is the goroutine,
`chans` the receivers, `held` the lock of the broadcast. `Control`: `conn`, `up`
and `down` are a connection and what is on its way in each direction, `handler`
and `smu` the server, `call`, `cmu`, `replies` and `loop` the client.

`RemoteCall` is the abstract specification of the control socket: a call is
served at most once, returns what its own command gave or an error, and ends.
`Control` implements it under the mapping `phaseBar`, `numberBar`, `resultBar`
(`Remote == INSTANCE RemoteCall WITH ...`), with the history variable `ran`.

## 3. Runs

| Run | Instance | Shows |
|---|---|---|
| `manager_safety` | 1 query, 2 tests, 1 network watcher, the three providers of the service, no initial endpoint | `LockDiscipline` and `SingleTester`, also when the first query elects under the lock |
| `manager_live` | 1 query, 1 test, the three providers of the service, which fail at will until the network settles | `DoReturns`, `TestEnds`, and `Converges`: the best working endpoint is elected and kept |
| `proxy` | 1 UDP socket, 2 connections, 3 queries, 3 slots | `SlotAccounting`, `NoWriteAfterClose`, `Served`, `Drains` |
| `cache` | 2 queries, a question of TTL 1 s and one of 3 s, maximum age 1 s, 2 ticks a second, 1 change of the configuration | `FreshHits` with truncated ages |
| `cache_clocks` | 2 queries, 2 questions of TTL 2 s, 2 ticks a second, the client's clock right or 1 s ahead and set at any moment, 1 change of the configuration | `NewConfiguration`: what was learned from one question holds for the other, as far as the clocks agree |
| `service` | 2 listeners, 2 starts | `OneAttempt`, `FullyStopped`, `ErrorKept`, `AllOrNone`, `StopEnds` |
| `host` | 17 machines (each init system with the router that goes with it, the BSDs, macOS, Windows), the daemon and 2 commands, 2 faults | `UserKept`, `SettledAsAsked`, `RouterRestored`, `PortFree`, `InstallWorks`, `CleanUninstall` |
| `answers` | messages: 3 additions of 8 kinds of records, a small pointer range and 2 pointers to follow, whole or cut; path: 2 goroutines, 2 queries of 9 kinds, sizes 100, 1300 and 4095; table: 2 lookups, 2 reads; profiles: 2 flags given, 2 stored; transport: 3 records of 2 priorities | `RoundTrip`, `TTLRight`, `EDNSFound`; `AnswerOwn`, `KnownServed`, `CutMarked`; `TableKept`; `SelectionMeant`; `OneConnection` |
| `network` | lookups: 2 at once, an address and `localhost.`; mDNS: 3 names, 2 addresses, a table of 1; file: 2 readers, 2 changes; status: 3 receivers, 2 changes; control: 2 connections, 2 callers of one client, 1 event | `LookupReturns`; `LatestHeard`; `FileFollowed`; `ReceiversKnow`; `CallsServed`, that is `Remote!RemoteSpec` |

Why these bounds are enough to be of interest: two tests are needed for one to
start while the other still runs. There is an object for each query and each
test, one for the active endpoint and one for the next, so that an election
never waits for an object. Three slots for three sockets and three queries let
the pool run out while queries wait and connections idle. The cache needs two
responses for one question in flight, and one for another question that tells
of the change; its five ticks are enough for both questions to go stale, one by
its TTL and one by the maximum age, and the three of `cache_clocks` for an answer
to be asked for, superseded and used again while the clock is a second ahead. Two starts are needed for a retry. Two
listeners are one address, UDP and TCP; the theorems cover more.

In `host` (2.7 million states), a second command can meet what the first has left
half done, and a second fault what the first has left: an install meets a unit
without its link or a Windows service that still stops, and a second daemon the
piece of a script that the first has left. In `answers`, three additions
let a name point into one that points in turn, and names lie before and after
the end of the pointers' range; the sizes fall below and above each of the three limits of `udp.go` (512 or the
client's, 4094) and `MaxBadReads` is met in two packets; the clock of the table
lets it go stale twice; one flag of each of the three passes can replace one of
another; three records make an endpoint of one priority, of two, and of a
priority that comes back. In `network`, two lookups are one and the one its own
query causes; a table of one name evicts on the second and meets entries of the
same instant on the third; the second change of a file comes while the first is
being read; a receiver leaves, stays, and comes during a broadcast; two callers
share a client's mutex while another connection holds the server's, and each
direction of a connection is full with one message. Each mutant of
`PROJECT.json` is found within these bounds.

The types of `manager_safety`, `cache` and `service` are proved and not
checked in the runs. Deadlock is checked in `manager_safety`, `manager_live`,
`cache` and `cache_clocks`. The
other configurations say at their end why their instance may stop.

### Disagreements between the code and its documentation

These runs are expected to find a counterexample, and do.

| Run | What TLC finds |
|---|---|
| `proxy_frames` | two responses on a TCP connection run into each other (`tcp.go:134`) |
| `service_hang` | a listener that comes up after another has failed is never closed, and `ListenAndServe` never returns (`proxy.go:150`) |
| `lookup_loops` | a lookup refused because its name is in flight takes away the mark of the one that runs, and a third lookup of the name runs beside it (`discovery/dns.go:126`) |

Smaller ones were met while modelling. The models contain the behaviour of the
code, and no run is spent on them:

- `manager.go:107`: two elections may announce in the opposite order, because
  `OnChange` is called with the lock released; manager.go:59 says it is called
  "whenever the active endpoint changes".
- `manager.go:232`: `getActiveEndpoint` would return with the lock held if its
  election failed. No error of the program makes one fail (see EndpointManager),
  so that manager.go:126, "Do not report network unreachable errors, bubble them
  up", does not happen either: an unreachable network is an endpoint that fails.
- `manager.go:170`: the 10 s interval of the fallback stays on the object when
  its endpoint is later elected healthy; manager.go:24-25 says it is for "when
  all endpoints are failed". (The model abstracts from the intervals.)
- `tcp.go:51`: a slot is taken before the read, so an idle connection counts as
  a request in flight; config.go:166 says "Maximum number of inflight requests
  handled by the proxy". `Served` therefore needs a slot for each socket.
- `doh.go:124`: answers of inverse queries are stored (and never used);
  doh.go:71 says they "should not be cached".
- `doh.go:82`: a change of the configuration within the second of a response
  does not invalidate it, nor does one that the clock of a client that is ahead
  has not come to (`doh.go:73`); run.go:515-519 says that routers may start with
  such a clock. `NewConfiguration` excepts exactly that second and that much.
- `proxy.go:157`: after Stop the error is that of a closed socket;
  proxy.go:76-78 says it is context.Canceled.
- `proxy.go:123`: the error returned is not always the first;
  proxy.go:153-154 says "return the initial error".
- `run.go:112`: `OnStarted` runs after 5 seconds without an error, even if a
  listener has failed meanwhile; run.go:49 says "once the daemon is fully
  started".

Met while modelling the answers:

- `query/query.go`: the loop over the additional records does not move on when
  the first is not OPT, so such a query never ends and keeps its slot
  (`EDNSFound`, `AnswerPath`'s `loops`).
- `query/query.go`: an EDNS client-subnet option shorter than 8 bytes is not
  blanked; the comment says "Avoid leaking ECS to the upstream".
- `udp.go`: a stale cached answer that comes back with an upstream error makes
  `Resolve` skip discovery, and is then discarded for SERVFAIL, so that what
  the comment calls a cache fallback never happens.
- `dns53.go`: PTR answers are stored (and never looked up) although they
  "should not be cached".
- `proxy.go`: when `hostsResolve` fails after `NewBuilder` the header of an
  upstream NXDOMAIN in the same buffer is zeroed, and that is sent
  (`AnswerOwn` excepts it). A query that cannot be parsed goes upstream
  unchanged, with its client's identifier, but the SERVFAIL made for it has the
  identifier 0 (`util.go:14`), which no client takes, and plain DNS recognises its
  answer only if the client's is 0 too (`dns53.go:80`).
- `udp.go:114`: an answer above 4094 bytes that its client takes is sent whole
  and marked truncated.
- `dnsmessage/message.go`: a call of the `Builder` that fails with compression
  on leaves its names in the table, and a later name points nowhere
  (`tainted`); asking for a header of another section rewinds a pending one
  (`astray`).
- `config/profile.go:84`: `String` drops an interface condition, so that a
  stored `-profile eth0=id` becomes unconditional; config.go:104 says an
  interface restricts a profile. An interface without an address at start-up
  becomes the unconditional default (`profile.go:33`).
- `config.go:230`: only the argument `-config` is rewritten. What is given as
  `-config=id`, the form in which `install.sh:126` writes its arguments, goes to
  the deprecated list once more, after that list was moved: a stored value of the
  same condition keeps its place, although the command line is read again after
  the stored settings (config.go:235) (`Unclear` excepts it).
- `config.go:226`: deprecated `-config` values are appended: an old default
  wins at once, an old conditional value only after it was stored and read
  again; config.go:107 says "The first match wins".
- `endpoint.go:272`: HTTPS records that do not come in the order of their
  priorities are merged into the endpoint before them (`AllHints`).
- `arp/cache.go:20`, `ndp/cache.go:20`: a lookup that loses the swap has
  written the date all the same. That does no harm while a lookup takes less
  than half of the 30 s; beyond that a refresh can be lost. A read that fails
  blanks the table, and the first lookup uses none.

While modelling the network side:

- `netstatus.go:30`: the addresses of both lists are read at the time of the
  comparison, so a change of addresses alone is never seen. `Notify` after
  `Stop` has emptied the list starts no checker, and `Stop` with an empty list
  panics. Each retry of the service starts another receiver that never ends
  (`run.go:65`).
- `discovery/dns.go`: failed lookups are kept for 5 minutes like others;
  `lookupHost` asks A and AAAA at once, so that the loop guard refuses what it
  should let through and the deadline is what ends a loop. Without a private
  DNS the probe dials `:53`, this host.
- `discovery/mdns.go:253`: the eviction looks for addresses under a name, so
  that `r.addrs` is never pruned; it spins under the lock until the clock has
  moved if all entries are of the same instant. Old names of a reused address
  are kept.
- `discovery/util.go:65`: `appendUniq` with two or more smaller values
  duplicates the first and loses the last of them.
- `hosts.go:53`, `dhcp.go:68`: two lookups may refresh at once under the read
  lock; the file is dated after it was read, and a file of the same date and
  size is not read again; a removed file keeps its tables. `hosts.go:140`
  stores its default under `localhost`, where no query looks.
- `ctl/server.go`: `Stop` forgets its clients without closing them; `handle`
  and `Broadcast` write under the server's mutex, so that one client that does
  not read stops all of them. That a full `replies` drops a reply
  (`client.go`) cannot happen with this server: it is one of the things
  `NetworkProofs` shows.

And on the host side:

- `dns_resolvconf.go:19-40`: two activations that overlap lose the user's
  `resolv.conf`; a crash between the two renames leaves none, and `SetDNS`
  fails until a deactivation.
- `dns_linux.go`: `ResetDNS` returns nil when the backup is missing, and
  NetworkManager's file stays. `dns_bsd.go`: the first rename that fails ends
  it, and `resolvconf.conf` is not restored. `dns_windows.go:39` swallows all
  errors.
- `router/openwrt/setup.go:69`: with the port written out as 53 dnsmasq's port
  is deleted and not set to 0 (`PortFree` excepts it) and never put back;
  `Restore` deletes the DHCP option even if it was the user's.
- The saved settings of DD-WRT and OpenWrt are only in memory: a
  daemon that is killed does not put them back (`forgot`), and the
  `dnsmasq_options` of a DD-WRT that had never been set is not unset
  (`ddwrt/setup.go:98`): dnsmasq goes on forwarding (`Forgets`). On Merlin a daemon
  that ends between emptying the script and writing it loses the user's part
  (`lost`), and a piece of its own left there is taken for the user's by the next. A daemon whose
  listeners fail after `Configure` exits without `Restore`.
- `host/service`: the script init systems wait 10 s for a stop; `install`
  ignores that this failed, `start` then says the service already runs, and it
  ends. A unit file left alone under OpenRC makes every install fail, and a
  lone `rc.conf` line on the BSDs one. On Windows a service that is deleted while
  it still stops keeps its name until it has ended, and the install that did it
  fails (`windows/service.go:56`). `install` prints success even when it
  failed. On SysV and Synology the `Status` of a stopped service is an error.
- `Config.Save`, `WriteTemplate` and Merlin's `addLine` truncate the file and
  then write it.

### Fairness

Goroutines are scheduled (weak fairness of their steps). `sync.RWMutex` and
channel sends do not starve a waiter, hence strong fairness of the steps that
take the manager's lock or a slot. Tests of endpoints end because each has a
timeout. A read from a closed socket returns. `PeersRead` (a write on a
connection ends) is kept apart because the code sets no deadline for it: it is
an assumption about the clients. `TrafficSpec` adds that queries keep coming
and time passes, which `DoReturns` and `Converges` need; nothing forces the
network to change, `Stop` to be called or a client to finish. `Served` assumes
at least one slot for each socket, which the code does not enforce: with fewer,
idle connections stop the UDP sockets.

In `network`, a goroutine that can run does. `LookupFairness` adds that the
deadline of a query passes, and assumes neither that the server answers nor
that it does not forward. `ControlFairness` covers the handlers, the read
loops, a call under way and a broadcast; nobody has to call, connect, close or
stop. A client of the program always reads what it is sent; a broadcast
to one that does not would wait for ever, as the code does.

## 4. Proofs

All theorems hold for any sets of processes, sockets, queries, questions,
listeners, machines, receivers, clients, hosts, records and flags, and any bounds, under the
assumptions the modules name on their constants.

| Module | Theorem | Argument |
|---|---|---|
| `EndpointManagerProofs` | `TypeSafety` | `TypeInv`: `TypeOK` is not inductive, a process in the scan needs an endpoint to try (`ScanOK`), and one that works on an object needs that object not to be reused (`ActiveOK`, `PcOK`) |
| | `LockSafety` | `LockDiscipline` is inductive with the types alone: each step that takes or gives back the mutex is one that enters or leaves the critical places |
| | `TesterSafety` | an object's flag changes only with a tester that starts or ends, and an object is not reused while referred to |
| `InflightProxyProofs` | `ProxyTypes`, `SlotSafety`, `CloseSafety` | `SlotAccounting` makes the counter a cardinality, hence never negative; `WaitGroups` says the same of each WaitGroup, and that a closed connection's is zero |
| `DoHCacheProofs` | `CacheTypes`, `HitsAreFresh` | `Dated`: every value in play is dated no later than it was computed, so the age the code sees is no less than the true age, truncation included |
| | `NewConfigurationHolds` | `Told`: a value of a configuration older than one learned was computed no later than in the second of the learned one's date, and `lastModified` is no earlier than that date. A hit has a wall date after `lastModified`, and the difference of its two dates is what the client's clock was ahead |
| `ServiceLifecycleProofs` | `ServiceTypes`, `AttemptsDoNotOverlap` | `Phases`: only the last start is not over, and a start is over only when all its listeners are, because every one of them has sent its error (`AllSent` counts) |
| | `StopIsFull` | `Awaits`: Stop returns only when the start it waited for is over, and if that is the last one `Phases` does the rest |
| | `ErrorsAreKept` | `Kept` relates the error kept so far to the listeners that have sent theirs |
| `HostProofs` | `AdministratorsFileKept`, `SettledAsLastAsked` | `IInv`: as long as no two calls overlap, what each has done at each of its steps (`Done`), whose file is where (`Kept`, `OwnFiles`), and what a call has put in place can be undone (`Undoable`, `ServicesReset`). The router, the init system and the commands leave these files alone |
| | `HostRouterRestored`, `HostPortFree` | `RInv`, over every platform at once: the calls of the daemon's life come in their order (`InItsLife`), what is left of a call is the end of its platform's plan (`OnPlan`), a setting of the user's is in its place or in the daemon's memory unless a daemon was killed with it (`Saved`), and how far Restore and Configure have come is seen on what is left of them (`PutBackSo`, `Leaves53`). `SInv` follows the user's script: while none was lost it is in the file before a daemon begins, in its memory from then on, and in the file again once Restore has written it |
| | `HostInstallWorks` | `CInv`: what is left of a command and of a plan says what has been done (`ActsLeft`, `DoneOf`), an Uninstall leaves nothing that an Install refuses, even where one of its own steps is refused (`UninstallSoFar`, `ClearToInstall`), and no daemon is wanted while a unit is written or removed (`Stays`). Of the plans it needs what `GoodPlans` and `ForgivingPlans` say, which is shown of each init system. `WInv` says of Windows that a daemon has a unit (`WindowsAlive`) and that an install which has met no fault has its unit away, deleted or marked, until it writes it (`WindowsWay`), so that only a marked one can refuse it |
| | `HostCleanUninstall` | `UInv`, on top of `IInv`, `RInv` and `CInv`: while nothing has failed, the DNS is clean from the reset of `uninstall` on unless a daemon may still hold it, and the daemon's own reset is clean too (`GivenBack`); the file Restore removes was written, so it can fail at nothing, and a daemon that is gone has let go of dnsmasq (`LetGo`); an Uninstall that ends well has removed the unit (`Uninstalled`), which starts no daemon again |
| | `HostTypes` | from `IInv`, `RInv` and `CInv` together: that only the activation and the deactivation have a DNS call of the daemon's under way is `CTypeOK`, that a router's call dies with the daemon is `InItsLife` |
| `AnswersProofs` | `ClientGetsItsOwn`, `KnownIsServed`, `WhatIsCutIsMarked` | `PathInv`: one statement of each goroutine (`OnTheWay` at each stage, then `Answered` and `Sized`) and one of each cached answer (`Stored`), so that a step of one leaves the others alone |
| | `OneConnectionIsKept` | `RaceInv`: one statement of each racing goroutine, and the errors counted (`Caller`); that an endpoint holds the hints of one whole priority needs the first of its records, which `LeastNatural` gives by well-foundedness of the naturals |
| | `SelectionIsMeant` | `ProfileInv` tells the two lives of the program apart: in the first (`FirstLife`) what each pass of `Parse` has added, in the second (`SecondLife`) what was stored and is read again. A list stays `Ordered`: one rule for each condition, in the order in which the conditions came (`SetAllDoes`, for any list of flags; `PassAdds`, `Migrated`, `TakenAgain` and `ReadAgain` for each pass). What the first life ends with is `Final`, each rule with the value that was meant; the second may add behind it, from the deprecated list that `-config=id` leaves, only rules it has already (`Known`), and such a list (`Settled`) chooses as meant (`SettledChooses`) |
| | `TableIsKept` | `TableInv`: who loses the swap has written a date of this round, so a refresh is under way or has just ended. It needs `2 * Delay <= Throttle` and `ReadTime + Delay <= Throttle`, which `TableAssumption` states |
| | `AnswersTyped` | of `MCAnswers`, whose parts leave each other alone: `PathInv`, `TableInv`, `ProfileInv` and `RaceInv` imply the types of their parts, and `MessagesTyped` is the last |
| `MessageProofs` | `WholeAgrees` | `BuilderInv`: every record added lies on the cells of the buffer in its place (`Laid`), and each entry of the compression table is where its name is (`TableIn`). What a pack writes depends only on the buffer, the table and the record (`PackedAs`), so packing whole repeats the calls one by one |
| | `WhatIsPackedIsRead` | what a reader holds is a `Copy`: a prefix of the buffer, in which the TTLs may have changed. A name packed at a place is labels and then an end or a pointer to an earlier place (`NameIn`), so following its pointers (`Way`, `HopsLead`) gathers its labels and ends unless there are more than `MaxHops`; fields and records follow by their kind. `Standing` says that the parser is between two records, or between a header and its data, and `ReaderInv` keeps it so through every call, in any order |
| | `TtlIsRight` | `AgedSo`: `updateTTL` walks the same `Copy` record by record; after each, `MinSo` says which TTLs have been counted, and that only TTLs have changed |
| | `QueryIsUnderstood` | what a reader is given is a `Copy` here too: `SkipSections` stops where the additional records are laid (`SkippedTo`), the first of them is read as it was added (`FirstRead`), and if it is the OPT record the options with a full address are `Blanked` where they lie. `Endings` relates each end of the loop to what was found |
| | `MessagesTyped` | from `BuilderInv` and `ReaderInv`: the table holds only offsets a pointer can hold, and the parser stands within the message |
| `NetworkProofs` | `ReceiversAreTold` | `NetInv`: the lock is held while a change is told (`Telling`), who is not waited for knows what the checker compares with (`Informed`), and the checker lives while there are receivers (`Checking`) |
| | `FilesAreFollowed` | `FileInv`: while no change went unseen, what a refresh has read and stored so far is what the file holds (`Refreshing`), however many refresh |
| | `LatestIsHeard` | `HeardInv`: an entry that was evicted is no younger than those that stayed, and `AppendUniq`, whatever it loses, keeps what it is given (`AppendUniqHas`) |
| | `NetworkTypes` | of `MCNetwork`, whose parts leave each other alone: `LookupShape` types a lookup with its queries and its origin, `FileBounds` bounds what readers hold, and `NetInv`, `HeardInv` and `ControlTypes` do the rest |
| | `ControlImplementsRemoteCall` | `ControlSpec => Remote!RemoteSafety`: on each connection at most one message belongs to a call, it is in one place (`OneMessage`), and it is that of the call under way, whose command has run as often as the place says (`Fitting`) |
| | `ControlTypes` | `Bounded`, on top of `Inv`: that no more replies wait than there is room for comes from `OneMessage` |

Model-checked only: everything under fairness (`DoReturns`, `TestEnds`,
`Converges`, `Served`, `Drains`, `AllOrNone`, `StopEnds`, `LookupReturns`, and
of `CallsServed` that a call ends), which the prover cannot do; and the
counterexamples. Every invariant of the passing runs is proved.

The library's induction theorems cannot be used here, because the provers do not
instantiate a theorem about an operator. Where something is computed element by
element (the flags of a list, the labels of a name, the fields of a record, the
records of a section) the proof takes the least number at which a step-by-step
claim fails (`LeastNatural`, from the well-foundedness of the naturals) and shows
that the step before it leads on. The recursive functions of the model have
lemmas of their own that say what their first and their next value is.

What the theorems about messages leave out is what the properties leave out:
messages of a builder of which a call failed after it had changed the
compression table (`tainted`), a parser that was asked for a header of another
section while one was pending (`astray`), and the TTL 2^32 - 1, which
`updateTTL` takes for none. `MessageAssumption` asks that names and lists of
options are sequences, that a record has as many fields as its type, and that
TTLs and ages are at most the largest one.

## 5. Not modelled

- What files and packets look like: the texts of hosts and lease files, of mDNS
  packets (beyond the entries they hold), of `arp` and `ip neigh`; the texts of
  profile conditions and domains. A model has what is read from them.
- TLS, HTTP/2 and the provider that reads its endpoints from a URL
  (`SourceURLProvider`): an endpoint answers or fails, which `EndpointManager`
  leaves free.
- The flags of `config` other than profiles and forwarders: single values with
  a default.
- How the system's own DNS servers are found (`guessDNS`), how a platform is
  recognised, the discovery sources of Merlin and Firewalla, the order of the
  sources, and the report of client information in the DoH headers.
- Entware, whose scripts are those of SysV at another place, and the `firewalla`
  package of `router/`, which `detectRouter` never returns.
- Logs, host information, self-upgrade: I/O with no state of their own.
- `ctl/internal/winio`, a third-party copy, and `internal/testutil`.

Within the modelled parts: late packets of plain DNS that carry the identifier
of the query under way are not told apart from its answer; the counts of a
message header do not wrap in `updateTTL`; classes are left out; the hardware
table's lookups and reads take bounded time; `Stop` of the ARP cache,
`Restart` of the service and `Broadcast`'s callers do not exist in the program
(`Broadcast` is modelled all the same, because it shares the connections).
