# Verification of the caching HTTP proxy

TLA+ models of the proxy under `src/docker-deploy/src/http_caching_proxy` (file
names below are relative to that directory), the TLC runs that check them on
small instances, and theorems proved with TLAPS. `PROJECT.json` lists the
components, runs, mutants, theorems and findings, and maps each definition to
the lines it models.

## The system

The program is a daemon. `HttpServer::startServer` accepts connections on port
12345 and gives each one a detached thread that runs `HttpServer::process`:
receive one request, parse it, answer it, end.

| component | state | operations | who calls it |
|---|---|---|---|
| response cache (`cache`) | `cacheList`, `cache_map`, `capacity` (20), `s_mutex` | `checkexist` (shared lock), `get`, `put` (exclusive) | agent, from every thread |
| freshness decisions (`agent::check`, `checkCachebility` and helpers) | none; reads the clock, a cached response, a request | decide hit / revalidate / not cached, store / not store | agent |
| agent (`getCorrespondResp`) | locals of each thread | look up, revalidate, fetch, store, merge a 304 | `process` |
| `HttpServer::process` | locals of each thread | 400 for bad requests, CONNECT, answer, 502, chunked relay | accept loop |
| request IDs (`HttpRequest::unique_id`) | an atomic counter | increment, load, in `HttpRequest::parse` | `process`; agent again when it revalidates |
| messages (`HttpRequest`, `HttpResponse`) | `rawData`, `rawDataStr`, `fields` | `parse`, `setRawdata`, `getField` | all |
| parser (`lib/llhttp.c` behind `HTTP_Parser`) | `llhttp_t`, the collected method, url, status, keys, values, body | `parse` and its callbacks | messages |
| `HttpClient` | `sockFd` | `init`, `sendRequest`, `recvResponse` | agent, tunnel, chunked relay |
| CONNECT tunnel (`process_connect`) | two sockets, a select timeout | relay until timeout or error | `process` |
| chunked relay (`process_chunked`) | the connection to the origin | send, receive, until end | `process` |
| accept loop, socket ownership | descriptors, one `SocketWrapper` each | accept, spawn, close by RAII | `main` |
| logger | one `ofstream` | one function per kind of line | all |
| daemon start, container, `test.py` | - | fork twice; a test origin with expected log lines | - |

Threads interact through the cache, the ID counter, the process's descriptors
and the log only. Each call of the cache is atomic, but the agent makes up to
five calls for one request with no lock held between them (`checkexist`, `get`
in `check`, `get` again to answer or to take validators, `put`, `get`), so an
entry may be replaced or evicted between any two.

What is hard, and what each component has to get right:

* **Cache.** The map holds list iterators. Every sequence of gets and puts must
  keep the two in step, evict the least recently used URL and no other, stay
  within the capacity, and never follow an iterator whose node is gone.
* **Freshness.** Instants are computed from local time and corrected with a
  constant; the decision when storing (what the log announces) and the decision
  when looking up are made by different code and must agree to the second;
  directives of the request and of the response interact; dates may be missing
  or malformed.
* **Agent.** Under every interleaving a client gets a response of the URL it
  asked for, a response marked no-cache is validated before it is sent, what
  may not be stored is not, and one request has one response.
* **Request IDs.** In the order of parsing.
* **Parser.** A body is framed as its own header says, by nothing a header line,
  a folded line or a message before it left behind; lengths do not wrap around;
  keys and values, collected by separate callbacks, stay paired.
* **HttpClient, tunnel, relay.** End of stream, silence, partial data and
  hang-ups at any point: bytes in order, none lost, no overrun, and an end.
* **Descriptors.** Each closed exactly once, by its owner.

The `hazards` of `PROJECT.json` list these at the lines where they bite, with
the properties that cover them or why none does.

## Modules

| module | models | lines |
|---|---|---|
| `Cache` | the cache: list, map, allocator | `cache.cpp`, `cache.h` |
| `LruCache` | abstract: a bounded map that forgets the least recently used key | - |
| `CacheRefinement` | the calls of `Cache` with what they return, and the mapping to `LruCache` | `cache.cpp` |
| `Freshness` | `check()` and `checkCachebility()` with a running clock, one URL | `agent.cpp` 136-252, 316-341, 395-618, `cache.cpp` 36-58 |
| `Agent` | threads running `process` and `getCorrespondResp` over `Cache` | `agent.cpp` 3-135, 254-295, 343-393, `http_server.cpp` 65-170 |
| `RequestIds` | the ID counter | `http_request.cpp` 37-52 |
| `Server` | accept loop, threads, descriptors and their wrappers, `HttpClient::init`; EXTENDS `RequestIds` | `http_server.cpp` 65-170, `http_client.cpp` 12-47, `socket_wrapper.h` |
| `Streams` | two TCP connections as `send`, `recv` and `select` show them | external |
| `HttpClient` | the send loops and `recvResponse`; EXTENDS `Streams` | `http_client.cpp` 53-100, `http_response.cpp` 13-17 |
| `Relay` | one request's fetch, chunked relay or tunnel; EXTENDS `HttpClient` | `http_server.cpp` 172-280 |
| `ParserState` | llhttp's object and operations | `lib/llhttp.c`, `lib/llhttp.h` |
| `StartLine`, `HeaderLines`, `MessageBody` | llhttp's automaton, in three parts | `lib/llhttp.c` |
| `HttpParser` | the automaton with `HTTP_Parser`'s callbacks, over one buffer | `http_parser.h`, `http_parser.cpp` |
| `HttpMessage` | abstract: line, header, body framed in one way, trailer | - |
| `CacheProofs`, `CacheRefinementProofs`, `FreshnessProofs`, `AgentProofs`, `RequestIdsProofs`, `ServerProofs`, `RelayProofs`, `ParserProofs` | theorems | - |
| `MCCache`, `MCLru`, `MCFreshness`, `MCAgent`, `MCParser`, `MCRelay`, `MCServer` | instances for TLC | - |

Operators introduced by a comment "Slip:" are not part of a specification.
Each is a definition as a small mistake would have it; `mutants` in
`PROJECT.json` says which definition it replaces and which property then fails.

### Cache

`cacheList` is the sequence of node addresses, `cache_map` the map from URLs to
addresses (`NoNode` for an absent key), `heap` what lives at each address. An
address freed by an eviction or a replacement may be handed out again, so a
dangling map entry either points at nothing (`~Valid`) or at the node of
another URL. Following an invalid iterator is undefined in C++; the model then
sets `undefined` and stops (`CacheNext` requires `~undefined`), promising
nothing about what follows. One action per path of `get` and `put`:
`GetHit`, `GetInvalid`, `PutNew`, `PutEvict`, `PutReplace`, `PutInvalid`.

A response is a record. `r.url` is what `getField("Url")` returns for it: the
empty string, since a response has no request target, or the value of a header
that happens to have that name. `put` reads the key to erase from there
(`EraseKeyOf`), which is why the module treats both kinds of response.

Ordinary responses name no key, so the first eviction of one leaves an entry
without a node. `MatchedUntilFull` says exactly when map and list agree: as long as
the map has no more keys than the list has room for (`KeysFit`), which is until
the first key is left behind and never again. `DefinedUntilFull` and, for the
agent, `OwnUntilFull` say what callers have until then. `ListOwnsNodes` and
`SizeBound` hold always. None of them needs a header named `Url`; mixtures of
responses with and without it are what `cache_lru` runs.

`CacheRefinement` adds `answer`, what the last `get` returned, to the state, and
`LruCache` has it too: without it a `get` that leaves the order alone would be
invisible, and a cache that evicts in order of insertion would implement the
abstract one. `LruWhileMatched` is the refinement: each call that finds map and
list in agreement and leaves them so is a step of `LruCache`. An eviction that
erases its victim's key is such a call; one that leaves the key behind is not, and
from then on the implementation is no LRU cache and the property promises nothing.

### Freshness

Dates in HTTP are UTC, but `mktime` and `ctime` use local time, which is `Zone`
seconds behind UTC. The model keeps both: an instant is what `time(0)` returns,
a label is what a date string says. `Shift` is the 18000 the code adds to the
clock. The Cache-Control string is a record of the directives the code searches
for; a directive is absent, without value, or a number (`Findage` gives -1, 0,
or the number, as `findage` does). `other` stands for any directive that only
makes the field non-empty. A malformed date leaves the `struct tm`
uninitialised: its value is any member of `Junk`. `check` reads the clock
several times, so a `Lookup` has two readings, `at` and `later`.

`Store` is the 200 after a miss (`agent.cpp` 91-98). What a revalidation stores, a
200 or a 304 (`agent.cpp` 50-60), is in `Agent`, which has no clock.
`entry.rawData` is what a hit sends (`agent.cpp` 21); the thread that misses or
revalidates sends its client the text without the added Date, which no module
keeps.

`promise` records what the log line said when the response was stored ("cached,
expires at", or "cached, but requires re-validation"), and `lookups` what the
last lookup decided. They are history: nothing reads them but properties.

`checkrevalidation` and the branches that differ only in a log line are
abstracted.

### Agent

A thread's `pc` names the point before its next cache or network operation, so
every gap between two critical sections of `getCorrespondResp` is a state. `job`
holds the locals: URL, whether the client's request and the request to the
origin are conditional, whether `client.init` was called, the response held.
`sent` is what went out on the client's connection. What `check` decides is
nondeterministic except that no-cache forces revalidation; `Freshness` has the
rest. The origin may answer anything in `Reply`, but a 304 only to a
conditional request. `Agent` EXTENDS `Cache` and uses its `Get`, `Put` and
`Checkexist` unchanged. `Fail` is every way a fetch yields NULL.

The text that `editResp` produces from a 304 with a header named `Url` reaches
only `rawData` of the copy that is stored, and is not modelled.

### RequestIds and Server

`HttpRequest::parse` increments the counter (`Increment`) and then converts it
(`Load`): two atomic operations with a gap. `newest` and `floor` are history:
the greatest ID given so far, and its value when the thread's parse began.

`Server` runs those operations in the threads that `startServer` makes. `fds` is
the kernel's table: which socket a number stands for and whose it is. `accept`
and `socket` hand out the lowest free number, so a number that was closed is
the next one used. `client`, `origin` and `old` are the numbers that the
wrappers of a thread hold; a wrapper closes the number it has, not the socket it
was made for, which is what makes a double close visible. The actions of
`HttpClient::init` are those of its loop: `Socket` opens and assigns (the new
wrapper's number is taken before the old wrapper is destroyed, hence `old` and
`CloseOld`), `Connect`, `ConnectFails` and `CloseFailed`, which closes by hand a
number that stays in its wrapper. `Leave` and `ThreadEnds` are the two
destructors at the end of `process`, in that order. `Connectable` makes a
connect() fail on a descriptor that is closed or already connected. When
accept() fails for want of a descriptor the loop tries again; nothing changes,
and `Accept` is not enabled. `failed` is history.

What a thread does on its connections is one step, `Exchange`: it touches no
descriptor.

### Streams, HttpClient and Relay

The bytes a peer sends are numbered, so a byte that is lost, doubled, moved or
made up shows. `recv` returns everything there is up to the size it is given:
pieces of every size arise from when the peer sends. `peer` says whether a peer
has finished (end of stream), reset, or reset with the one error already
reported (`gone`), after which `recv` returns 0. `send` takes any part of what
it is given; to a peer that has reset it succeeds, fails or raises SIGPIPE
(`SendToGone`), and the default action of SIGPIPE ends the process (`killed`).

`recvResponse` is `RecvFirst` and `RecvMore`. `buffer` is the array of `BufferSize`
bytes, 0 where nothing was read; `TextLength` is the `strlen` of it that `parse`
sees; `total` is the count that an error decrements, `wanted` the Content-Length
as `stoi` converted it from the first piece (`length` in a response holds what
each of its prefixes converts to). A text that goes on behind the length
announced does not parse (`Beyond`) and has neither fields nor body: in the first
piece it is returned as it is, in the loop the thread waits on. The next `recv` is given the whole size again
however much the buffer holds, so a write behind the end is a reachable branch:
`undefined`. `held` is what the next send loop has left.

`Relay` uses these for one thread of `process`: `mode` is `fetch` until the
response is in, `chunked` in the loop of `process_chunked`, `tunnel` in that of
`process_connect`. In the tunnel, `SelectClient` has priority over
`SelectOrigin`, and `Tick` is time passing in `select`, taken off `left`, which
Linux does to the timeout that the code sets once.

### The parser

`ParserState` has the fields of `llhttp__internal_t` that anything in the
repository reads, and the operators `llhttp__internal__c_*` and
`llhttp__after_headers_complete` and the like; those of llhttp's `api.c`, of
which the repository has only the compiled library, are external. A step is at
one node of the generated automaton (`s.current`, named after its label) and
chooses the next character or word by kind: a digit, the token "chunked", a
space, CR, anything else. So the input is every input, up to the bounds. `event`
is the callback the step makes, `read` what the current message has said so
far: history that only properties read, apart from the bounds.

`Digit` and `HexDigit` are tested for overflow before they are taken, with
`MaxLength` for 2^64 - 1, and the product is reduced modulo `MaxLength + 1`, so a
missing test wraps around as in C. `HttpParser` adds `HTTP_Parser`'s lists: a
piece is the number of the line, or message, whose text it holds, so that a
value paired with another line's key shows. Only `strict` mode's half of
`llhttp.c` is compiled in and modelled; no lenient flag is set anywhere.

`HttpMessage` is what the automaton implements: one way of framing, decided
when the header ends; a trailer after chunks only; what can follow what.

## Runs

| run | shows | bounds |
|---|---|---|
| `cache_lru` | calls are an LRU cache's while map and list agree; they agree, and nothing is undefined, exactly until the map has a key too many; the list stays sound after that too | 4 URLs, capacity 2 (room for 3), so the fourth URL evicts; 4 addresses; per URL 2 ordinary responses and one with its URL in a header `Url` |
| `freshness_est` | announced expiry, revalidation and request max-age are honoured where local time is UTC minus `Shift` | clock 0..4, 23 headers, 20 requests, 2 junk labels |
| `agent_threads` | every interleaving of two threads, with evictions between their cache calls: gets come when `checkexist` would say yes, clients get their own URL's responses until the map has a key too many | 2 threads, 3 URLs, capacity 1 (room for 2), 3 addresses; 4 responses for one URL, 1 for each of the others, which push it out (626 thousand states) |
| `agent_alone` | every kind of answer, with evictions and the dangling entries they leave: no-cache is validated and nothing uncacheable stored | 1 thread, 2 URLs, 73 responses each, capacity 0 (room for 1), 2 addresses |
| `parser` | the parser's framing, lengths and pairing, and its refinement of `HttpMessage`, requests and responses | 2 messages, 2 lines, 1 fold, 1 piece of body; `MaxLength` 15; digits 0, 1, 6, hexadecimal 0, 1; version digits 0, 1; status 101, 200, 204; methods GET, CONNECT, PRI (1.2 million states) |
| `relay` | one request's connections: order, completeness, no overrun, no spinning, and that threads end | buffer of 5, `MaxInt` 8, header of 3 bytes whose fields end at 2 or 3, bodies of 0 to 3, request of 2 bytes, tunnels of 2 bytes each way, timeout of 2 (178 thousand states) |
| `server` | descriptors and IDs of concurrent threads | 2 threads, 3 descriptors, hosts with 0 to 2 addresses, 3 connections, counter modulo 8 |

Why the bounds are enough.

* The cache's operations touch one URL, the victim and the front of the list;
  two entries beside those give every position of a node (front, middle, back),
  and four addresses leave at least one to reuse.
* An interleaving of the agent is about one other thread changing one entry
  between two calls: replacing it, or evicting it with one of the two other URLs.
  Three addresses in a list of two leave one to reuse for another URL.
* `Freshness` compares sums of at most three small numbers with the clock;
  lifetimes of 0 to 4 with a clock of 0 to 4 put every comparison below, at and
  above its boundary.
* What leaks in a parser leaks from one line into the next, from a line into its
  folded continuation, or from one message into the next: two lines, a fold
  and two messages. With 15 as the greatest length, 10 and 11 fit, 16
  overflows in the sum, 60 and hexadecimal 10 in the product. 101, 200 and 204 are the three groups of status codes the code tells apart, as GET,
  CONNECT and PRI are of methods.
* In the relay a buffer of five bytes holds a header and two bytes of body
  exactly; `TooLong` is one byte more; `More` has bodies that go on behind their
  Content-Length; `MaxInt` 8 is below the 9 that `stoi`
  refuses; a length of two digits, 12 of which only 1 may have arrived, is cut.
* In the server two threads over three descriptors run out of them and reuse
  them; the third connection takes the number that the first gave up.

Bounds in guards are `MaxNow` (the clock), `unique_id < Modulus - 1` (no
wrap-around), `MaxMessages`, `MaxLines`, `MaxFolds`, `MaxPieces` (`Within`),
`MaxSent` (`MaySend`), `MaxAddresses` and `MaxAccepted`. `CHECK_DEADLOCK FALSE`
appears where behaviours really end: undefined behaviour, the end of a buffer,
a thread that is over while no peer acts, connections all accepted.

### Fairness

Only `Relay` assumes any: `WF_vars(Thread)`. A thread whose next step is possible
takes it; a `recv` that waits is a step that is not enabled, so a silent
origin is not forced to speak. Time passing in `select` is part of `Thread`: the
clock does not stop. The peers have no fairness: they may fall silent, hang up or
reset at any moment. They do take what they are sent: `send` always takes at
least one byte of what is offered to a peer that has not reset. A client that
stops reading for ever is therefore not in the model; the code would block in
`send` for ever. All other specifications are checked for safety only: their
threads never wait for each other, the cache's lock is held for one call that
waits for nothing, and whether a thread gets on depends on its connections.

* `HangUpEnds`: an origin that hangs up, in the middle of anything, ends the
  thread. `CompleteEnds`: so does a complete response on a connection that stays
  open, however it was cut into pieces.
* `QuietTunnelCloses`: the two seconds end a tunnel in which no one hangs up.

`NoSpin` is the part of these that needs no fairness: each step of the thread
lessens `Remaining`, the steps it has at most until it waits or ends, and only
what a peer sends adds to it. It excludes tunnels of which a side has ended; that those
spin is the run `tunnel_closes`.

### Runs that end in a counterexample

Each checks a property quoted from the repository's own comments and tests that
the code does not have (`findings`):

| run | property | why it fails |
|---|---|---|
| `cache_undefined` | `NeverUndefined` | the key to evict is read from a field that responses do not have |
| `freshness_utc` | `ExpiryKept` | 18000 seconds added to the clock, local time UTC |
| `no_cache_race` | `NoCacheValidated` | the response judged is not the response sent |
| `tunnel_closes` | `TunnelCloses` | a side that has ended stays readable: `select` never times out, and the loop spins |
| `descriptors` | `ClientOwned` | a failed `connect` closes its number by hand, and its wrapper closes the number again |

### Known divergences

The models translate these as the code has them; no run is spent on them.

Cache and agent:

* `cache.cpp` 61 compares with `>` before pushing: 21 responses fit a cache
  whose capacity is 20. `SizeBound` has the bound the code does keep.
* `cache.cpp` 51: the text parsed again is the one from before the Date was added,
  so `fields` has no Date (`Freshness.Put`); `test.py` 192-194 expects one.
* `agent.cpp` 520: a request's no-cache is looked at only if the response has
  no Cache-Control (`CheckNoCache`); the comment at 514 says both are checked.
* `agent.cpp` 491-493: max-stale is compared with expiry minus now, which is
  negative for an expired response, so it is never exceeded (`CheckMaxStale`).
* `agent.cpp` 228: min-fresh counts only beside max-age, and is compared with
  the age (`TooOld`).
* `agent.cpp` 259: the 304 itself is stored in place of the response it refers
  to, and `agent.cpp` 51 may send it to a client that asked no condition (`Merge`).
* `cache.cpp` 49: the Date line that is added ends with `ctime()`'s newline and then
  its own, so it ends the header: the old end of the header becomes the beginning
  of the body, which shifts by two bytes. In a text without an empty line `find`
  answers npos and the line goes in after the first byte. `Freshness.Put` says
  only that the text has a Date; no property is about the text's layout.
* After an eviction, the entry left behind may come to point at a reused node:
  a client is then sent the response of another URL (`EraseKeyOf`, `Hit`).
* If evicting forgot the right key, another thread could evict an entry between
  `checkexist` and `get` (`CheckExist`, `GetGone`): a correction of `cache.cpp` 62
  alone would uncover this race. `EraseEntriesOf`, the mutant of
  `UsesCacheAsAsked`, is that correction, and `agent_threads` then fails.
* `http_server.cpp` 156: no return after the 502, the malformed response is
  sent as well (`Send`); `danger_log.txt` 37 says handling stops.
* `http_server.cpp` 159: for a chunked response from the cache, the relay reads
  through a null socket pointer (`Send`).
* `http_request.cpp` 42-43: two requests parsed at the same time can share an ID
  (`Load`); `danger_log.txt` 25 relies on unique ones.

Connections:

* `http_client.cpp` 31-39: after a failed connect the number is free, `socket()`
  for the next address returns the same number, and the assignment destroys the
  old wrapper, which closes it: no address after the first works (`CloseOld`).
* `http_client.cpp` 84: a response with a Content-Encoding is returned with the
  whole buffer, zeros included, after one piece (`RecvFirst`).
* `http_client.cpp` 87: a Content-Length that the first piece cuts is converted as
  far as it is there (`LengthIn`); one above an int throws where nothing catches,
  and the process ends.
* `http_client.cpp` 88-95: bytes behind the Content-Length make the whole text fail
  to parse, its fields and body are empty, and the loop reads on until the origin
  hangs up or the buffer is full (`Beyond`); in the first piece such a text is
  returned as it is. `CompleteEnds` and `Entire` are therefore about bodies of the
  length announced at most; `HangUpEnds`, `NoOverrun` and `NoSpin` cover the others.
  Line ends or a second message behind the body would parse; they are not modelled.
* `http_client.cpp` 86-88: for a Content-Length of 0 the loop ends before it
  begins, so if the first piece ends after that field and before the end of the
  header, the rest of the header is never read nor sent (`Loop`); `Entire` is
  about lengths above 0.
* `http_response.cpp` 15: the text parsed ends at a zero byte, so a body with one
  never has its length; the thread waits for the connection's end (`TextLength`).
* `http_client.cpp` 89: a response that does not fit the buffer is written behind
  its end (`RecvMore`).
* `http_server.cpp` 240: a client that has shut down its side starves the origin's
  (`SelectOrigin`).
* `http_server.cpp` 178: SIGPIPE has its default action (`SendToGone`).
* Descriptors at or above FD_SETSIZE, and the address list that is not freed when
  every address fails, are outside the models.

Parser:

* `http_parser.cpp` 17: `on_message_begin` is not set, so what a second message
  in the same buffer brings is appended to the first's (`Callbacks`).
* `http_parser.h` 109: keys and values are paired by index; llhttp calls the
  value's callback differently for folded lines, and later pairs shift
  (`FieldsPaired` says how far).
* `parse()` answers true for a message that is cut off anywhere (`parse`).
* Field names are compared with the case they were sent in; a name beginning
  "proxy-connection" is read as Connection; a Content-Length in a trailer is not
  refused; "chunked" in a folded line is not recognised (`HeaderLines`).

## Theorems

`CacheProofs`, from `CacheAssumption` only (any URLs, addresses, capacity):

* `StructureAlways`: `CacheTypeOK`, `ListOwnsNodes` and `SizeBound` always hold.
  Inductive invariant `Structure`: types, the list has no duplicates, its
  elements are exactly the live addresses, and the size bound. It says nothing
  of the map, so it survives dangling entries. The sequence lemmas
  (`RemoveAtFacts`, `ConsFacts`, `FrontFacts`) say what removing, prepending and
  dropping the last do to a duplicate-free sequence.
* `SafeWhenUrlsFit`: if `Url` is finite and has at most `Capacity + 1` members,
  `MapMatchesList` and `NeverUndefined`, whatever the headers. When `put` is about to evict, the list
  has `Capacity + 1` nodes, each the node of some URL, all different from the
  URL being put: one URL too many (`NothingEvicted`). The invariant is
  `Structure` with `Matched`; `Counted` carries the bound.
* `ExactUntilFull`: if no response names another's URL in a header `Url`
  (`OwnOrUnnamed`: ordinary ones name none), `MatchedUntilFull` and
  `DefinedUntilFull`, for any number of URLs and with evictions. The invariant
  `FullInv` says that while the keys fit, map and list agree, the list has as many
  nodes as the map has keys, and each entry's response is one put under its key
  (`Owned`); hence a key that an eviction erases by name is the victim's
  (`EvictMatches`). The count is what makes it exact: an eviction erases at most
  the one key while its put adds one (`EvictKeys`), so the map never loses keys
  (`KeysKept`) and, once it has too many for a list of bounded length, agrees
  with it no more (`MatchedFits`). A header naming another URL is excluded because
  the eviction would erase a key whose node stays.

`CacheRefinementProofs`, from `CacheAssumption` alone, for any URLs and any
responses, with any headers:

* `CacheIsLruWhileMatched`: `CallSpec => LruWhileMatched`. The mapping reads each
  list node as the URL whose entry points at it, a choice that agreement makes
  unique. The proof works with `Tracks`, which relates URLs and nodes position by
  position: any sequence of URLs that tracks the list is the mapped one
  (`OrderIs`), and prepending, removing and dropping the last keep that
  (`TracksCons`, `TracksRemove`, `TracksFront`). An eviction that leaves map and
  list in agreement has erased the key of the last node, which is the last URL of
  the mapped order.

`FreshnessProofs`, from `FreshnessAssumption`:

* `TypeCorrect`.
* `RevalidationAlwaysKept`, for any `Zone` and `Shift`.
* `ExpiryAlwaysKept`: if `Zone = Shift`, `ExpiryKept` and `MaxAgeKept`. This is
  the precise condition under which the 18000 is harmless.

The inductive invariant adds to the types `PromiseKept`, which ties the history
variable to the stored fields (the promise is what the code computed when it
stored them, at an instant not later than any lookup) and each lookup to the
decision that `Check` makes.

`AgentProofs`, from `CacheAssumption` and `UrlAssumption` (some URL exists), for
any number of threads:

* `AgentTypeCorrect`.
* `ListSoundUnderThreads`: `ListOwnsNodes` and `SizeBound`.
* `OnlyCacheableAlways`: `OnlyCacheableCached`, even where entries dangle.

The inductive invariant joins `Structure` with what is true of every live node
(`StoredOK`: it may be stored) and of what a thread holds at each `pc`
(`HeldAt`: about to store, it holds something that may be stored). The property
speaks of the list only; a thread that merges takes its response from the heap,
so the invariant must cover the heap as well.

`AgentProofs` also has, for any number of threads, if `Url` is finite and has at most
`Capacity + 1` members (`Fit`), and every response in `Reply[u]` is one for `u`,
has `u` or nothing in a header named `Url`, and is not chunked (`Plain`):

* `ThreadsUseCacheAsAsked`: `Spec => CacheSpec`. No lock spans `checkexist` and
  the `get`s that follow it, yet each `get` finds its entry.
* `OwnResponseAlways`: `OwnResponse` and `NeverUndefined`.

`FitInv` adds to the invariant above `Counted` from `CacheProofs`, `Owned` (what
is stored under a URL answers it) and `Served` (a thread about to `get` has an
entry; what it holds and has sent answers its request). The step that carries
the argument is `Grows`: no step of any thread removes an entry, so what one
thread checked stays true while others run. Both conditions are needed: an
eviction falsifies `Grows` (see "Known divergences"), a `Url`
header naming another URL makes `Merge` fetch that URL's response, and a
chunked response from the cache is the null pointer of `Send`.

With evictions, for any number of URLs and threads:

* `OwnResponseUntilFull`: `OwnUntilFull`, if every response in `Reply[u]` is one for
  `u` and names no other URL in a header `Url` (`OwnOrUnnamed`).
* `OrdinaryUseCacheAsAsked`: `Spec => CacheSpec`, and `DefinedUntilFull`, if
  responses have no such header and are not chunked (`Ordinary`). This is what
  happens with ordinary responses: an eviction forgets no key, so each `get` comes
  when `checkexist` would say yes, and what may be wrong is that the entry dangles.

`Grows` is gone in the first, so a `get` may find no entry: behaviour is undefined
from then on and the model promises nothing of it. What has been sent until then
is right, and that is the shape of `UntilFullInv`: as long as the keys fit, every
valid entry holds a response to its URL (`FullInv`, hence `HitsOwn`), and what a
thread holds or has sent answers its request (`Answers`). Once they do not fit they
never do again, and the property promises nothing. The second rests on
`OrdinaryInv`: nothing in the heap and nothing a thread holds has a header `Url`,
so the key that `EraseKeyOf` reads is no URL.

`NoCacheValidated` does not hold in general: `no_cache_race` is a counterexample. It
is proved under two conditions that each rule out that race:

* `NoCacheValidatedAlone`: if there is one thread, whatever responses carry, with
  evictions and dangling entries. The entry that `check` judged is the one that the
  next `get` finds (`Unchanged`): even one that dangles has not changed.
* `NoCacheValidatedSteady`: for any number of threads, if an origin says no-cache of a
  URL always or never (`Steady`), under `OwnOrUnnamed` and while `KeysFit`. The entry
  may be another one by then, but it is a response to the same URL (`HitsOwn`), so
  it says no-cache only if the one judged did (`HitsPlain`).

Both rest on `Visited`: a thread that merges, updates, reads again or stores has been
to the origin, so the only way to send a no-cache response without a visit is the
`get` of `Hit` (`VisitedStep`).

`RequestIdsProofs`: `LaterIdsAreGreater`, with `AboveFloor` (between increment
and load the counter is above every ID given before the thread began) as the
strengthening.

`ServerProofs`, from `ServerAssumption` and that of `RequestIds`, for any number of
threads, descriptors and addresses:

* `DescriptorsAlways`: `ServerTypeOK`, `NoLeak` and `OwnedUntilFailure`. The
  inductive invariant has `NoLeak` unconditionally, since an open descriptor
  enters a wrapper in the step that opens it and leaves it only when closed;
  that a wrapper's number is open and its own (`Owned`) lasts only until a connect
  fails, and needs `Fresh`: before that, a wrapper is replaced only if it has
  no number.
* `ServerIdsInOrder`: the server implements `RequestIds`, whatever else its
  threads do; hence `ServerIdsAreGreater`.

`RelayProofs`, from `HttpClientAssumption` and `RelayAssumption`, for any buffer,
any set of responses and any timeout:

* `TypeAlways`, `InOrderAlways`, `NoOverrunAlways`, `EntireAlways`, `NoSpinAlways`.

The inductive invariant `RelayInv` adds two parts to the types. `Reading`: the
buffer is in use only in the loop, where something has been counted, and what is
counted never exceeds what was read, and that not the response's length. This is
why the -1 of a failed `recv` cannot make `total` negative, and why a response that fits is never written behind the end though `recv` is always given
the whole length. `Ordered`: bytes a peer has got are numbered from 1; what was
read and is not with the peer yet is exactly what `held` or `buffer` has. The
second needs the first, for the count says where in the buffer a piece goes.
It excludes responses with a Content-Encoding, whose padding breaks it.

`EntireAlways` adds what is known when the loop of `recvResponse` or of the relay is
left. `Places` says where the thread can be and, as long as the origin has not reset
the connection, that the buffer is zero behind what is counted: hence the `strlen`
that the loop compares with the Content-Length is at most what was read
(`TextBounded`), and the loop cannot end before the body is there. `Ending` says that
a response with a known length, and the empty piece that ends a chunked one, are
returned only when nothing is left to come. `InOrder` then turns "nothing is left"
into "the client has it all". A first attempt failed for a Content-Length of 0; the
bound on `LengthKnown` and the divergence above come from it.

`NoSpinAlways` is an action property with a measure. A byte, and the -1 of a reset,
is worth `BufferSize + 10` steps, more than a round of any loop takes; every loop that
goes round has received one. `send` takes at least a byte of what it is offered. The
one loop that can go round on an error, that of `recvResponse`, moves `total` back by
one for it, which happens once, since after a reset `recv` returns 0. It is the
safety half of the liveness properties: with `WF_vars(Thread)` a measure in `Nat` that
only the peers' sends raise is why a thread gets to a `recv` that waits or ends.

`ParserProofs` has the parser's theorems, from `ParserAssumption` alone: for any
`MaxLength`, any radix, digits, methods, status codes and versions, and any number
of messages, header lines and chunks. The inductive invariant `ParserInv` says, for
each class of nodes of the automaton, how the parser object relates to what the
message has said so far. Within a header it is `LengthSaid` (the length is what the
digits say, and is zero unless one was said), `CodingSaid` (the flag CHUNKED, or at
the end of a value the header state that will become it, is set exactly when the
last coding said is "chunked") and `CloseSaid`. The properties alone are not
inductive, because what a line says is in `header_state` between the end of its
value and the start of the next line, where a folded line may still change it; and
because nothing clears `header_state` between lines, so that one has to know
that a stale "te_chunked" can only be met between lines. In a body, `InChunks` and
`InSizedBody` carry the framing on. At `start` nothing is left of an earlier message
and that one did not say "close" (`AtStart`).

`BodiesAsAnnounced` then needs that `MulAdd` never wraps (`MulAddIs`), which is what
the overflow test is for. `MessagesImplemented` is the refinement of `HttpMessage`:
lemmas named `...Edge` say for each part of the automaton where its steps lead and
what becomes of the TRAILING flag, those named `...Mapped` that such a step is one
of `HttpMessage` or a stutter; `ParserInv` gives that no trailer has begun when a
first line is read.

`FieldsAlwaysPaired` has an invariant of its own, `PairInv`. Each node of the automaton
is in a stage: in a name, in the gap before a value, in a value, between lines, or
over (`Stage`). The stage says which callback's span is open (`Spanned`) and
how many pieces each list has for the lines begun so far (`Listed`): in a name the key
is still missing, before and in a value the value is. So the next piece lands at its
line's index, and a folded line, the only way from between lines to a value without a
name, is the only thing that can move one. Every step is one of six kinds (`Still`,
`Naming`, `Named`, `Begun`, `Valued`, `Folded`); the lemmas named `...Pairs` find the
kind of each action's steps and `PairNext` does the lists once for all.

Every safety property that a passing run checks is stated by a theorem. Only
model-checked are the liveness properties `HangUpEnds`, `CompleteEnds` and
`QuietTunnelCloses`, which are out of the prover's reach as all liveness under
fairness is.

## Not modelled

* **Logger.** Text lines on one unsynchronised stream that nothing reads back.
  What two of its lines promise about a stored response is `promise` in
  `Freshness`.
* **Daemon start-up and deployment, `startServer`'s socket, bind and listen.** A
  straight line of system calls before the first connection. What matters of
  it is in the models: no time zone is set (`Zone = 0` in `freshness_utc`), and
  SIGPIPE keeps its default.
* **Test origin.** `test.py` is the source of cases and of expected log lines.
* **The composition of `Agent`, `Relay` and `Server`.** They share `process`: `Agent`
  has the answers of threads that share the cache, `Relay` the bytes of one
  thread, `Server` the descriptors of all. The bytes of one thread do not depend
  on another's, and neither do descriptors on answers, so the product would
  multiply states without a property to gain; the one interaction, a descriptor
  closed under another thread's exchange, is the run `descriptors`.
* **Versions of a response.** `Agent` does not order the responses of an origin in
  time, so that two threads that miss may store the older one last
  (`agent.cpp` 94) is not a state it can tell.
* **The lookup of the request's host** (`http_request.cpp` 13-33, called by `parse`,
  and `getaddrinfo` in `init`). The resolver opens descriptors and closes them
  before it returns. `Server` leaves them out, and with them the failures of other
  threads for want of a number just then. `getIpFromHost` dereferences what was
  found and catches one kind of exception; any other ends the process. Its result
  is a log field.
* **Integers of bounded width in `Freshness`.** `atoi` and the casts of ages to
  int are taken as exact.
* **Parts of the parser's input.** Spaces within a value, the second and later
  bytes of a token and header names other than those the automaton looks for
  are one input each. They change no state that another step reads.
* **`editResp`'s text surgery.** Its result reaches only `rawData` of the copy that
  is stored, past a branch that needs an origin that sends a header named `Url`.
