# Verification of S3-Kinetic

S3-Kinetic is a MinIO server whose object layer, `KineticObjects`, keeps
everything in a Kinetic key-value store that it calls through cgo. This
directory holds TLA+ models of that object layer's concurrent core, the TLC
configurations that check them on small instances, and TLAPS proofs of their
main safety properties for instances of every size. File and line references
are to the repository's `src/`. `PROJECT.json` maps each definition to the
lines it models.

## The system and its parts

A request is a goroutine. Its HTTP handler (`cmd/object-handlers.go`,
`cmd/bucket-handlers.go`) calls `KineticObjects` (`cmd/kinetic.go`,
`cmd/kinetic-multipart.go`), and that calls the store through a pooled `Client`
(`cmd/client.go`). These mechanisms keep requests apart.

| Part | Code | Module |
|---|---|---|
| Namespace lock: readers-writer locks on paths, with timeouts | `cmd/namespace-lock.go` | `NSLock`, implementing `RWNamespace` |
| Distributed lock: the same promise over several lock servers, by quorum | `pkg/dsync/drwmutex.go`, `cmd/local-locker.go`, `cmd/lock-rest-*.go` | `DRWMutex`, implementing `RWNamespace`; `LockMaintenance` |
| Connection pool of 100 `Client`s, and the global `kineticMutex` | `cmd/kinetic.go:164-212` | `ConnPool`, with the handlers' programs in `KineticHandlers` |
| Versioned part keys and the object's metadata | `cmd/kinetic-multipart.go`, parts of `cmd/kinetic.go` | `Multipart`, implementing `AtomicObject` |
| Readers: what a pooled `Client` keeps from one GET to the next | `cmd/client.go:84-149`, `cmd/kinetic.go:831-915` | `ObjectReader` |
| Buckets and listings: what a bucket holds while it is deleted, written to or listed | `cmd/kinetic.go:402-739, 1237-1606, 1733-1905`, `common/util.go` | `Buckets`, on top of `RWNamespace` |

They interact. Puts, copies, deletes and GETs take the namespace lock; part
uploads, Complete and Abort do not. Most store operations run under
`kineticMutex` and take their connection inside it. A reader holds its
connection, outside the mutex, until it is closed. `Multipart` contains the
namespace lock as one owner per object (what `RWNamespace` promises for
writers), and `ObjectReader` contains the pool's slots. `Buckets` takes its locks
with the actions of `RWNamespace` itself, which `NSLock` (one process) and
`DRWMutex` (several) are shown to implement.

`KineticObjects` creates its namespace lock with `newNSLock(false)`
(`cmd/kinetic.go:335`), so its requests take the locks of `NSLock`. `DRWMutex` and
`LockMaintenance` model the distributed locks that the server is built with and that
no request of this backend runs.

The rest of the repository is listed in `PROJECT.json` under `components`, each
part with the reason it is not modelled; see "Not modelled" below.

## Modules

**`NSLock`.** One step is one critical section of `lockMapMutex` or one
operation of the `LRWMutex` (external, modelled by its writer flag and holder
count). `lockMap`, `ref` and `nsLk` are the code's variables of those names;
`todo`, `held` and `path` are the loop state of `localLockInstance`. `LookUp`,
`Acquire`, `TimeOut` and `GiveUp` are `lock()`; `Find`, `Release` and `Deref` are
`unlock()`. Paths are numbers in sorted order. A timeout may come at any moment
of a wait. A goroutine has one `RWLocker` at a time; requests that nest two of them
(`CopyObject`, `DeleteBucket`) are in `Buckets`, not here, so that `NoCircularWait` is
about the paths of one `RWLocker`.

**`RWNamespace`.** The abstract specification: who holds which path how.
`NSLock` maps `held` and `readLock` to it, `DRWMutex` its clients that hold the lock.

**`ConnPool`.** `inUsed` and `totalInUsed` are `kConnsPool`'s, `waiting` is the
set of goroutines in `cond.Wait()`, `mutex` the owner of `kineticMutex`. A
request runs a *program*, the sequence in which its handler locks, unlocks, gets
and releases.

**`KineticHandlers`.** The programs, one per operation of the object layer. A
loop over parts or keys is taken once. An assumption, which TLC evaluates, says
that all of them keep the discipline the proofs need (nothing acquired twice,
everything given back, nobody asks for the mutex while it owns a connection),
and that only the copies, of objects and of parts, ask for anything with a reader
open. `ListBuckets` also uses its connection after it has given it back; that is not
a use of the pool, and is listed as a hazard.

**`Multipart`.** One object. `meta` is its metadata key, `store` its part keys,
`json` the uploads' temporary keys. A request is the sequence of its store
operations (`todo`), each atomic; `mutex` is set only while `kineticMutex` is
kept over several of them. A part's contents are abstracted to the upload they
came from. `acked`, `commits` and `aborted` are history variables. A copy of another
object locks this one; a copy of the object to itself (`selfCopy`, which writes only
where encryption is involved) takes no lock, neither to read nor to write. Constants
choose what clients do (`Ops`, `Exclusive`), what fails (`MayFail`) and whether
the server restarts (`Crashes`).

**`AtomicObject`.** The abstract specification of one object and its uploads: the
object changes in one step, to the parts of a completed upload or, if clients request
these (`Ops`), to the contents of a put or a copy, or to nothing by a delete; an
upload is new, open, then committed or aborted.

**`MultipartView`.** The mapping. `Visible` is what a GET would deliver: the parts
that the metadata names, with a hole for each that the store does not have; no
abstract step makes a hole. A delete is seen at its first
step, because GETs take the namespace lock it holds. `Phase` is read from the history
variables; an upload whose json key was taken by a Complete that then failed counts as
open.

**`ObjectReader`.** `client` is what a pooled `Client` keeps: `Key`,
`DataOffset`, `NextPartNumber`. A byte is named by object, version and position,
so that `GetExact` can say which bytes were sent. `Read` is one call of
`Client.Read` by the `io.LimitReader`. `Ranges` and `Disconnects` say whether
clients ask for ranges of, or go away in the middle of, objects with parts.

**`DRWMutex`.** One `GetLock` or `GetRLock` per client over a set of lock servers.
`wlock` and `rlock` are the servers' `lockMap`; `sent`, `ch` and `locks` are the calls
outstanding, the channel and the array of a round of `lock()`. A call may be
granted, refused or fail, its answer may be lost, and a request whose caller gave up
(`stray`) may still be run. `Collect`, `Miss`, `TimeOut` and `Decide` are the counting
loop of `lock()`; `GetLock`, `Retry`, `GiveUp` and `Held` are its caller
`lockBlocking`. `release` counts the releases under way; they arrive in any order,
late, or never.

**`LockMaintenance`.** `DRWMutex` with the routine that purges long-lived entries
(`cmd/lock-rest-server.go:207-284`) as two more actions, since it asks the other
servers in one step and removes the entry in another.

**`Buckets`.** One bucket whose keys are 1..K in the order of the store. `bucket` is
its key `bucket.<name>`, `stored` its objects. A request goes through the locks,
checks and store operations of its function; every store operation may fail and every
wait may time out. `lst` is the local state of `ListObjects` (`nRemainKeys`,
`startKey`, the keys of the range, the results) and, over several pages, what the
client has collected; `names` is what the walk of `DeleteBucket` sent. `Account` is
the body of the loop over keys, `NextMarker` is `IncStr`: the least string that the
last key is no prefix of. A range that the store cannot read has no keys and no error,
as in `CGetKeyRange`. `since` and `lost` are history: the keys that have existed since
a listing began or `DeleteBucket` locked the bucket, and whether one of its ranges
could not be read. A copy locks its source for reading, until it is done, and then its
destination, unless they are the same object.

`MC*` modules hold small values and symmetry sets. `*Proofs` modules hold the
theorems. Definitions named `Mutant...` are faulty variants of the definition
that follows them, used to see that a property can fail; no specification uses
them.

## Runs

| Run | Instance | Distinct states | Result |
|---|---|---|---|
| `nslock` | 3 goroutines, 2 paths, 2 lock objects | 338,550 | holds |
| `dsync` | 3 lock servers, a writer of 2 names with 2 rounds, a reader | 412,985 | holds |
| `dsync_maintenance` | the same lock with the maintenance | | `Exclusive` violated |
| `pool` | 3 requests, at most 1 copy, 2 connections | 64,058 | holds |
| `multipart` | 2 workers, 2 uploads, 2 parts, failing writes, restarts | 2,981,090 | holds |
| `multipart_mix` | 2 workers, 1 upload with puts, deletes, copies, self-copies, failing writes | 874,987 | holds |
| `multipart_faults` | 2 workers, 1 upload, deletes, copies, self-copies, any failure, restarts | 4,465,470 | holds |
| `multipart_overlap` | 2 workers, 2 uploads at once | | `CommittedReadable` violated |
| `reader` | 2 readers, 2 Clients, 2 objects | 50,865 | holds |
| `reader_stale` | 1 reader, 1 object, clients may go away | | `GetExact` violated |
| `buckets` | a DeleteBucket, a writer, a lister that also makes or copies, one request each; 3 keys, pages of 2 | 458,279 | holds |
| `buckets_hidden` | the same, the first key a part of an upload | | `DeletesOnlyNew` violated |

What the passing runs show:

- `nslock`: reference counts are exact (`RefCountExact`), nobody works on a
  dropped lock (`OneLockPerResource`), no unlock of an unlocked mutex
  (`UnlockOfLocked`), readers and writers exclude each other
  (`MutualExclusion`), sorted paths exclude circular waits (`NoCircularWait`),
  `GetLock` returns (`GetLockReturns`), and the locks implement `RWNamespace`
  (`ImplementsRWNamespace`).
- `dsync`: with lost, late and stray calls, a held lock keeps a quorum of entries
  (`Backed`), excludes (`Exclusive`), `GetLock` returns, and the quorum locks
  implement the same `RWNamespace`. The run has one writer and one reader; that two
  writers exclude each other, also when an `Unlock` of several names stops at one that
  has another UID, is shown by the theorems only.
- `pool`: the pool's books are right (`PoolExact`), no wake-up is lost
  (`NoLostWakeup`), and with fewer copies than connections there is no standstill
  (`NoDeadlock`) and every request finishes (`RequestsFinish`).
- `multipart`: while clients work on one upload at a time, committed objects
  stay readable, acknowledged parts are kept and accepted, an upload is committed
  at most once, and never after its abort. All of it together is an object that
  changes in single steps (`ImplementsAtomicObject`).
- `multipart_mix`: the visible object stays readable when simple puts and
  deletes race an upload and writes fail, through the wrap-around of the version,
  and still implements `AtomicObject`. Copies run between uploads, and a copy of the
  object to itself runs alone; the latter is needed, see the findings.
- `multipart_faults`: types and `AbortFinal` survive any failing operation.
- `reader`: the bytes sent are those asked for (`GetExact`) and every GET ends
  (`GetsFinish`), **if** objects with parts are read whole and to the end. Both
  conditions are needed; see the findings.
- `buckets`: a listing that ends well, page after page, has returned every object
  that existed all the while (`ListingComplete`); `DeleteBucket` deletes no object
  that was there when it locked the bucket (`DeletesOnlyNew`), although puts that
  passed their check earlier go on; both **if** the ranges of keys could be read. And
  every request is answered (`RequestsFinish`), although `CopyObject` and
  `DeleteBucket` lock bucket and object in opposite orders, and so do two copies in
  opposite directions with their objects: only the timeouts end these waits.

### Bounds

- Two goroutines suffice for most races on a path or an upload. `nslock` has
  three so that a lock can be dropped and created again while a third party waits.
  There are as many `LockObjs` as paths: an object is needed only for a path that
  has no entry, and then one is unreachable.
- Three lock servers are the smallest number with a quorum that is not everybody;
  with two names a server can grant the one and have to refuse the other, and a
  second round lets the releases of the first one meet it.
- Two connections and three requests make the pool full with somebody waiting.
  `ShapeHandlers` keeps the programs that differ in what they hold while they
  wait; the other handlers are concatenations of these shapes.
- `MaxVersion` stands for 99999 and is 2 or 3, so that versions wrap around.
  `RangeMax` stands for 800 and exceeds the number of keys.
- `MaxCommits` bounds how often clients complete an upload that is already
  committed; with 2, a second commit would be seen. `multipart_faults` has 1
  and therefore does not check `CommitOnce`.
- `SmallContents` has a simple object, one with two unequal parts and one with
  three, so that a cursor left by one object can be out of range in another.
  An object's version is one bit: it tells the object a GET found from the one
  that replaced it.
- `MaxKeyRange` stands for 400 and is 2, with three keys: a listing has two pages,
  the second one short, and a page can end inside a directory. One request
  per client is enough to put an object behind the emptiness check, to lock it while
  `DeleteBucket` wants it, and to copy in opposite directions. `Extensions` is empty: no key is a prefix of
  another (see the remarks below the findings).
- Symmetry is used in runs that check invariants and action properties only.

### Fairness

Liveness is checked under weak fairness of each goroutine's own steps. Go's
scheduler is preemptive, and a `sync.Mutex` passes to a goroutine that has
waited long. In `NSLock` the fair steps include the timeout, since lsync's
`GetLock` returns when it has passed; how long a client keeps a lock is left
open. In `ConnPool` finitely many requests run, so nobody is overtaken for ever.
In `DRWMutex` every REST call ends, with an answer or by its timeout, and the
client's own steps and timeouts are fair; releases and stray requests are not. In `Buckets` a request that was begun runs on, waits included,
because `GetLock` has a timeout; new requests are not fair.
In `ObjectReader` a reader's own steps are fair; writes, new GETs and departing
clients are not.

## Proofs

All theorems are for arbitrary constants that satisfy the named assumptions.
Each proof finds an inductive invariant `IInv` and shows one lemma per action.

- **`NSLockProofs`** (any finite set of goroutines, any paths). The safety
  properties are not inductive alone: a count can only be kept exact if one knows
  whose reference each goroutine owns at each point. `IInv` adds `Shape`, the
  local variables at each program point; `Entry`, which ties `ref` to the users
  and the mutex to the holders of a path; and `Distinct`, that no lock object
  serves two paths. Proved: `TypeCorrect`, `ReferencesExact`, `SingleLock`,
  `NoUnlockPanic`, `Exclusion`, and `Refinement` (the safety part:
  `Spec => ImplementsRWNamespace`). `NoCircle` needs one more invariant, `Sorted`:
  what a goroutine has locked comes before what it has not. So whoever blocks a
  waiting goroutine waits for a later path, and in a finite circle the goroutine
  with the fewest later waiters has none.
- **`DRWMutexProofs`** (any number of servers, clients, names and rounds). `IInv` compares,
  per server, a client's claims (grants in the channel or the array, releases under
  way) with the entries the server has for it: there are never more claims than
  entries, so a late release never takes away an entry that is counted. Two quorums, one of them of a writer, meet in a server, and that
  server's `lockMap` would hold incompatible entries. Proved: `TypeCorrect`,
  `QuorumKept`, `MutualExclusion`, `Refinement`.
- **`ConnPoolProofs`** (any pool size, requests and disciplined programs). `IInv`
  adds `Follows`: what a request owns is what its program says. Proved:
  `TypeCorrect`, `BooksExact`, `WakeupsKept`, `StandstillExplained` (at a
  standstill every connection belongs to the open reader of a copy), and from it,
  by counting, `DeadlockFree`.
- **`MultipartProofs`** (any workers, uploads, parts; overlapping uploads,
  crashes and failures included). `IInv` says that a request about to commit holds
  `kineticMutex` and that its upload is not aborted, that `json` and `aborted` are
  disjoint, and, if deletes do not fail, that a json key is there only while its
  upload is uncommitted. Proved: `TypeCorrect`, `AbortedNeverCommitted`, and
  `CommittedOnce`, the last one assuming `"delete" \notin MayFail`. The module closes
  with the lemmas on where a request stands, which the next two modules cite: `Point`
  lists which step a request of each kind takes when so many are left, `Request` says
  that a request is at such a point and owns the namespace lock where it has taken it,
  and `Advanced` and `Fallen` what a step, or an error, makes of it.
- **`MultipartStageProofs`** (any workers, uploads, parts, versions). `Careful`
  says when an object can be relied on: clients work on one upload, or on copies, at
  a time and do nothing else while the object is copied to itself, without a lock
  (`Exclusive`), only writes fail, the server does not restart where objects
  are deleted, and `MaxVersion > 1`, so that a version differs from the next one.
  Each of the first three is needed; see the findings.
  `CommittedReadable` is not inductive: whether a deletion hurts depends on a version
  that was read several steps before. `RInv` adds `Request`; `Stage`, what the
  request relies on at its point (a Complete that has validated its parts finds them
  in the store, and whoever deletes keys deletes a version, `Doomed`, that
  the metadata does not name); and `Apart`, one upload or copies at a time. The
  argument: a purge or an abort begins to delete only when its upload is closed, a
  copy only while none is open, so that no commit can make the doomed version current
  meanwhile. A copy of the object to itself has no lock to rely on, but nobody beside
  it: `SelfInv` says, point by point, what it has read and written. The inductive
  invariant is `OInv`: `RInv`, or one such copy and nothing else. The definitions
  around `RInv`, the lemmas on what leaves a `Stage` alone and those on the steps that
  only read are at the end of `MultipartProofs`; this module shows that every other step
  of a request, every arrival and every restart preserves `OInv`, and concludes
  `Readable` (`CommittedReadable`). The runs `multipart` and `multipart_mix` are
  instances of `Careful`, and TLC found the invariants to hold in both before they were
  proved.
- **`MultipartObjectProofs`** (the same, under `Careful`). `KInv` adds what an open upload
  relies on, where besides uploads only copies write the object
  (`Ops \subseteq {"copy"}`; a put or a delete moves the version): a part about to be
  written, and a Complete about to look for parts, have read the version that is
  still the object's (`Fixed`). Then a step can change the version or delete
  keys only when no upload is open (`Frame`). Proved: `PartsKept` (`AckedPartsKept`),
  and `PartsAccepted` (`AckedPartsAccepted`), the latter if no version can have more
  part keys than one key range holds (`Ample`: with finitely many parts and etags, at
  most `RangeMax` pairs of a part and an etag). The run `multipart` is an instance
  that satisfies these assumptions; TLC found `KInv` to be an invariant of it first.
  The last section proves, under `Careful` alone, `AtomicRefinement`
  (`Spec => ImplementsAtomicObject`). By `Readable` what is seen of the object is
  just `meta.parts`, or nothing while a delete is half done (`Shows`), so only the
  steps that write the metadata or enter a delete can be seen, and these exclude each
  other by the namespace lock and `kineticMutex`; a copy of the object to itself is not
  seen, because it writes the contents that are there. `GInv` adds what a request was given
  when it arrived: its upload was started, and a Complete names acknowledged parts.
- **`ObjectReaderProofs`** (any readers, Clients, objects and sizes of parts,
  assuming `~Ranges` and `~Disconnects`). `IInv` says that `NextPartNumber` is 0 in
  every free Client, and that in one that reads an object with parts, the bytes
  sent end where part `NextPartNumber` begins. Proved: `TypeCorrect`, `GetsExact`.
- **`BucketsProofs`** (any clients, keys, directories, requests and page size). `IInv`
  says what a request and its listing are at each point: above all, the keys of a
  range fit on the page. `Emptied`: a listing of `DeleteBucket` that found nothing has
  seen that nothing is left of what the bucket held when it was locked, and this
  stays so until the end, if its range could be read; it gives `EmptyFirst`
  (`DeletesOnlyNew`, assuming `Hidden = {}`). `Coming`: every key that was asked for
  and stays is listed, or in the range, or after it if the range was full, or on the
  next page, unless a range was lost; it gives `Complete` (`ListingComplete`, assuming that no key extends
  another and that listings ask for more than one range). Both assumptions are
  needed; see below. Also proved: `TypeCorrect`.

Every safety property of a passing run is stated by a theorem. Only model-checked:
the liveness properties (`GetLockReturns`, `RequestsFinish`, `GetsFinish`), which
need fairness and are out of the prover's reach.

## Findings

Each is a run that TLC refutes, with the sentence of the repository it refutes
quoted in `PROJECT.json`.

1. `multipart_overlap`: all uploads of an object use the version after the current
   one, so the abort of one can delete the parts of an object that another has
   just committed.
2. `reader_stale`: a client that goes away in the middle of an object with parts
   leaves `NextPartNumber` behind in the pooled Client, and the next GET of the
   object on it starts at another part.
3. `buckets_hidden`: `isBucketEmpty` asks for one key, and a hidden key uses up the
   page without being returned. A bucket whose first key is a part of an upload is
   taken for empty, and `DeleteBucket` deletes the objects in it.
4. `dsync_maintenance`: the lock maintenance removes an entry as soon as one other
   server does not know it. A lock needs only a quorum, so the entries of a lock
   that is held for long are purged and a second client gets it too.

Where a property holds only for some values of the constants, the other values
show a weakness of the code. Changing a constant of a passing run is enough to see
each of these:

- `pool` with as many copies as connections violates `RequestsFinish`: a copy keeps
  its source reader's connection while it waits, under `kineticMutex`, for another.
  `StandstillExplained` proves that this is the only way to a standstill.
- `multipart` with `RangeMax` smaller than the number of parts violates
  `AckedPartsAccepted`: Complete lists the parts in one range of at most 800 keys,
  although 10,000 parts are documented. With `"get"` in `MayFail` an abort can
  delete a committed object's parts (`CommittedReadable`), with `"delete"` an upload
  can be committed twice (`CommitOnce`).
- `multipart_mix` with failing deletes or restarts violates `CommittedReadable`: a
  delete that stops half-way has deleted the parts and left the metadata. A put
  between a part and the abort makes the abort look under another version and leave
  the parts.
- `multipart_mix` with `Exclusive = FALSE` and only self-copies in `Ops` violates
  `CommittedReadable`: `CopyObject` takes no lock when source and destination are the
  same (`cmd/kinetic.go:751`), so two of them can write the same version, and one whose
  put fails then deletes the parts that the other has committed
  (`cmd/kinetic-multipart.go:654, 688`).
- `reader` with `Ranges` violates `GetExact`: ranges of objects with parts are read
  at wrong offsets.
- `buckets` with a non-empty `Extensions` violates `ListingComplete`: `IncStr` of the
  last key skips the keys that extend it (`photo`, then `photo1`), although the
  comment of `NextMarker` (`cmd/object-api-datatypes.go:282`) promises the next set of
  objects. With a listing of at most `MaxKeyRange` keys it is violated too:
  `IsTruncated` is then never set (`cmd/kinetic.go:1598`).
- `ListingComplete` and `DeletesOnlyNew` have the condition `~lost`. Without it both are
  violated: `CGetKeyRange` (`cmd/client.go:905-919`) drops the store's status, so that a
  range that cannot be read ends a listing as if it were complete, and makes
  `isBucketEmpty` take a bucket for empty, whose objects `DeleteBucket` then deletes.

The hazards in `PROJECT.json` name the lines.

## Not modelled

- Inside the modelled parts: readers of encrypted and compressed objects, failing
  store reads in the middle of a GET, empty parts, commits of an upload during a
  GET of the same object, short reads in `copyMultipartObject`, `ListBuckets` (what
  the store answers to its second range is not in the repository), listings that
  start at a marker of the client's choice, a walk of more than 800 keys,
  restarts of a lock server, and keys with a `:` in them, at which `CGetKeyRange` joins
  and splits the keys (`cmd/client.go:908`). `PROJECT.json` lists the hazards among them.
- The store, kineticd, is not in the repository: its operations are atomic and
  either succeed or fail. The socket client of `cmd/client.go` is compiled in and
  unused.
- XL and FS backends with their walk pools and healing, disk cache, gateways:
  compiled in, but `KineticObjects` serves the requests. They are most of the
  source. IAM, signatures, encryption, S3 Select, event targets, configuration and
  admin APIs do not take part in storage concurrency.
