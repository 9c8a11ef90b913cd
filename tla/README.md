# UnifiedORAMHub in TLA+

UnifiedORAMHub is a C++ library of oblivious RAM schemes: a client reads and
writes numbered blocks that an untrusted server stores, in such a way that the
server does not learn which. This directory holds TLA+ specifications of its three
client/server schemes, Path ORAM, Ring ORAM and Onion Ring ORAM, and of what they
stand on (tree arithmetic, swap network, byte counters, the TCP connection), the
TLC configurations that check them, and TLAPS proofs about the three and the tree
arithmetic under them.

The specifications are about *correctness*: that the caller of the client has a
RAM, that no block is lost, duplicated or misplaced by the traffic between the
stash and the tree, that every call and both threads end, that failures are
noticed. What the server learns from the accesses (obliviousness) is a property
of distributions and not of behaviours; it is not stated here. What the schemes
owe to it, such as "no slot is read twice between two writes of its bucket", is.

## 1. The system

| Component | Source | State | Operations |
|---|---|---|---|
| Tree geometry | `Config.h` of the three schemes, helpers in the classes | none | sizes, path of a leaf (climbing and descending), placement test, level of a node, eviction order |
| Core types | `include/oram/core`, `src/core` | a bucket's blocks | `AddBlock`, serializer; the interface `RAM` |
| Path ORAM client | `src/path_oram/PathORAMClient.cpp` | position map, stash | constructor, `InitializePositionMap`, `Access`/`Read`/`Write`, destructor |
| Path ORAM server | `src/path_oram/PathORAMServer.cpp` | a file per bucket, `node_count_`, `running_`, request statistics | `Init`, command loop with `R W P T Q`, `Stop`, destructor |
| Ring ORAM client | `src/ring_oram/RingORAMClient.cpp` | position map, stash *file*, `round_`, `eviction_counter_`, `read_path_count_` | constructor (builds and sends the tree), `Access` = `ReadPath` + stash + `EvictPath` + `EarlyReshuffle`, statistics, destructor |
| Ring ORAM server | `src/ring_oram/RingORAMServer.cpp` | a file per bucket with valid bits and a read count, `node_count_`, `running_`, statistics | command loop with seven commands and quit, `Stop`, destructor |
| Ring buckets | `src/ring_oram/RingBucket.cpp` | slots, metadata | `ResetWithBlocks`, serializers |
| Onion Ring client | `src/onion_ring/OnionRingClient.cpp` | `pos_map_`, `id_map_` (which block is in which slot), `access_count_`, `eviction_counter_` | `Access` = path sum + clear path + write to the root + every `a`-th time `Evict` (`TripletEvict` down a path, `LeafRefresh`), destructor |
| Onion Ring server | `src/onion_ring/OnionRingServer.cpp` | a tree of ciphertexts in memory, `running_` | command loop with `A C R U T L Q`, `Stop`, destructor |
| Swap network | `src/onion_ring/WaksmanNetwork.cpp` | none | swap bits for a permutation, the network on ciphertexts |
| Network | `src/network/NetIO.cpp` | one TCP connection | bind or connect, `SendVec`, `RecvVec`, partial sends and receives, close |
| TFHE adapter, AES-CTR | `TFHEAdapter.cpp`, `HomOps.cpp`, `AES_CTR.cpp` | keys | encryption, `CMux`, `IncrementCounter` |
| Scripts, demo | `scripts/`, `main.cpp` | none | measurements |

**Interaction.** Client and server are two threads or processes joined by one
TCP connection. The client sends a request and waits; the server receives a
command byte, runs its handler and goes back to waiting. There are no request
identifiers, no timeouts and no retries, and the server serves one client. A
third thread may call `Stop`. Path ORAM and Ring ORAM servers keep a file per
bucket, written with `ofstream`, and the stash of the Ring ORAM client is a file as
well; the Onion Ring server keeps its tree in memory and its client has no stash:
the root is what takes the accessed blocks until the next eviction.

**What is hard.**

- *Two copies of the truth.* The position map is changed at the start of an
  access, the tree only at its end. In between, the tree, the messages in
  transit, the local variables and the stash together hold the blocks.
- *Failures in the middle.* Nothing is transactional: position map, stash, slots
  and bucket files keep what was done before an exception. Whether a later call
  then gives wrong data or throws depends on whether the connection is still up.
- *Capacities.* Buckets fill up; dummies of Ring ORAM buckets are used up by reads
  and have to be renewed in time by evictions and early reshuffles; the root of
  Onion Ring ORAM has to be emptied in time.
- *Blind arithmetic.* The Onion Ring server adds a slot of each bucket of a path
  without knowing which holds the block. One slot that the client takes for a dummy
  and that is not zero, or one block found twice, and the sum is wrong.
- *Half-received commands.* The Onion Ring server acts on a command while it is still
  receiving it.
- *Termination.* Handlers that throw leave the loop, but the socket is closed only
  when the server object is destroyed; a client that goes away has to release the
  server thread.
- *Order.* Acknowledgements before or after the disk, stash saved before or after
  the server has the bucket, evictions root first or leaf first.

**What makes each part correct.**

- Tree: the ways the code walks a path agree; evictions come to every leaf in turn.
- Swap network: it realises every permutation, on ciphertexts as on indices.
- Connection: vectors arrive whole, in order and once, or the receiver throws.
- Servers: a read shows what was last written, whole or not at all; behind an
  acknowledgement no bucket is left as it was; a Ring ORAM slot is handed out once; a
  command cut off half way loses no block.
- Clients: each block exists once, is current and lies on the path to its position;
  Ring ORAM never runs out of dummies; the id map of Onion Ring ORAM is true of the
  server's slots and its root never overflows.
- Together: the caller has a RAM; calls and threads end; each request has one answer.

`PROJECT.json` lists the hazards one by one, each at its line, with the
properties that would catch it.

## 2. The modules

    Iteration -- Tree -+- Blocks ----- PathORAMServer -+- PathORAM      (client + server)
                       |               PathORAMClient -+
                       |               PathORAMServer --- PathORAMStore (server alone)
                       |
                       +- RingBlocks - RingORAMServer -+- RingORAM      (client + server)
                       |               RingORAMClient -+
                       |               RingORAMServer --- RingORAMStore (server alone)
                       |
                       +- OnionBuckets - OnionRingServer -+- OnionRing  (client + server)
                                         OnionRingClient -+
                                         OnionRingServer --- OnionRingStore (server alone)
    SwapNetwork: used by OnionRingServer
    NetIO:       the connection as whole messages, used by every client and server
    RAM:         the abstract specification the three systems are shown to implement
    Iteration - Bytes - NetIOStream: the connection as bytes; Transfer: what it is shown to implement

| Module | Models |
|---|---|
| `Iteration` | repeated application of a function, by a recursive function so that it can be proved about |
| `Tree` | `GetPathIndices`, `GetBucketIndex`, `CanPlaceInBucket`, `GetNodeLevel`, `IsBucketOnLeafPath`, `ReverseBits`, the sizes |
| `SwapNetwork` | `BuildNetwork`, `GenerateSwapBits`, `EvalWaksman`, `CMux` on what ciphertexts decrypt to |
| `Bytes` | the length prefix of a vector; `AES_CTR::IncrementCounter` |
| `NetIOStream` | constructors (bind, listen, accept; connect until somebody listens), `SendVec` and `RecvVec` over the loops of `SendDataInternal` and `RecvDataInternal`, a kernel that takes and gives any number of bytes, a connection that breaks |
| `Transfer` | the promise of the two: vectors arrive whole, in order, once, until the receiver throws |
| `Blocks` | `Block`, `Bucket::AddBlock`, `Serializer`, the stash helpers of Path ORAM |
| `NetIO` | one message at most in each direction (`req`, `resp`) and `conn`; what was delivered can be received after the connection is lost, what is sent afterwards is lost or throws |
| `PathORAMClient` | `Access` as `Access` (remap, request) `ReadPathFromServer` `ReadPath`* `AccessStash` `EvictBlock`* `WritePath` `Return`, or `Throw`; constructor, destructor |
| `PathORAMServer` | `Init`, one action per handler, `HandleWritePath` one bucket per step, `Stop`, destructor |
| `PathORAM` | the two together, with the history variable `oracle` (values last written, as the tests keep one) |
| `PathORAMStore` | the server against any client, with `image`, the tree as whole requests would have made it |
| `RingBlocks` | slots, valid bits, counts, `ValidRealOffsets`, `ValidDummyOffsets`, `GetBlockOffset`, `FillBucketFromStash`, `ResetWithBlocks` |
| `RingORAMClient` | the constructor, `Access` split at each message and each save of the stash file, the statistics calls, destructor |
| `RingORAMServer` | the seven handlers; `HandleInit` and `HandleXorPathSlots` one bucket per step, `Stop`, destructor |
| `RingORAM` | the two together, with `oracle` |
| `RingORAMStore` | the server against any client, with `taken`, the slots handed out since a bucket was written |
| `RAM` | what `core::RAM` promises: calls take effect one at a time, a read gives the last write; once a call has thrown no later one pretends to have worked |
| `OnionBuckets` | slots, payload bytes and their sum, paths, permutations |
| `OnionRingClient` | `Access` split at each message, `Evict` with `TripletEvict` and `LeafRefresh` bucket by bucket and slot by slot, the exceptions of a full path, of a full root and of an overflowing child, destructor |
| `OnionRingServer` | the six handlers; `HandleClearPath` one slot per step, `HandleEvictTriplet` one child per step, `HandleLeafRefresh` in its two halves, `Stop`, destructor |
| `OnionRing` | the two together, with `oracle` |
| `OnionRingStore` | the server against any client, with `before` and `asked`, the tree when the last request was sent and that request |
| `MCFoundations` | the pure algorithms over bounded inputs, and an instance of `NetIOStream` |
| `MC*` | instances for TLC |
| `FoundationsLemmas`, `FoundationsProofs` | theorems about the operators: iteration, paths, placement, reversed bits, the swap network, the counter; the byte stream; all safety properties of `MCFoundations` |
| `PathORAMProofs`, `PathORAMStoreProofs` | theorems about Path ORAM: sequences of blocks, path invariant, one current copy and the refinement of `RAM`; the server alone |
| `RingORAMProofs`, `RingORAMStoreProofs` | theorems about Ring ORAM: the conversation, counts and budget; copies, paths, absence of exceptions and the refinement of `RAM`; the server alone |
| `OnionRingProofs`, `OnionRingStoreProofs` | theorems about Onion Ring ORAM: the id map, room in the root, the refinement of `RAM`; the server alone |

Operators named after nothing in the code and commented `Mutant:` are plausible
bugs; each is put in the place of the definition that follows it to see that some
property notices. No run uses them otherwise.

**How state corresponds.** Variables carry the names of the members
(`position_map_` is `posMap`, `node_count_` is `nodeCount`, and so on). `cpc` and
`spc` say where the two threads are; local variables that live across a wait are
variables (`oldLeaf`, `incoming`, `rest`, `pathBuckets`, `targets`, `block`,
`result`, `picks`, `pathSum`, `fetched`, `contents`). What a loop has still to do is a
sequence: `todo` the buckets of an Onion Ring eviction. The buckets it is writing are
in `contents`, ids and ciphertexts together, and `cursor` says how far it is; where
the contents of a slot come from is a function from slots to slots of the old
buckets (`Shuffled`), the outcome of the two input vectors and a random permutation. The recursion of calls within a Ring ORAM access (evict a path, then
reshuffle) is the three sequences `reads`, `writes` and `checks` still to be done.

**What is abstracted.** A payload is an element of `Data`, `Zero` among them.
Random leaves, permutations and choices of dummy are nondeterministic. Encryption
is left out but for one thing: in Ring ORAM the client recovers a block from the
xor of the slots of a path only if all the others are zero dummies, otherwise it
gets `Garbage`. In Onion Ring ORAM a ciphertext is the byte it decrypts to, in
arithmetic modulo 256 (`ByteModulus` in the model): the server really adds, and the
client really gets the sum. A bucket file that is missing, or has not even its eight
bytes of count, is `<< >>` in Path ORAM and `NoBucket` in Ring ORAM, a truncated stash
`Malformed`; the code throws on each. A file of Path ORAM cut off after its count is not
refused (`PathORAMServer.cpp:135`): it is `Torn`, and reading it gives any bucket
(`BucketsRead`), since the parser goes on into whatever memory follows, which may well
be what an earlier bucket left there. Steps of one thread between two waits that touch
nothing the other sees are one step.

**Faults.** `Faults` says which may happen, at any moment:

- `"disk"`: a bucket file cannot be opened (it stays as it was) or written (it is
  left truncated), and the handler throws; or it is left truncated and nobody
  notices. The last because both servers look at the stream after `write`, when the
  bytes of a bucket (1096 in Path ORAM) are still in its buffer (8191 bytes in
  libstdc++, 4096 in libc++); the destructor of the stream flushes them and its
  failure has no reader. `remove_all` and `create_directories` of the Path ORAM
  `Init` may fail as well (`InitServerClearFails`).
- `"torn"`: a failed write of a Path ORAM bucket may leave the file cut off after
  the count instead of empty. Apart from `"disk"`, since no promise to the caller
  survives it (`path_oram_torn`); it is in the run of the server alone. It is not
  in the other runs of the whole system: the client takes in blocks out of nowhere,
  so that its stash has no bound.
- `"stash"`: the stash file of Ring ORAM cannot be opened or written (only in `ring_oram_stash`, since the
  refinement of `RAM` fails under it).
- `"network"`: the connection is lost.
- `"bind"` (`NetIOStream` only): the port is taken and the constructor throws.
- `"stop"`: another thread calls `Stop`. `running_` is a plain `bool`, so in C++ this
  is a data race; the model takes the outcome of every build that does not hoist
  the load out of the loop, which calls into the network, namely some interleaving.

What the model assumes of the caller: addresses below `num_blocks` (the Path ORAM
client indexes without a check; the Ring and Onion Ring clients throw and change
nothing), one call at a time, for Path ORAM a position map consistent with `Init`,
which the tests call with no blocks, and for Onion Ring ORAM that `Init` is called
before `HandleRequests`.

## 3. What the runs check

| Run | Instance | Distinct states | Shows |
|---|---|---|---|
| `foundations` | tree of height 4, all pairs of leaves; networks of 2 to 5 elements, all permutations; counters of 3 digits in base 3; vectors of up to 3 bytes over a kernel that holds 3 | 7,045 | the walks of a path and the placement test agree; a round of evictions meets every leaf, consecutive ones on both sides of the root; the swap network realises every permutation; the counter adds; vectors arrive whole, and arrive at all |
| `path_oram` | height 1, 2 blocks, 2 values, `BucketSize` 1, disk and network faults, fair | 453,688 | the client is a RAM; one current copy, or a missing file that reading will refuse; the path invariant and the inductive invariant `RInv` of the proofs; calls end |
| `path_oram_torn` | height 1, 1 block, 2 values, disk faults and files cut off | | *violated*: a read gives a value nobody wrote |
| `path_oram_store` | height 1, any client, all faults, fair | 97,794 | no read shows part of a write or of a failed `Init`, unless its file was cut off; behind an acknowledgement nothing is old; leftovers of a refused request are not taken for commands; every request is served or refused; `Stop` is seen; the server thread ends once the client has gone |
| `ring_oram` | height 1, 2 blocks, 2 values, Z = S = 1, A = 2, no faults | 301,080 | the client is a RAM; one current copy; blocks on their paths; slots within budget; statistics agree; nothing throws; the inductive invariant `RInv` of the proofs |
| `ring_oram_live` | height 0, 2 blocks, 2 values, Z = 1, S = 2, A = 3, all faults but the stash, fair | 291,685 | the client is a RAM up to its first exception; slots within budget; constructor, calls and server thread end |
| `ring_oram_store` | height 1, any client, all faults, fair | 378,328 | no slot is handed out twice; counts are right; every request is served or refused |
| `ring_oram_stash` | height 1, stash faults | | *violated*: a read after a failed stash save gives zeros |
| `onion_ring` | height 1, 2 blocks, 2 slots, 2 values, A = 2, network faults | 1,146,728 | the id map is true of the server's slots; the root never overflows; the client is a RAM |
| `onion_ring_live` | height 2, 1 block, 1 slot, A = 1, network faults and `Stop`, fair | 75,096 | the id map over three levels; calls, with their evictions, and server thread end |
| `onion_ring_store` | height 1, any client, 2 slots, network faults and `Stop`, fair | 600,578 | an answer is given for a command done in full and is true; half done loses no block; every request is served or refused |
| `onion_ring_zeros` | height 1, 3 blocks, 2 slots, A = 2, no faults | | *violated*: a read after a failed eviction gives zeros |

**Bounds and why they are enough.** With buckets of one block, two blocks compete
for every bucket, so a full bucket on every level, a stash that keeps a block over
several accesses, and blocks swapped between stash and tree all occur. Height 1
has leaves and a root; what happens at inner buckets is a matter of the index
arithmetic, which `foundations` checks at height 4 and `FoundationsLemmas` proves
for every height, and the invariants of Path and Ring ORAM with it. Onion Ring evictions treat an inner bucket as
source and as child in turn, which is why `onion_ring_live` has height 2. Two values
tell a stale copy from a current one. Counters wrap at `SizeTModulus`, a multiple of
the number of leaves and of `A` where the code's 2^64 may be taken for one. S = 1
makes every read of a bucket use it up; S = 2 with A = 3 lets reads accumulate
between two writes. Height 0, one bucket that is leaf and root, leaves room for all
the faults at once. In Onion Ring ORAM two blocks always fit where three need not,
which is the difference between `onion_ring` and `onion_ring_zeros`. Payloads that
add up modulo 2 are enough for a sum with a foreign block, or with a stale one, to
come out wrong. A kernel of three bytes is shorter than the longest vector with
its prefix, so the sender has to stop in the middle as well as the receiver, and the
stream is cut at every place.
Any bucket file of the tree may be lost at any write, and in `Init`, and the accesses go
on until one meets it. A torn file needs one block and one read.
The state spaces are finite without a constraint, and TLC explores all of each.

**Fairness.** Each thread is weakly fair in its own steps: a handler that can go on
goes on, a call that can go on goes on, and the thread that ran `HandleRequests`
destroys the server when it returns, as the tests' server threads do. Receiving is
enabled when a message has arrived or the connection is down, so this assumes only
that the scheduler runs both threads and TCP delivers or reports an error. In
`NetIOStream` the two ends are weakly fair; that they get through a kernel that holds
three bytes is what `EverythingArrives` says, where the connection is not lost.
Nothing is assumed of the caller, of `Stop`, or of the faults: no call need be
made, and no fault need happen.

**Deadlock** is checked in every run. The systems end in the explicit step
`Terminated`; where the server alone is checked the client may be left waiting. A
`NetIOStream` whose server could not bind leaves its client in the retry loop for
ever, as the code does; in `MCFoundations` the explicit step `Done` covers it.

**What the runs found.**

1. `ReadBucketFromDisk` of Path ORAM refuses a file below eight bytes; a longer one
   that was cut off is parsed past the end of the buffer, and a read can give its
   caller a value nobody wrote, without an error (`path_oram_torn`). Such files come
   about unnoticed: `WriteBucketToDisk` looks at the stream before the bucket is
   flushed (`PathORAMServer.cpp:156`), so when the disk is full at the wrong moment the
   server acknowledges a path one of whose files is empty or cut off, and the client has
   forgotten the blocks. If the file is empty the next read of that path throws and
   nothing succeeds after it: the data are lost, but no wrong data are returned
   (`path_oram`). Ring ORAM's server has the same order (`RingORAMServer.cpp:143-147`)
   and refuses what was cut off.
2. When the Ring ORAM client cannot open its stash file during an access, the
   access throws, the block is lost, the connection is still up, and a later read of
   the block returns zeros without an error (`ring_oram_stash`). Bucket files and
   the network do not have this effect: their failures end the server's loop, and
   every later call throws (`ring_oram_live`, which checks the refinement of `RAM`
   under them).
3. When an eviction of the Onion Ring ORAM client would overflow a child bucket it
   throws, and the root it was to empty stays full. The next access of a block that
   is not in the root changes the block's position, then finds no free slot in the
   root and throws as well. Nothing has been sent and the connection is up. A later
   read of that block, once a slot is free, looks on the wrong path and returns zeros
   without an error (`onion_ring_zeros`). The bucket sizes the repository uses by
   default make the first exception unlikely; the code relies on nothing else.

`Stop()` only clears a flag that the loops look at between two requests and set when
they start: it ends a loop with the request in hand or the next one (`StopIsSeen`), not
one whose client sends nothing, and a call before `HandleRequests` has no effect.

Ring ORAM evicts in the order of a plain counter (`RingORAMClient.cpp:274`), where
its design document and the paper speak of the reverse bit order, as Onion Ring ORAM
uses. The order decides how full the stash gets, which the code does not limit, and
none of the properties here depends on it: that dummies never run out rests on the
early reshuffles alone.

## 4. What is proved

For every height, number of blocks, set of values, bucket size (`BucketSize`; Z, S
and A), counter width and set of faults, from the named assumptions on the
constants in the modules (`TreeHeightAssumption`, `BlocksAssumption`,
`ServerAssumption`, `ClientAssumption`, `RingBlocksAssumption`, `RingServerAssumption`,
`RingClientAssumption`, `OnionBucketsAssumption`, `OnionClientAssumption`, `SizesAssumption`,
`BytesAssumption`, `NetIOStreamAssumption`, `IncrementsAssumption`) and nothing else, but for the
hypotheses named in the table:

| Module | Theorem | States |
|---|---|---|
| `PathORAMProofs` | `TypeCorrect` | `Spec => []TypeOK` |
| | `OneMessageInTransit` | `Spec => []Conversation` |
| | `BlocksOnTheirPath` | `Spec => []PathInvariant`, the invariant Path ORAM rests on |
| | `Invariance` | `Spec => []IInv`, the inductive invariant of the three |
| | `CopiesAreCurrent` | if `"torn" \notin Faults`, then `Spec => []OneCurrentCopy` |
| | `CopiesInvariance` | if `"torn" \notin Faults`, then `Spec => []RInv`, its inductive invariant |
| | `WithoutIdKeeps` | removing an id from the stash keeps the other blocks in order |
| | `StepRefinesRAM`, `ImplementsRAM` | every step is a step of `RAM` or a stutter; if `"torn" \notin Faults`, then `Spec => RefinesRAM` |
| `PathORAMStoreProofs` | `AcknowledgedIsWritten` | `Spec => []AckMeansWritten` |
| | `AcknowledgedIsStored` | if `"disk" \notin Faults`, then `Spec => []AckMeansStored`: an acknowledged path is stored (with disk faults it need not be) |
| | `NoCommandFromTheMiddle` | `Spec => []CommandsAreCommands` |
| | `ReadsAreWhole` | `Spec => ReadsSeeWholeWrites` |
| | `StoreInvInductive` | every step keeps `StoreInv`, the inductive invariant of these |
| `RingORAMProofs` | `TypeCorrect` | `Spec => []TypeOK`: no bucket over capacity, no garbage decrypted |
| | `BudgetIsKept` | `Spec => []SlotBudget` |
| | `ReadsAgree` | `Spec => []OneXorReadPerAccess` |
| | `Invariance` | `Spec => []IInv`, the inductive invariant of the three |
| | `CopiesAreCurrent` | `Spec => []OneCurrentCopy` |
| | `BlocksStayOnPath` | `Spec => []BlocksOnPath` |
| | `NeverThrows` | `Spec => []NothingThrows`: where nothing fails no call throws |
| | `RInvInductive`, `RInvariance` | every step keeps `RInv`; `Spec => []RInv`, the inductive invariant of the three |
| | `ImplementsRAM` | if `"stash" \notin Faults`, then `Spec => RefinesRAM` |
| `RingORAMStoreProofs` | `CountsAreTrue` | `Spec => []CountsWhatWasTaken` |
| | `SlotsReadOnce` | `Spec => NoSlotReadTwice` |
| `OnionRingProofs` | `TypeCorrect` | `Spec => []TypeOK`: no message names a slot, bucket or path that is not there |
| | `BeliefIsTrue` | `Spec => []IdMapTellsTheTruth` |
| | `InvariantHolds` | `Spec => []IInv`, its inductive invariant |
| | `RootHasRoom` | if `TreeHeight # 0`, and `A <= BucketSlots` or `NumBlocks <= BucketSlots`, then `Spec => []RootBudget` |
| | `RAMUntilACallThrows` | until a call has thrown every step is one of `RAM` |
| | `FewBlocksImplementRAM` | if `NumBlocks <= BucketSlots`, then `Spec => RefinesRAM` |
| `OnionRingStoreProofs` | `AnswersTrue` | `Spec => []AnswersAreTrue` |
| | `HalfDoneIsPrefix` | `Spec => []HalfDoneLosesNothing` |
| | `OnionStoreInvariance` | `Spec => []OnionStoreInv`, the inductive invariant of the two |
| `FoundationsProofs` | `ShiftsFindSharedBuckets`, `WalksAgree`, `EvictionsReachEveryBucket` | `PathsMeetWhereShiftsDo`, `DownAgreesWithUp`, `EvictionsSpread` |
| | `NetworkPermutes` | `SwapsAnyPermutation` |
| | `CounterWraps` | `CounterIsAddition` |
| | `VectorsWhole` | if `Width >= 2`, then `Spec => VectorsArriveWhole`; one byte for the size is too few for the longest vector of the run |
| | `StreamDelivers` | any vectors whose lengths fit the size field arrive whole (`Transfer`) |
| | `CounterAdds` | `IncrementCounter` adds modulo `Power(n)`, for every n |
| `FoundationsLemmas` | `CanPlaceIffShared` | the shift test accepts a bucket of a path exactly when it is on the block's path |
| | `PathNodeClosedForm`, `PathReachesRoot` | where the climb of `GetPathIndices` is after i steps, and after all |
| | `BucketIndexIsPathNode`, `PathFromRootNodes`, `NodeLevelOfPathNode` | the descent meets the climb; the nodes of a path and their levels |
| | `WaksmanPermutes` | the network, with the bits made for a permutation, carries it out, for every size |

The assumptions say that parameters are positive numbers, that counters wrap at a
multiple of the number of leaves, and that the model values for "no result", "no
bucket" and "a stash file that cannot be parsed" are none of the values they are told
apart from.

TLC checked each inductive invariant before it was proved: `RInv` of Path ORAM in
`path_oram`, `RInv` of Ring ORAM, with `IInv` in it, in `ring_oram` and, added to
the configuration for that purpose, in `ring_oram_live` (disk, network and `Stop` at
once), `IInv` in that of `ring_oram_stash` too, the two `StoreInv` in
`path_oram_store` and `ring_oram_store`, and `OnionStoreInv`, added for that purpose, in
`onion_ring_store`. `StreamInv`, the one of the byte stream, quantifies over whole streams
of bytes, which TLC cannot try; it checked the refinement itself.

**Path ORAM: blocks on their path.** `PathInvariant` says that a block in the tree is
on the path to its position, unless it is the block of the access in progress in a
bucket about to be overwritten (`AwaitsOverwrite`). It is not inductive: when the
server writes a bucket, one has to know that the bucket in the request was filled
for this path, and that no other request is under way. `IInv` adds what is missing:

- `TypeOK`: among others, that requests and replies have their shapes and that
  blocks in the stash have addresses;
- `Conversation`: at most one message is in transit, it belongs to the access in
  progress, a reply to a path read holds the tree's buckets of that path, after
  an exception the connection is down and stays down, and the server that has left
  part of a request in the stream has left its loop;
- `PlacedInTransit`: blocks in `pathBuckets` and in the request are where the
  position map says, and an unserved path write names every node of the old path.

Each conjunct has a lemma for the server's steps and one for the client's, with one
case per action. The two places where something has to be *computed* are
`EvictBlock`, where the shift test has to imply that the bucket is on the block's
path (`CanPlaceIffShared`), and `Access`, where the path of the old leaf has to be
what the request names.

**Path ORAM: one current copy, and the RAM.** `RInv` adds to `IInv` what makes
`OneCurrentCopy` inductive:

- `CallState`: what a call holds between its steps, and that the reply to a path
  read is consumed bucket by bucket;
- `AccessedOnOldPath`: the block of the access is in the stash or on the old path,
  the only place where its position is out of date, so the client that has read the
  path has the block;
- `PathReadWasThere`: a path the client has read had all its buckets, so that no
  lost bucket is overwritten before the loss is noticed. A write that hid the loss of
  a bucket further up or down would make an address read as zeros; it cannot come,
  because the read before it throws;
- `PathBeingWritten`: while the server writes a path, a bucket is stored as the client
  filled it, lost, or still in the request, once.

`OneCurrentCopy` lets an address have no copy if it was never written or if a bucket on
the way to it is missing (`OnLostBucket`). The way is that of its position, or of its old
leaf while it is being accessed (`LeafOf`); `Access` draws the new position at random and
cannot know of lost buckets, which is why the step from the old leaf to the new, in
`AccessStash`, needs `PathReadWasThere`.

A step moves copies from one place to another, or changes nothing that is counted,
or is the write of the block in hand, or loses a bucket with what it had. So the proof
shows once that a step which carries the copies of each address, or all but one, leaves
one copy one copy, with its value (`StillOne`, `Moves`, `Carries`), and each action says
what it carries where; `ReturnCopies` alone, where the tree takes over from the client,
has to say which copies were lost. The refinement
then needs of a reachable state only that the block `AccessStash` finds has the
value last written, which is `OneCurrentCopy`: every step that sets a result is a
read or a write of `RAM`, every exception a failure, and every other step leaves
`RAM`'s variables alone. After an exception the connection is down, and by
`Conversation` no later call succeeds. The one hypothesis is `"torn" \notin Faults`,
without which the theorem is false (`path_oram_torn`); `TypeCorrect`, `BlocksOnTheirPath`
and `Invariance` do not have it: whatever a torn file gives the client goes through the
stash and is put back where the position map says.

**Path ORAM: the server alone.** Against any client `StoreInv` says that between
requests each file is as asked for, or lost (`UpToDate`), and of the states in which a
path is half written (`HalfWritten`) that a bucket is as asked for, lost or still to be
written from the request. The server either goes on or leaves the loop and never reads
again; that it reads no command from the middle of a request is part of the same
invariant. `image` is what `Init` and the requests asked for, whether they succeeded
or not: after an `Init` that threw half way the files it did not come to are gone, not old,
because `remove_all` came first.

**Ring ORAM: conversation and budget.** Statistics, budget and the types of decrypted
payloads all need the two ends to be in step. In `IInv`, `Conversation` says that the
client's point determines the one message there may be (`InStep`), or the connection
is lost and no reply will come; `RepliesAreTrue` that metadata, bucket, count and
statistics still hold when the client uses them, and that an acknowledged bucket is
fresh on the disk, or lost; `SlotsAsAsked` that while `HandleXorPathSlots`
goes along the path the slots still to come are valid and as the client saw them,
and that what was taken elsewhere is a zero dummy, so the aggregate is one block or
zero; `CountInv` that a bucket with S slots taken is one the present call will
rewrite (`AwaitsReshuffle`), which is what leaves a valid dummy in every bucket of
the next path. `ReadsCounted` follows the two counters, modulo 2^64.

**Ring ORAM: copies, paths and the RAM.** `RInv` adds to `IInv`:

- `CopiesInv`: as long as no call has thrown and the request in progress may still
  be answered (`Accountable`), every address has one copy with the value last
  written (`Accounted`), in the stash, in the client's hand, in the aggregate on its
  way or in a bucket as it will be once the request on its way has been served
  (`Contents`). The exceptions are the block of a write, which the client drops
  before it makes it anew, and a block whose path has a bucket that the disk has
  lost (`OnLostBucket`). Every block is on the path to its leaf (`BlocksInPlace`), and
  the slots the server has been to no longer hold the block it is looking for
  (`BlockIsTaken`). The invariant has to speak of states with lost buckets, since
  the client does not know of them until it reads them and throws;
- `CallInv` and `LoopState`: that the call has its block where the step needs it,
  that the loops of `EvictPath` and `EarlyReshuffle` visit each bucket once, that
  a bucket that is read is a bucket that will be written;
- `ThrowsAreFinal`: where the stash file can be relied on an exception means that
  the connection is gone;
- `Undisturbed`: where nothing fails no call has thrown, the server serves, and
  the buckets exist.

Each action of the client and each way of the server through a request has a lemma
that says which copies move (`Moves` again: the copies of an address stay as many and
keep their data). The two places with arithmetic in them are the buckets that
`InitializeServerStorage` and `FillBucketFromStash` fill from the stash (`SharesOut`:
what one bucket does not take is left to the next, and nothing is left twice), and
the slots of a path, where at most one is the block's (`OneTarget`). `NothingThrows`
needs in addition that a bucket with fewer than S slots read still has a dummy
(`DummyLeft`, a count), that the target slot exists, that a full read can be padded to
Z (`ReadPads`), and that the reply fits.

The refinement needs of a reachable state only that the block which `PutBlockInStash`
has in hand for a read has the value last written (`HandIsCurrent`), and
`ThrowsAreFinal` for the calls after an exception. It is false with stash faults:
`ring_oram_stash` shows an exception with the connection still up, after which a
read gives zeros. That is the hypothesis `"stash" \notin Faults` of `ImplementsRAM`, and
the only one; bucket files, the network and `Stop` may fail as they like.

**Ring ORAM: the server alone.** For `NoSlotReadTwice` and `CountsWhatWasTaken` it is
enough that the valid slots of a bucket are among those not handed out since it was
written, and that the step at which the server is fits the request it has read.

**Onion Ring ORAM: the id map.** The client never sees an id in what it receives: it
gets the sum of a path, and it is right only if `id_map_` is true of every slot of
the tree, those it takes for dummies above all. `IdMapTellsTheTruth` says so of the
slots as they will be when the writes under way are done. It becomes inductive by
taking apart where the call stands. `Shape` holds always: the types, that at most one
message is in transit and that it is the one the client's point calls for
(`Conversation`), which locals are in use (`CallShape`), and that `todo` is the rest of
a path (`LoopShape`). As long as no call has thrown and the one in progress may still
be answered (`Sound`), `Truth` holds: a block has one slot at most, on its path or on
the old one while the call is clearing that, and one without a slot is zero or in the
client's hand (`MapHolds`); every slot that is not being written has its block's
value or zero (`Mirror`); and one conjunct per wait says what the message carries and
what is done already: the sum is the block's value (`SumState`), the slots of the path
are cleared from the root on (`ClearState`), the buckets fetched are the server's
(`FetchState`), the slots before the cursor are written and the new map will be true
as well (`WriteState`). Four places have something to compute:

- the sum of a path, of which all but one term are zero (`PathSumSteps`, `OneTermSum`);
- the clearing of a path, whose buckets differ from each other (`PathFromRootNodes`);
- `TripletEvict`, where the bit of the position at the level of the bucket has to be
  the child on the path (`PathNodeChild`), and where every old slot with a block goes
  to one new slot (`Shuffled`);
- the order of the evictions, a reversed counter that has to name a leaf
  (`ReverseBitsBound`).

**Onion Ring ORAM: room in the root.** `Budget` adds that between evictions the root
has at most as many blocks as there were accesses since the last, and that the
first bucket an eviction rewrites leaves it empty. The hypotheses are needed: the
root of a tree of one bucket is a leaf, which is refreshed and never emptied, and
with more blocks than slots and A larger than the bucket the root is full before its
eviction. The default configuration (508 slots, a = 249) satisfies the first
alternative, that of the access-only tests (8 slots, a = 64, 8 blocks) the second.

**Onion Ring ORAM: the RAM.** Up to the first exception every step of the system is a
step of `RAM` (`RAMUntilACallThrows`, for all constants), since the sum that a read
returns is the value last written. After it no promise can be made in general: an
eviction that overflows throws on a connection that goes on, and `onion_ring_zeros`
shows a later read return zeros. With no more blocks than a bucket has slots
no child overflows and no bucket is without a slot to offer, so only the network
makes a call throw, and `Broken` says that no later call succeeds: that gives
`RefinesRAM` (`FewBlocksImplementRAM`), with any faults. The end-to-end tests have as many
blocks as slots; the default configuration, 1024 blocks and 508 slots, has not, and
relies on evictions spreading the blocks.

**The tree.** `CanPlaceIffShared` rests on `PathNodeClosedForm`: the node i steps above
leaf `l` is `2^(h-i) - 1 + (l >> i)`. It is proved by induction on i, as is everything
about `Iterate`; since an induction theorem that takes a predicate as a parameter
cannot be instantiated, `FoundationsLemmas` first proves the least number principle
as a fact about sets, and each induction takes a least counterexample. For
`EvictionsSpread` it shows that the high bits of a reversed number are the low bits
reversed (`ShiftOfReversed`), that numbers with the same reversed bits differ by a
multiple of a power of two (`SameReversed`), and so that 2^l consecutive values of
the counter reach different buckets (`ReversedApart`).

**The swap network.** `BuildNetwork` makes n phases of gates between neighbours,
the even and the odd pairs in turn; `GenerateSwapBits` sorts the elements along it by the
position they are wanted at and keeps the bits, `EvalWaksman` replays them on the data.
That the sorting ends up sorted (odd-even transposition sort) is proved by thresholds:
for each t, write one where the wanted position is beyond t and zero elsewhere. An
exchange of the ranks, seen through the threshold, is an exchange of the zeros and ones;
a row of zeros and ones is sorted after n phases, because a lower bound on the number of
ones at or beyond each position (`Ahead`) grows with every phase until it is all of
them; and ranks all of whose threshold rows are sorted are sorted. `WaksmanPermutes`
adds that the same bits make the same exchanges on the data.

**Onion Ring ORAM: the server alone.** `AnswersAreTrue` compares an answer with the
tree as it was when the request was sent (`before`) and with what was `asked`.
`OnionStoreInv` says what holds on the way: until it is served the request in transit is
the one asked and the tree is the one before; in the middle of a clearing or of an
eviction (`Clearing`, `Evicting`) how far the server is and what is left in the request;
and that the bucket of a leaf refresh outlives its first request. Four things have to be
computed:

- the server adds the selected slots from one end of the path, `AnswersAreTrue` from the
  other (`SumsAgree`: `Plus` is associative and commutative modulo `ByteModulus`);
- an update that names a slot which does not exist, makes more than a bucket full or comes
  without its bits is refused (`AcceptedIsGood`; the last because a network
  has gates, `NetworkHasGates`), so what is accepted has a permutation to carry out;
- the slots of a child, old ones and those taken from its parent, come out permuted as
  asked (`UpdateCarriedOut`, by `WaksmanPermutes`);
- clearing a path slot by slot clears what was asked and nothing else (`ClearedFacts`).

**The counter.** `IncrementCounter` goes from the last byte to the first with what is
still to be added. `AddToByteKeepsSum` is its loop invariant: after k bytes the number the
counter stands for, plus `Power(k)` times what is left, is the sum asked for. So at the end
the counter is the sum but for a multiple of `Power(n)`, and being below `Power(n)`
(`BigEndianBound`) it is the remainder. Counting up from zeros the same fact says that every
number below `Power(n)` has n bytes that stand for it (`SizeBytesFacts`), which is what makes
a length prefix readable.

**The byte stream.** Once the vectors are chosen the whole stream S of prefixes and data
is determined, and `off[k]` is where in it the first k vectors end (`StreamExists`). `InStream`
places everything in S: the client has given its first m vectors to `SendVec`, of which the
kernel has taken `sent` bytes, `out` are those up to `off[m]` (`SenderAt`); `taken` bytes
have become vectors, or the prefix of the next, and the receiver waits for a prefix at
`off[Len(received)]` or for data after it (`ReceiverAt`); what is in the kernel and in the
receiver's buffer are the bytes of S from there, up to `sent` while the connection is up
(`BytesAt`). Partial sends, partial receives and a break that loses what the kernel held
all keep that. A receiver that has read a prefix has read that of the next vector
(`SizeArrives`), so the data it then waits for are that vector (`DataArrive`), and appending
them is `Transfer`'s delivery; every other step breaks off or stutters (`StepDelivers`). The
hypothesis that lengths fit the prefix (`Sendable`) is what eight bytes give the code.

**Only model-checked.** Liveness, since the prover has no fairness or `ENABLED`: `CallsEnd`,
`ServerEnds`, `StopIsSeen`, `NoRequestHangsTheLoop`, `EverythingArrives`.

## 5. Not modelled

- *Encryption, noise and byte layouts.* Ciphertexts are what they decrypt to, and
  homomorphic operations do to plaintexts what they are meant to: that noise stays
  below the threshold of decryption is a matter of parameters. `EncryptBlock` and its
  like throw without keys or for blocks longer than a polynomial; no ORAM does that.
- *`NetIO::Sync`, `SetDelay`.* No ORAM calls them.
- *A second client, or a restart.* The server accepts one connection, and neither
  side reads what a former process left: both remove the old tree on `Init`.
- *Direct calls* of the public steps of the Ring ORAM client, its
  `ServerBucketCount` between accesses and `early_reshuffle_count_`; the request
  statistics of the Path ORAM server are modelled as counters and not compared with
  anything.
- *Arguments out of range* at the clients: undefined in Path ORAM
  (`PathORAMClient.cpp:63`), an exception before any change in the two others.
- *Loss of written data* after a file has been closed (page cache, power).
- *The worst of a torn file.* Parsing it may as well bring the process down, which is
  the server leaving its loop and being destroyed, or give identifiers that are no
  address; the client would index its position map with them (`PathORAMClient.cpp:187`),
  which is undefined.
- *Scripts and the demo program.*

## 6. Plan

Done: 1 `Tree` and its theorems; 2 Path ORAM (server, client, system, server
alone); 3 its proofs: path invariant, one current copy, refinement of `RAM`, the
server alone; 4 Ring ORAM (the same four modules); 5 Onion Ring ORAM (the same four
modules); 6 `SwapNetwork`; 7 `Bytes` and `NetIOStream`; 8 the proofs of Ring ORAM:
conversation, budget and statistics; one current copy, blocks on their paths, no
exception where nothing fails, refinement of `RAM`; the server alone; 9 the proofs of
Onion Ring ORAM: the id map, room in the root, refinement of `RAM`; 10 the swap network
for every size, and the Onion Ring server alone; 11 the counter, and vectors over a stream
of bytes. Every property that a passing run checks is proved, under the hypotheses of the
table, but for liveness.

Left to do: nothing of the plan. What could be added is liveness, should the prover learn
`ENABLED`, and the parts section 5 leaves out.
