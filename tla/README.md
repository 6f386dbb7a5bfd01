# A TLA+ specification of TrustOnRelaychain

TrustOnRelaychain carries messages between blockchains. Users of a *parachain*
hand a message to its `StateSpv` contract; *gateways* (Python processes) carry
headers, block roots and messages to other chains, whose contracts receive them.
There are three protocols:

| protocol | path of a message | code |
|---|---|---|
| ToR (trust on relay chain) | headers and one Merkle root per block (BCR) go over the relay chain, the messages themselves directly to their destination | `relayer/tor` |
| NoR (no relay) | headers and messages go directly from source to destination | `relayer/nor` |
| AoR (all on relay) | headers and messages go to the relay chain, and from there to the destination | `relayer/aor` |

All three are modelled, with the contract functions they call, the threads of a
gateway, the tree algorithms behind the roots, the library that checks storage
proofs, the schedulers that drive an evaluation, decide when it is over and draw
its statistics, and what comes before all that: the server with the configs, the scripts
that start and stop the chains, and the deployment of the contract. For the three protocols the
safety properties are proved for every number of chains, routes, messages and blocks, and so are
those of the scripts and servers, for every number of hosts, chains, nodes, ports, tags and pids,
those of an evaluation, for every number of parachains and messages, and those of the trees, the storage
proofs and RLP, for trees, tries, values and lists of every size and depth.

## 1. Inventory

### Components, their state and their operations

| component | state | operations | module |
|---|---|---|---|
| chains (geth, proof of authority; external) | sealed height, transactions of the block being produced | execute a transaction, seal a block | `Chain` |
| `StateSpv.sol`, ToR part | `trees`/`roots` per block, `rootsOnRelay`, `bcrHeightOnRelay`, `chainToHeaders`, `rootsOnDst`, `cmsRecordByCount` | `crossSendToR`, `SubmitHeaderAndBCR`, `SubmitHeader`, `crossReceiveBCR`, `crossReceiveFromParaToR`, getters | `StateSpv` |
| `StateSpv.sol`, NoR and AoR part | `cmHashes`, `cmHashesOnRelay`, `chainToHeaders`, `cmsRecordByCount` | `crossSend`, `crossReceiveFromPara`, `crossReceiveOnRelay`, `crossReceiveFromRelay` | `DirectSpv` |
| incremental tree of `StateSpv.sol` and the builders of `bcr/contracts` | two path buffers and a flag, a list of leaves, or a whole tree | `build` | `BCR` |
| `merkle_helper.py` | none | build a tree, its root, a proof; check a proof | `MerkleTree` |
| ToR gateways | next block, what has been read for it, own nonce, sent transactions | `send_header` (two kinds), `deal_txs`, `query_bcr`, `send_bcr`, `send_cm` | `ToR` |
| NoR gateway, AoR gateways | the same with two accounts | `send_header`, `deal_txs`, `query_construct_dst_tx` | `DirectGateways`, `NoR`, `AoR` |
| threads of a gateway | `walk_height`, `now_height`, queue, block in hand | `query_block`, `deal_block` | `GatewayThreads` |
| RLP and Patricia trie library of the contract (`spv/lib`) | none | `RLPReader`, `extractProofValue`, `verify` | `RlpReader`, `StorageProofs` |
| schedulers: gateways | keys, accounts, launched gateways | fund and launch them, in the order of the protocol | `GatewayStart` |
| schedulers: workload | sender processes, `counts`, timers, payload files | `send_cm_local`, `wait_finish`, `main` | `Scheduler` |
| schedulers: statistics | two dictionaries shared by threads, files of the collectors | `statistical`, `pkill`, `collect_info`, `statistical_info` | `Statistics` |
| config server and client | JSON files | get, create, additem, update, append, remove, and their checks | `ConfigServer` |
| servers of the chains | processes, ports, pid files | `start_chain_pre`, `start_chain`, `killlast`, free ports | `Hosts` |
| chain tools, start and stop | the operator's copy of a config | `4_0_start_parallel_chain`, `4_1_create_default_parallel_account`, `stop_remote_geth`, pre_start, start_chain, start_mining | `ChainTools` |
| deployment of the contract | compile cache, config | `contracts/deploy.py`, `compile`, `deploy` | `ContractDeploy` |
| config generation | configs | `0_initialize_config`, `generate_configs` of the protocols | `Deployment` |
| SDK wrappers, figures, file transfer | none of the protocol's | | not modelled (section 8) |

`PROJECT.json` lists every component with its files.

### Interactions

- A gateway *reads* its source chain (sealed state only), and the message
  gateway of ToR also the relay chain; it *sends* transactions to its destination.
  Gateways never talk to one another: all coordination is through what is stored
  on the chains. ToR's message gateway waits until the relay chain has the BCR
  (written by one gateway) and its destination the relay header (written by another).
- Header gateways wait for every receipt. Message gateways wait for none and
  number their transactions themselves (`tx_nonce`).
- A destination contract computes whether a message is proved and *does not consult
  the result* (`StateSpv.sol:124,152,179,239`). What it receives is genuine only
  because of the order in which gateways do things. That makes the protocol
  properties system properties: no single component guarantees them.
- The scheduler starts the gateways in the background, sends, and polls one counter
  per chain, which every sender resets at its start. What it measures it reads back
  from the chains and from files that collectors write until they are killed.
- The scripts share nothing but the configs on the server. Each changes a copy and
  writes a whole chain back; geths and bootnodes are known by host and port, or by
  the pid in the file of their tag.

### What is hard here

The order of BCR, headers and messages over three independent gateways; block
roots that change with every transaction of the open block; a relay height looked
up by the *value* of a root; nonces counted at the sender over blocks that
concern several destinations; two accounts whose transactions nothing orders (NoR
and AoR); threads that die silently and leave the other one of their process running; a tree whose two buffers keep stale entries;
counters read and reset by concurrent processes; threads that write the same keys of a
dictionary or the same two cache files; ports that are free until somebody binds them;
a server or a script that dies between two writes; encodings whose form changes at
a length. `PROJECT.json` has the full list of hazards with the line where each bites and the property that covers it.

### What makes each component correct

| component | properties |
|---|---|
| protocol, for its users | `ImplementsCrossChain` (ToR, NoR, AoR): only messages that were sent, to whom they were sent, at most once, in order; `AllDelivered` |
| contract and gateways of ToR | `RootsAreFinal`, `BCRsAreProven`, `ReceivedIsGenuine`, `ReceivedInOrder`, `NoncesAreContiguous` |
| NoR, AoR | `MessagesAreProvable`, `ReceivedWasProved` |
| trees | `RootsAreBlockRoots`, `PathsAreFrontiers`, `ProofsAreBinding` |
| threads | `ImplementsBlockFeed`, `AllDealtWith`; for the composed system `GatewaysFeed` |
| proof library | `ReaderInvertsEncoder`, `ProofsAreExact` |
| schedulers | `GatewaysHaveMoney`, `FinishedMeansReceived`, `CountsAreOfThisRun` (violated), `LatenciesAreOfThisRun`, `MainEnds` |
| servers, chain tools, deployment | `PidFilesNameTheProcesses`, `DeploymentIsUsable`, `StoppedIsStopped`, `CacheIsSound`, `ScriptsEnd` |

## 2. Modules

    CrossChain            what users are promised          BlockFeed   what a gateway sees
        ^       ^                                             ^    ^     of its source
        |       |   (refinement)                              |    |
      ToRInv   DirectInv                                   ToRInv  GatewayThreads
        |       |    NoR, AoR
       ToR   DirectGateways        MerkleTree
        |       |                     ^      ^
     StateSpv DirectSpv              BCR   MCToR (instances; gives Root its value)
          \   /
          Chain                    RlpReader  StorageProofs   (with BCR in MCProofs)

     GatewayStart <- Scheduler <- Statistics <- StatisticsInv   (what main of a scheduler does, in order)

     ConfigServer, Hosts <- ChainTools, ContractDeploy <- Deployment <- DeploymentInv

    ToRProofs, GatewayThreadsProofs, StatisticsProofs, DeploymentProofs,
    ContractProofs (of BCR, RlpReader, StorageProofs), DirectProofs <- NoRProofs, AoRProofs: theorems
    MCToR, MCNoR, MCAoR, MCProofs, MCDeployment: instances for TLC

**Chain.** `height[c]` is the last sealed block. A transaction executes in block
`height[c] + 1` (`Mine`) and its effects are read once that block is sealed
(`Sealed`). This is where "read before the block is final" can go wrong. `Chain` is an
external: geth is not in the repository.

**StateSpv.** One record of storage per chain. A slot holding a root is represented
by leaves that have this root, and two slots are compared by `Root`, a constant:
`merkle_helper` and the contract pair an odd node with itself, so two different lists
(`<<x, y, z>>` and `<<x, y, z, z>>`) can have the same root. Nothing is proved
about `Root` except what the code itself supplies. `VerifyBCR` says when a
`verifyBCR` call returns true; `BCR` has that claim for the loop of the
contract (`ProofsAreBinding`). The contract records the result nowhere: `verified` in the record is a
history field.

**ToR.** A gateway is a pair of chains. `pc[g]` walks through the code for one block:
header gateways `idle -> sent -> mined`; the message gateway `idle -> bcr -> proof ->
cms`, one step per remote read or send, since other processes move between them.
`P2RSend`/`R2PSend` build the transaction, `*Execute` is its execution on the
destination, `HeaderReceipt` the receipt. `GetBCR` and `GetBCRHeight` are separate
reads of the relay chain; `GetBCRHeight` may answer any height the code's look-up by
value may have (`IsBCRHeightOnRelay`). `SendCM` looks at one message at a time. Sent
transactions wait in `pendingBCR` and `pendingCM` and execute in nonce order.

**DirectSpv, DirectGateways, NoR, AoR.** The same for the other two protocols; the
walk over blocks is shared, what differs is which messages a gateway takes and which
function it calls. A parachain's messages are numbered from 0 (`crossSend`), those on the relay chain from 1, over all sources
(`crossReceiveOnRelay`); a gateway finds either under the index its event or its record gives (`SourceIndex`). A message stands for its hash. `DirectInv` has the inductive invariant and the
refinement that both protocols share.

**GatewayThreads, BlockFeed.** `query_block` reads `block_number`, then fetches up to
it, then polls again; `deal_block` takes from the queue. Neither catches an exception: `RaiseQuery` and `RaiseDeal` end one
thread, and the other goes on. `BlockFeed` is "every sealed
block from the start on, once, in order". `ToR` has one variable `next[g]` in place of
threads and queue; `ImplementsBlockFeed` and `GatewaysFeed` connect the two.

**MerkleTree, BCR.** `MerkleTree` has a block's tree, layer by layer as `merkle_helper.py`
builds it, its proofs and their check, and the loop of the contract's `build`, turn by turn. A loop is
a recursive function of the number of turns: it ends on the layer `Top(n)` on which one node is left, which
is where `index` or `length` has become 1 in the code. `BCR` has one action,
`CrossTransfer`, that adds a leaf to each of four stores the way the four contracts'
`build` does it, buffer by buffer. `Complete` and `Frontier` are not in the code: they say what its
path should hold.

**RlpReader.** The encoder as the library `rlp` makes it (external) and the reader of the contract on a memory of
bytes. The reader's loops are recursive functions of the number of turns: `Places` is where the walk of
`toList` stands after each element, `Word` is an `mload` shifted to its first bytes. `Decode` is the reader applied down to
a depth, as the contract does for the elements it takes out. In the run a long string is one byte repeated.

**StorageProofs.** Tries and their proofs as a node gives them (external): a node of the trie stands for the set of
keys that share its first nibbles, and a node smaller than 32 bytes is inside its parent. Of the contract it has the walk of
`extractProofValue`, node by node, and the account proof followed by the storage proof as `verify` does it. Proofs are also
checked against the roots and keys they were not made for. `MCProofs` puts three things
that have no state in common into one run.

**GatewayStart, Scheduler, Statistics.** `GatewayStart` has main of the three schedulers up to the
launch: one thread per chain (and per pair of chains) makes keys, sends money, keeps
the keys before or after the receipt as its protocol's code does, and main launches
one gateway for each pair of keys. In `Scheduler` a message is a chain and a number.
One process per parachain resets the counter, sends, waits for receipts, writes its payload file; one
thread per chain polls a counter and sums a shared list. `Deliver` stands for the gateways, with
what `CrossChain` promises: it needs all gateways on the way of the message, and it
assumes that they walk before the first message is sent, which the run
`tor_late_gateways` shows to be a race. `Statistics` adds
AoR's `statistical` (one thread per chain: those of the parachains read the records that a destination keeps, the relay
chain's reads nothing, as `crossReceiveOnRelay` counts nothing under `countOnDst`), `pkill` and `statistical_info`, which may find the file of a
collector whole, half written, missing or left from an earlier run. Any process,
thread or gateway may die of one exception. `StatisticsInv` has the inductive invariant.

**ConfigServer, Hosts, ChainTools, ContractDeploy, Deployment.** `ConfigServer` is a
map from file to config with the operations and checks of the server; a crash after `open(.., 'w')`
leaves the file empty, and every operation on it fails until it is initialised. `Hosts` has the scripts
on a server: a new process has its ports from a list of those nobody *listens* on, and binds them later
or exits. A process that has been signalled (`ending`) exits some time later. `ChainTools` has the scripts of the operator as one control state (`script`) that works
on its copy of the chains. `StopNode` is one remote `pkill`, which may fail before or after it has signalled anything: the code
prints that and goes on, and the model keeps it in `failed`, from which `Deployment` makes the history variable `unstopped`. `ContractDeploy` has a thread per chain with the two files of the compile
cache they share, written one after the other. `Deployment` starts one script at a
time, as an operator does, interrupts it, and edits the contract's source. `DeploymentInv` has its
inductive invariant.

`PROJECT.json`, `map`, has the source lines of every definition. Definitions whose
comment begins with *Variant* are deliberately wrong forms of the definition after
them: they are used only to confirm that a property notices such a bug.

## 3. Runs

| run | instance | what it asks | states |
|---|---|---|---|
| `tor_one_route` | 1 -> 2, two messages with two payloads, 10 blocks | all safety properties of ToR, its inductive invariant, both refinements | 350,736 |
| `tor_two_destinations` | 1 -> 2 and 1 -> 3 | filtering a shared block, nonces without gaps | 2.6 M |
| `tor_delivery` | 1 -> 2, gateways first | every message is received | 132,182 |
| `tor_late_gateways` | 1 -> 2, users first | **violation**: a message is never received | |
| `nor` | 1 -> 2 and 1 -> 3 | headers before messages, CrossChain, delivery | 273,913 |
| `aor` | 1 -> 0 -> 2, messages also for 3 | proofs over both hops, the inductive invariant of NoR and AoR, CrossChain, delivery | 315,072 |
| `aor_two_sources` | 1 -> 0 and 2 -> 0, 0 -> 3 | proofs of the second hop, where the relay chain's indices are not those of the sources | 4.2 M |
| `bcr` | two trees, up to 9 and 3 leaves, two data; RLP lists to depth 3; four addresses and four positions over three blocks | four builders against the gateway's tree, paths, proofs bind; the reader inverts the encoder; a proof yields what is stored, and one of another block or key that or nothing | 36,300 |
| `gateway_threads` | 7 blocks, exceptions | the threads are a block feed; nothing is left undone while both live, nothing that is fetched while `deal_block` lives | 1,456 |
| `scheduler` | ToR, AoR and NoR, 2 parachains, 2 messages each, up to 2 records left from an earlier run, one exception | gateways have money; the evaluation ends only when all is received; latencies are of this run; the inductive invariant; main ends unless a reset wiped a count or something died | 253,022 |
| `scheduler_late_reset` | 3 parachains | **violation**: a count misses a message of this very run | |
| `deployment` | an eth-poa and an eth-pow chain on one host, 6 ports, 14 pids, up to 3 scripts, one interrupt | a chain that is started and deployed is usable; pid files, stop, cache; the inductive invariant; every script ends | 919,717 |

Two sources of ToR on one destination have no run: `BCRsAreProven` and
`ImplementsCrossChain`, which they are about, are proved for every set of routes.

Why these bounds are enough to be interesting:

- *Two messages* fall into one block or two; have the same payload or not, so that
  two blocks have the same root (`GetBCRHeight` by value); and go to the same or to
  different destinations. Three are
  not checked by TLC; the theorems hold for every finite number.
- *`MaxHeight`* is large enough for every header and root transaction of the run to be
  mined in a block of its own, where delivery is checked (10 to 12); where it is
  smaller (5), safety is checked on all interleavings of that prefix. `MaxIdle` bounds empty blocks,
  which only delay. No guard depends on a bound except through `Mine` and `Seal`.
  At the bound the chains stop, hence `CHECK_DEADLOCK FALSE`; the delivery runs
  have blocks enough that the bound is never what keeps a message away (otherwise
  `AllDelivered` would fail).
- *Nine leaves* cover powers of two and their neighbours, every parity pattern of
  a path of four levels, and a shrinking path in a buffer that held a longer one; a second tree
  with three shows that trees do not share state. The theorems hold for every number.
- *Strings* of the RLP run have lengths on both sides of 1, 55 and 255 bytes, in
  lists of up to two elements and depth 3, whose encodings `MaxBytes` keeps below 2000 bytes: three of the
  four forms of a length, which the theorems have all. *Keys* of the tries have 64 nibbles, as hashes have; they
  differ in the first or second nibble, which makes branches at the root, below it and behind an extension, and paths of
  even and odd length, or in the last nibble only, which makes leaves so small that they are embedded in their parent. `eth_getProof`
  leaves those nodes out, and the contract then proves nothing (`Embedded` in `ProofsAreExact`). Keys of
  keccak256 that differ nowhere else are not to be expected. *Values* take one byte or 32.
- *Two parachains with two messages each* give every counter a message of this run and
  room for leftovers; the early end and the late reset need nothing more. With one
  message per pair of chains, three parachains are what `scheduler_late_reset` needs, since
  its senders must overlap with a third.
- *One host* makes all nodes compete for the six ports (two geths need two each, their
  bootnodes one): starts fail for want of ports too. The config `parallel_chain` holds one chain of two
  nodes or two chains of different types, whose names the generated config `nor` shares. *Three scripts*,
  at most two of which change chains or configs, are
  the shortest sequences with something stale: start, stop, deploy; start, interrupt, start
  again. One script is interrupted. There are more pids than a behaviour starts processes. Only a
  source that is in the cache is edited: another edit changes nothing.
- *Seven blocks* let the query thread be several blocks ahead of the deal thread.

### What the violations show

- `tor_late_gateways`. The README of the repository says that the script first starts
  the gateways and then runs the evaluation. `scheduler.py` launches each one with
  `nohup ... &` and goes on at once. A gateway has a Python process to start and its
  configuration to load, and walks from the block that is the last one *then*. A message in an earlier block is never received and
  `wait_finish` does not return.
- `scheduler_late_reset`. The comment at `scheduler.py:241` says that the count is
  initialised for `wait_finish()`. Every chain's process does that at its own start; another one
  may already have sent a message that is delivered before the reset. It is counted
  and wiped, and the sum no longer reaches the target.

### What one should know of the deployment scripts

The properties of `deployment` hold with the exclusions they name, and those are
worth knowing:

- `DeploymentIsUsable` is about eth-poa chains. `start_mining` of the eth-pow tool unlocks the first
  account of whatever geth answers, so a stale port can lead to another chain's node.
- A start without `--reset` skips a chain that has an `rpcport`, running or not; after `stop_remote_geth`
  only `--reset` starts it again, and the contract address of the old chain remains in the config.
- Stop kills by port, whoever serves it. It ends normally when a kill has failed, having printed that: `StoppedIsStopped`
  is about the other nodes, and says that their geths have been *told* to end. `pkill` sends a signal and waits for nothing,
  so a geth may still answer when the script is through. A host that refuses the connection, or a node without
  `rpcport`, ends the script, and the nodes after it are not told.
- Chains of the same name and type in different configs share
  their tags, hence their pid files: starting one kills the other.
- A deploy killed between the two files of the cache can leave a source with another
  version's result; the next deploy takes it. `CacheIsSound` excludes interrupted deploys.
- A config truncated by a crash of the server is repaired by `0_initialize_config` only.
- `eth-hit` and `bu` chains cannot be started: the remote script knows neither type, and `bu`'s
  pre_start unpacks four values into five variables. `4_1_create_default_parallel_account`
  fails in its threads for eth-poa, whose tool has no such method.
- A main of a scheduler that ends with an exception leaves its gateways running.

## 4. Fairness

Safety runs use `Spec`, without fairness. The delivery runs assume

- weak fairness of each gateway's own steps: each is an operating-system process (or
  thread) that polls with `sleep(1)`, so a step that stays possible is taken;
- weak fairness of the execution of a sent transaction and of sealing a block that
  holds a transaction: a proof-of-authority signer seals every 5 seconds and takes what
  is in its pool. Empty blocks are *not* assumed;
- nothing of users, who need not send;
- in `Statistics` (and so `Scheduler`, `GatewayStart`), weak fairness of each thread's and process's
  next step, of sealing, of `Deliver`, which is what `tor_delivery` shows, and of
  the timers; none of exceptions, deaths and collectors;
- in `Deployment`, weak fairness of the steps of the running script and of each started
  process that binds its ports or exits, also after a signal; none of the operator, of crashes and of interrupts.

Strong fairness is used nowhere. In `GatewayThreads` an exception may end either thread at
any step, and no fairness prevents it. While `query_block` is dead, the blocks it has not fetched
remain undone; while `deal_block` is dead, those in the queue do, and the queue grows. `AllDealtWith` says that these are
the *only* ways a block can remain undone: what `query_block` has fetched before its end is dealt with all the same.
The delivery runs of the protocols assume that neither thread dies.

## 5. Proofs

All proof modules are checked by TLAPS without omissions. The
assumptions are those of the constants, which TLC evaluates on every run:

- `Para` a set of positive numbers, routes between different parachains, natural bounds,
  two parachains at least in an evaluation. `Root` is any operator.
- NoR: any set of gateways between parachains. AoR: one from each parachain to the relay chain and
  one back. Both: `OneCarrier`, a chain that takes messages from the relay chain takes
  them from no one else, which follows from either (the two protocols never run together).
- Trees: any data, any number of trees and of leaves in each. `Hash` makes a record of its two arguments, which is
  what collision-free means here.
- Storage proofs: keys have 64 nibbles, no two addresses and no two positions have the same (`KeyAssumption`: keccak256
  is injective); 0 is a value, the others take up to 32 bytes (`StateAssumption`). Nothing is assumed of how many
  accounts, positions, values and blocks there are, or of where keys part.
- RLP: strings consist of bytes, and an encoding of fewer than 2^24 bytes (`RlpAssumption`), which is far more than geth
  takes as a transaction. Nothing is assumed of how many elements and depths there are.
- Deployment: sets of ports and pids are positive numbers; a tag belongs to geths or to bootnodes, not to both
  (the scripts prefix them); there is a config `parallel_chain`; the chains of one config have names of their own, as those
  have that the repository generates, and every node of a type that can be started has a tag. Nothing is
  assumed of how many hosts, ports and pids there are, or of which chain is on which host.

| theorem | statement |
|---|---|
| `ToRProofs!Inductive` | `Spec => []IInv` |
| `TypeCorrect`, `RootsFinal`, `BCRsProven`, `Genuine`, `InOrder`, `NoncesContiguous` | each property of section 1, from `IInv` |
| `ToRProofs!Implementation` | `Spec => ImplementsCrossChain` |
| `Feed` | `Spec => GatewaysFeed` |
| `NoRInductive`, `AoRInductive` | `Spec => []IInv` of `DirectInv`, for each of the two next-state relations |
| `NoRTypeCorrect`, `NoRProvable`, `AoRTypeCorrect`, `AoRProvable`, `AoRReceivedWasProved` | what a contract receives has been proved on its way, on both hops of AoR |
| `NoRImplementation`, `AoRImplementation` | `Spec => ImplementsCrossChain` |
| `GatewayThreadsProofs!Inductive` | the queue holds the blocks just below `walk_height`, in order |
| `GatewayThreadsProofs!Implementation` | `Spec => ImplementsBlockFeed` |
| `StatisticsProofs!AccountsHaveMoney` | `StatSpec => []GatewaysHaveMoney` |
| `EvaluationInductive`, `EvaluationTypeCorrect` | `StatSpec => []IInv` of `StatisticsInv`, `StatSpec => []StatTypeOK` |
| `Finished`, `Latencies` | `StatSpec => []FinishedMeansReceived`, `StatSpec => []LatenciesAreOfThisRun` |
| `TreesInductive` | `Spec => []IInv` of `BCR`: what the four contracts keep |
| `Roots`, `Paths`, `Binding` | `Spec => []RootsAreBlockRoots`, `[]PathsAreFrontiers`, `[]ProofsAreBinding` |
| `StorageProofsAreExact` | `StorageSpec => []ProofsAreExact` |
| `AnyProofIsSound` | whatever nodes a proof consists of, `extractProofValue` under the root of a trie returns the trie's value for the key, or none |
| `OwnProofIsComplete` | the proof a node makes for a key returns exactly what the trie has, unless a node is embedded |
| `VerifiedIsStored` | `verify` accepts a value only if the position holds it in the block of that state root, whatever proofs are presented |
| `ReaderIsExact` | `RlpSpec => []ReaderInvertsEncoder` |
| `EncodingsAreRead` | wherever in memory an encoding stands, of a string or list of any depth, the reader sees its length and finds what was encoded |
| `DeploymentInductive` | `Spec => []IInv` of `DeploymentInv` |
| `DeploymentTypeCorrect`, `PidFiles`, `Usable`, `Stopped`, `Cache` | each property of the servers and scripts, from `IInv` |

**The argument for ToR.** The property one wants, `ReceivedIsGenuine`, is about
receipts, and is not inductive: whether a message that executes now is verified depends on
what the destination stored, which depends on transactions sent long ago. `IInv`
follows the chain of custody backwards, one conjunct per link:

1. `BlocksAreWellFormed`: a block that is not yet open has no messages, so a *sealed*
   block's root never changes again (lemma `SealedRootsStay`).
2. `HeaderGatewaysAreReady`, `HeadersAreStoredOnce`: a header gateway reads a sealed block and its
   transaction is executed once; a stored header is never moved (`HeaderSlots`).
3. `RelayRootsAreFinal`: so the relay chain holds final roots, and what `BCRAt` answers for
   a relay block stays (`BCRAtStays`).
4. `WorkersAreReady`: what the message gateway keeps across its reads is still true when it
   uses it. Here the look-up by value matters: the height it gets can belong to another
   block with the same root. It is nonetheless a height at which *its own* slot
   holds the root, because the code takes the *last* such height; with the first
   one the invariant fails, and TLC finds it.
5. `PendingBCRsAreFinal`, `NoncesAreContiguous`, `BCRComesBefore`: pending transactions are numbered
   without gap or repetition, and the BCR of a block has a smaller number than its
   messages or has been executed.
6. `DstRootsAreFinal`, `PendingCMsAreGenuine`: hence a message meets its final root.
7. `MessagesAreInOrder` (`Passed`): what has been sent or received is behind the place the gateway
   has reached, and the order of nonces is the order of the source.

`ImplementsCrossChain` follows: a `UserSend` adds the last message of its source, since it goes
into the open block; an `ExecuteCM` delivers a message that was sent, to its target, after
all of its source already there; every other step leaves both sets alone. TLC
checked `IInv` as an invariant before it was proved.

**The argument for NoR and AoR** is about two accounts whose transactions nothing orders. There is no
root to match: a message is provable when the header of its block is on the destination when it
executes. `DirectInv` follows it back, and both protocols use the same conjuncts, because `Records[c]` is the
list that the next hop reads: `cmHashesOnRelay` on the relay chain, `cmsRecordByCount` elsewhere.

1. `LogsAreOrdered`: the messages a chain offers stand in block order, also those that the relay chain has received;
   so the messages of a sealed block are a finite, final segment of the list.
2. `BlocksInHandAreReady`, `HeadersAreStoredOnce`: a gateway looks at messages of a block only after its
   header transaction has a receipt, and the header stays.
3. `PendingAreGenuine`: so each pending message is one of its source, behind the gateway, with its header in
   place: `MessagesAreProvable`.
4. `RecordsAreGenuine`: hence what is received was verified, and was brought by a gateway that has passed it. For AoR
   this is the premise of the second hop.
5. `NoncesAreContiguous`, `MessagesAreInOrder`: nonces of the second account number what the gateway passed, in its
   order; a message of one source is pending or received, and once. `OneCarrier` is used here: with two
   carriers to one chain the order would depend on who is faster.

For a reader of `ReceivedWasProved`: it says of AoR that the message was on the relay chain's list, with a
verified record, before it was received; steps 3 and 4 twice.

**The argument for the deployment.** `PidFilesNameTheProcesses` is the base: a start kills by the pid in the
file of the tag and nothing else.

1. `PidFilesDiffer`: two tags never have the same pid, as a new pid is unused and a file is overwritten only by
   its own tag's start. So `killlast` ends the process it means, and one tag has one process.
2. `SocketsAreExclusive`: a process that listens has its ports alone; so the geth that answers at a
   port, if there is any, is unique, though which geth it is depends on who bound first.
3. `KeysAreOwn`, `GenesisIsNew`: a geth has keys only for its own genesis block, and a start makes a fresh one. Hence
   `start_mining` of the eth-poa tool can unlock only an account of the chain that is being
   started, whatever answers: a foreign geth has no such key, and the script fails there. For eth-pow this
   argument breaks (section "What one should know"), which is why the property excludes it.
4. `StartIsAsFar`, `StopIsAsFar`: loop invariants of the two scripts over chains and nodes, which hold as long as
   no other script interferes; `FreshIsKept`: what they leave, until the next one. For a stop they say of each node
   behind the loop that its geths are `Signalled` or that its failure is in `failed`; that a signalled process exits between two steps
   changes nothing, and no other process of its tag is started before the next script.
5. `ScriptFits`, `DeployFits`: the operator's copy differs from the server's in what the script is about to save.
6. `CacheAgrees`: between two steps of the compile threads the result is newer than or as new as its
   source, and every thread that deploys has a current result.

The end of a script, by its own means, by an exception or by an interrupt, is one lemma (`EndStep`) for all scripts:
it leaves the config as it is, or truncated by the server's crash, ends the obligations of 4, and keeps those of 1 to 3 and 6.

**The argument for the accounts.** A launch looks at keys, not at accounts, so the invariant
`KeysHaveMoney` says what a key means: a transfer that has been sent, and for a gateway
from the relay chain one that has been executed, because that thread keeps its keys after the receipt.
The function before it launches only when all its transfers are sealed, which is its guard.

**The argument for the evaluation.** `wait_finish` reads the counts one at a time, at different moments, and every
thread compares the sum with a target that it computes from `N` and `MessagesPerPair` only.

1. `CountsFit`: what a thread has read of a chain is at most what was left there plus what has been received. No
   reset spoils this, because all processes have ended when the threads begin (`SendersFit`, `WaitsAreFresh`).
2. `TimersFit`: a thread's time starts only when the sum has reached the target. The target is
   the number of messages, and the parts of the sum are at most the numbers received at each destination when nothing
   was left; so a sum that reaches it leaves nothing out (`TargetIsReached`). That needs two facts
   about the fold that sums the counts, monotony and the cardinality of a disjoint union (`SumIsBounded`), which are
   inductions over the set of chains. They are made without induction theorem: a least counterexample in the size of the set.
   `FinishedMeansReceived` follows, as main ends its wait when every thread has ended or died.
3. `Recorded`: as nothing was left (`SendersFit`: every process has reset its chain) and the sum has reached the target, each
   parachain's records are exactly the messages sent to it. `ReadingFits`: the thread of a parachain therefore reads
   records of this run only, each of its chain's messages is still to be read or has its latency, and the relay chain's thread,
   which has nothing to read, changes none: `LatenciesAreOfThisRun`.

**The argument for the trees.** The contract never sees the tree. It keeps a path, climbs from the new leaf,
and reads a left neighbour from the path wherever there is one; what an earlier update left in the buffer lies
behind the path.

1. *Loops.* A recursive function over `Nat` is a `CHOOSE`, and the prover's library derives its equations by an
   induction it cannot instantiate. `RunExists` proves once, for all loops of these modules, that a run of the loop exists
   and is unique up to every turn, from a least counterexample (`LeastElement`); the equations of each function
   follow (`AncestorIs`, `LayersAre`, `ClimbingIs` and so on), and `SetOfNaturals` is the induction over turns.
2. *Positions.* On layer k the last of n leaves is below `Ancestor(n - 1)[k]`, and position n is there or just
   behind it (`NeighbourAncestor`). The subtrees left of position n are complete: a further leaf
   does not change them (`CompleteStays`).
3. *The path.* A turn at an odd `index` doubles the node, one at an even `index` needs its left neighbour, which is
   complete and is the next one in the old path, because `Complete` has one node for each odd digit of n from the
   lowest on (`FrontierHas`). `OnTheWay` is the loop's invariant: the node is that of the new tree, the new path is
   `Complete` of the new leaves up to this layer, `read` counts what the old one had on these layers, and `flag` says whether
   the node is complete (`OddTurn`, `EvenTurn`). It follows that only entries of the old frontier are ever read (`ClimbIs`),
   so what is behind it does not matter, and `BCRUpdate` stays within its arrays.
4. *The other two builders.* A pass of `UpdateByLeaves` overwrites in place only what it has read (`PassIs`);
   `UpdateByTree` recomputes the last node of each layer, and the others are complete (`NextLayer`).
5. *Proofs.* The node above a position is the hash of its node and of what `Sibling` returns (`NodeAbove`). Upwards this gives
   that a gateway's proof is accepted, downwards, as `Hash` is injective, that whatever climbs to the root started at the leaf
   of its position (`ProofsAreSound`). That lemma is about proofs with as many entries as the tree has layers
   above the leaves, which those of a gateway for this tree are (`GetProofIs`).

`IInv` of `BCR` was checked by TLC with the constants of `bcr` before it was proved. The run itself names its two consequences.

**The argument for the storage proofs.** The state machine adds nothing here: what is proved is about the operators, for any trie.

1. *Tries.* A branch node is defined from the nodes below it, by recursion over sets of keys. Sets of keys below a
   branch part later (`PartingIs`, `UnderParts`), so the recursion is one over at most 64 nibbles and has a
   solution (`BranchesAre`), with the same form of argument as the loops above. On the way to a key the
   nodes stand for the sets `Sharing(f, key, n)`; each is a leaf, an extension or a branch (`LeafIs`, `ExtensionIs`, `BranchIs`).
2. *Hashes.* What `ChildHash` makes of a child's place in its parent, and what the contract computes of the next
   node, agree only for that child, embedded or not (`HashLeads`). The root leads to the root node only (`RootLeads`).
3. *A turn.* For each kind of node, `VisitLeaf`, `VisitExtension` and `VisitBranchNode` say what one turn of the loop does with the key:
   it ends with the trie's value or with none, or goes on to the next node of the way (`WayTurn`). This is where
   nibbles are packed and unpacked (`CompactDecodes`) and prefixes compared (`SharedPrefixIs`).
4. *Soundness.* `Reached` is the loop's invariant for *any* list of nodes: as long as it goes on, the offset and the
   hash are those of a node on the way of the key, as any other node would have been refused. Hence `AnyProofIsSound`.
5. *Completeness.* A node's own proof consists of the nodes on the way (`ProveIs`), which ends after at most 65
   (`WayEnds`), so the walk follows it (`Follows`) to where the way ends. With an embedded node the proof is
   shorter than the way; the theorem excludes that, and soundness does not need to.
6. *Two proofs.* The account proof gives the account with the root of its storage (`AccountIsSound`), under which
   the second proof gives the slot (`SlotIsSound`): `VerifiedIsStored`. Different addresses and positions have different
   keys, so the tries are the state itself (`StateTrieIs`, `StorageTrieIs`).

**The argument for RLP.** The reader has only lengths to go by, so the lemmas are about where things stand
(`Stands(mem, ptr, s)`: the bytes of `s` are at `ptr`), never about a whole memory.

1. *Digits.* `BigEndian` has the digits of a length, the first one not zero (`BigEndianIs`), and an `mload` of them gives the length
   back (`DigitsAreExact`, `WordIs`). A length below 2^24 has three at most (`FewDigits`), so the first byte tells
   the four forms apart.
2. *Headers.* With the header in place, the reader finds the payload and its length in each form (`HeadIs`), and a
   single byte below 128 is a string without header (`EncodedStringIs`, `StringIsRead`).
3. *Elements.* The encodings of the elements stand one behind the other (`Parts`, `PartsStand`), each of
   at least one byte (`Filled`), so the walk of the reader stops at each of them and at the end of the list, and
   nowhere else (`PlacesAre`, `ToListIs`).
4. *Depth.* If the elements are read back wherever they stand, so is the list (`ListIsRead`). With
   `StringsAreGood` this is an induction over the depth, made with `SetOfNaturals`: `EncodingsAreRead`. The invariant
   `RlpInv` then only says that what was built is a list of that depth whose encoding has at most `MaxBytes` bytes.

The equations of the recursive functions of both modules come from the lemma `RunExists` of the trees.

## 6. Only model-checked

- Liveness (`AllDelivered`, `AllDealtWith`, `MainEnds`, `ScriptsEnd`): outside the prover's reach, as is `ENABLED`. Every
  other property that a passing run checks is a theorem.
- The violations: each is one behaviour, which TLC finds.

## 7. Plan

Done: the three protocols, threads, trees, the proof library, the schedulers with their
statistics, the configs, servers and deployment; the proofs of all their safety properties. What could come next:

1. Embedded nodes: what the contract would have to do with a proof whose last node contains further ones.
2. Delivery under weaker assumptions: gateways that start late, as in `tor_late_gateways`, but walk from the
   first block.
3. Forks of a chain, once the code asks for confirmations.

## 8. Not modelled

- **Signatures and hashes.** keccak is injective in the models. In the protocols, a storage proof is
  accepted when the slot held the value in the state of the root; `StorageProofs` checks that the library does
  that.
- **Forks and confirmations.** The networks have one signer; the code asks for no
  confirmations.
- **Pruned state.** `eth_getProof` for an old block may fail on a real node.
- **Reuse of process ids.** `FreshPids` never gives a new process an id that a pid file still holds. The system may, after
  the earlier process has ended; `killlast` would then kill a process that is not of its tag. `PidFilesNameTheProcesses`,
  and what is proved from it, assumes that this does not happen.
- **Waiting for a stop.** No script asks whether a signalled geth has ended, and no geth is killed with a stronger signal.
- **Earlier evaluations of another size.** What an earlier evaluation has left is taken to have come from one with the
  same chains and as many messages per pair; with others, `statistical` would also meet keys that it has no time for.
- **Restart of a gateway.** The repository has no recovery: a gateway started again is given new
  accounts and walks from the last block, which is `Start` of another instance.
- **Statistics that nothing calls** (`statistical` of ToR and NoR), gas numbers, figures, logging, file transfer,
  the evaluation of the tree builders in `bcr/`: pure input and output, one transaction after the other.
- **How long a collector takes.** Ten seconds pass before the collectors are killed; the model takes that to be enough for one
  that runs to have written its file once.
- **bu and hit chains** beyond their prestart, where they end; gateway and delegate accounts and
  the governance code of the eth-pow and eth-hit tools, which nothing calls.
- **Several processes of the config server** (`start_num`, default 1), and operators who run two
  scripts at a time.
- **redislock, BuSdk**: no user in the repository.
