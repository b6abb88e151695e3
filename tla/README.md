# DigiDollar SDK in TLA+

A model of `packages/` of the DigiDollar SDK: the pipelines that mint, transfer
and redeem DigiDollars (DD) by building, signing and broadcasting Taproot
transactions against a DigiByte node, the JSON-RPC transport they speak through, the
encodings of what they write, the signer's keys, the arithmetic of coins, fees and
prices, and the demo application with its rate-limited server. TLC checks small
instances; TLAPS proves the theorems listed below for every instance.

Paths are relative to `src/packages/`.

## The system

| Component | Source | State | Operations | Interaction |
|---|---|---|---|---|
| Facade | `core/src/digidollar.ts` | none beyond its parts | `mint`, `transfer`, `redeem`, read-only queries | starts a pipeline per call; calls run concurrently |
| Pipelines | `core/src/pipeline/{mint,transfer,redeem}.ts` | local variables of an async function, living across its awaits | one run per call | read through UTXO manager, tracker, oracle wrapper; build; sign; broadcast |
| Builders | `tx-builder/src/builders`, `coin-select.ts`, `fee.ts`, `collateral.ts` | none | `MintBuilder`, `TransferBuilder`, `RedeemBuilder`, `selectCoins` | called by the pipelines |
| Taproot | `tx-builder/src/taproot`, `core/src/pipeline/witness.ts` | none | token and collateral scripts, witnesses | builders make scripts, pipelines the witnesses that open them |
| Parser | `tx-parser/src` | none | `classifyTransaction`, `parseOpReturn` | reads back what the builders wrote |
| Encodings | `tx-parser/src/{script-num,script-iter,op-return}.ts`, `tx-builder/src/{op-return-encode.ts,tx/}`, `core/src/pipeline/sighash.ts` | none | numbers, pushes, metadata, transactions, the message a signature signs | written by builders and pipelines, read by the parser and the node |
| UTXO manager | `core/src/utxo/manager.ts` | none (no cache, no reservation) | `getClassifiedUTXOs` | listunspent, then a batch of getrawtransaction |
| Position tracker | `core/src/position/tracker.ts` | none | `getPositions`, `getPosition` | positions and height in parallel |
| Oracle wrapper | `core/src/oracle/wrapper.ts` | none | `requireFreshPrice`, `ddToSats`, `satsToDDCents` | getoracleprice |
| Signer | `core/src/signer` | next address and change indices, in memory only | `getPublicKey`, `sign`, `getScriptPubKey`, `getAddress`, `deriveNextAddress`, `deriveNextChangePath` | pluggable; `BIP86Signer` is the bundled one; several processes may hold the same mnemonic |
| Transport | `rpc-client/src/transport.ts` | request id, cookie header | `call`, `batch`, `refreshAuth` | HTTP with an abort timer, no retry |
| RPC methods | `rpc-client/src/methods`, `client.ts` | none | 35 methods, one RPC each | named parameters become positional ones; through the transport |
| Demo server | `demo-app/src` | rate-limit buckets per address | REST routes behind two limiters | forwards to the node |
| Demo client | `demo-app/client/src` | React state of the mounted page (Dashboard, Mint, Transfer, Positions, Docs) and its hooks | polling, estimates, mutations | REST; answers in any order |

What makes it hard:

* The calls of an application interleave at every await. They share no state in
  the SDK and only meet at the node, which takes the first transaction that
  spends a coin.
* What a pipeline reads (price, height, coins, position) is read at different
  moments and used later.
* A broadcast may time out at the client and still reach the node.
* The amounts of DD live in an OP_RETURN and belong to token outputs by
  position; nothing but the builders and the classifier keeps the two in line.
* A redeem rebuilds the script tree of the mint from what the node says about
  the position.
* A request may be executed although its answer is lost, a batch in part; the
  cookie that authenticates it is replaced when the node restarts.
* A page of the demo is edited, left and entered again while its requests are on
  their way; a poll may overtake, or be overtaken by, what the user does.
* Writer and reader of an encoding live in different packages, or in different
  programs, and must agree on every threshold.
* A parameter that is left out moves the later ones, since the node reads them by
  position.
* A signer forgets its indices when its process ends, and other processes walk
  over the same keys; it finds the path of a key by search, up to a gap.
* The fee is fixed before the transaction exists, from estimated sizes; amounts
  pass through integer divisions and one binary fraction.

What makes each part correct:

* **Pipelines**: an error that is thrown before the answer to the broadcast is
  lost means nothing happened; a result describes the ledger, and results of one
  transaction agree; every call ends.
* **Builders and parser together**: DD and DGB are conserved, seen through the
  parser's own eyes; change above dust comes back, dust is reported as fee.
* **Taproot and builders together**: what is sent can be taken by the node
  unless somebody else spent the coins first, or it has an input whose signature
  is one of the two kinds the code gets wrong; a redeem is not premature.
* **UTXO manager**: locked collateral is never used as a coin.
* **Transport**: an answer reaches the request it answers; one request is
  executed at most once; what is refused is not executed; every call settles.
* **RPC methods**: each parameter arrives at its own position, and none that was
  not given.
* **Encodings**: what is written is read back; the sighash is the node's and
  commits to the whole spend.
* **Signer**: a process signs with the key of every address it gave out, and any
  process with those within the gap; addresses recur in the same order after a
  restart and never before.
* **Coins, fees, prices**: as few coins as can do; the fee covers the real size
  at the rate asked for; conversions lose at most a cent and never gain.
* **Rate limiter**: a bound on what passes in any period as long as a window.
* **Hooks and pages**: what is shown as pending is pending, once, and ends; the
  positions and the balance catch up with the node.

## The modules

| Module | Models |
|---|---|
| `Taproot` | keys, scripts, addresses, witnesses; the consensus rules that verify them (external) |
| `TxParser` | `classifyTransaction`: the class and the DD amount of an output |
| `TxBuilder` | fee, collateral formula, coin selection, the three builders |
| `Pipelines` | the three pipelines as processes, the transport's errors and timeouts, the node (external) |
| `PipelineProperties` | type invariant, safety and liveness of `Pipelines`; what results say of the ledger and of each other |
| `PositionBook` | the abstract specification: a book of positions and a supply |
| `PipelinesImplement` | the refinement mapping from the ledger to the book |
| `PipelineClaims` | statements of the repository's comments that the code does not keep |
| `Transport` | `Transport.call` and `batch`, the cookie and its refresh; the node's HTTP server (external) |
| `RemoteCall` | the abstract specification: remote calls executed at most once |
| `TransportProperties` | type invariant, safety, liveness and the refinement mapping of `Transport` |
| `Bytes` | numbers as little-endian bytes, for any width of a byte |
| `Script` | CScriptNum, pushes, `iterScript`, the OP_RETURN encoders and `parseOpReturn` |
| `WireFormat` | CompactSize, transaction serialization, prevouts and the sighash message; the node's message (external) |
| `CodecProperties` | what the encodings promise, with a reference reader of transactions |
| `Sample` | one sample of the arguments of a function without state |
| `OracleWrapper` | conversions between cents and sats, and through a double: of a decimal string to cents and of DGB to sats |
| `RpcMethods` | the RPC, endpoint and positional arguments of each method of `DigiDollarRPC` |
| `RpcProperties` | what becomes of the parameters |
| `AmountProperties` | what selection, sizes, fees and conversions promise, with the size a node charges for (external) |
| `Signer` | `BIP86Signer` held by several processes: derivation, restart, the search for a key |
| `SignerProperties` | type invariant and safety of `Signer` |
| `RateLimiter` | `createLimiter` for one address, and how often a request of each route passes a limiter |
| `Demo` | the five pages with their hooks, the server's eight routes behind `RateLimiter`, the wallet's positions and tokens at the node (external) |
| `DemoProperties` | type invariant, safety and liveness of `Demo` |
| `MCPipelines`, `MCTransport`, `MCCodec`, `MCSigner`, `MCDemo` | the instances TLC checks |
| `PipelinesProofs` | proofs: types, clean failures, the locks of redeems, collateral, what is sent fits the coins it spends |
| `BuilderProofs` | lemmas: laws of sums over finite sets, what each builder pays and records, what the parser reads back |
| `AccountProofs` | proofs: DD and sats are conserved, nothing but two kinds of signature is wrong with what is sent, results hold and agree, the refinement of `PositionBook` |
| `TransportProofs` | proofs: the transport's invariants and its refinement |
| `CodecProofs` | proofs: numbers, pushes, metadata and transactions are read back, the key-path sighash is the node's, a message binds its spend, arguments of RPC methods arrive |
| `AmountProofs` | proofs: estimates cover sizes, fees are fair, selection is best, conversions agree, doubles keep amounts |
| `SignerProofs` | proofs: the invariants of `Signer` |
| `DemoProofs` | proofs: the limiter's bound and what the pages show as pending |

`Pipelines` uses `TxBuilder`, `TxParser` and `Taproot`. It does not use
`Transport` or `WireFormat`: it takes from the first that a request that is not
answered may or may not have been executed, and from the second that a
transaction stands for its bytes. Those are the promises that `RemoteCall`,
`NodeReadsTx` and `MetadataSurvives` state and the other modules keep. One they
do not keep: the sighash of a script path (`claim_sighash`), whose message
differs from BIP-341's in one field. A signature in `Taproot` carries that
field, `spendType`, and `ScriptSpendTypes` says which values the node of an
instance takes for a script path. With `{2}`, BIP-341, no redeem is ever
accepted. With `{1, 2}` the node takes the SDK's redeems too; since it may refuse
any transaction, the behaviours with a BIP-341 node are among those, and what is
checked of all of them holds of it as well. The runs with redeems use `{1, 2}`:
they ask whether everything else about a redeem would be right.

### State and actions

`pc[c]` is where call `c` waits. Each action is the code between two awaits:

| Stage | Mint | Transfer | Redeem |
|---|---|---|---|
| `idle` | `MintReadsPrice`, `MintRefusesPrice` | `TransferSends`, `TransferCannotBuild` | `RedeemReadsPosition` / `RedeemReadsTrackerHeight` (either answer first) |
| `height` | `MintReadsHeight` | | `RedeemReadsHeight` |
| `trackerHeight`, `trackerPosition` | | | `RedeemGetsTrackerHeight`, `RedeemGetsPosition` |
| `utxos` | `MintSends`, `MintCannotBuild` | | `RedeemSends`, `RedeemCannotBuild` |
| `send` | `SendReturns`, `SendTimesOut` | same | same |

A read is an action at the moment the node answers it, together with the code
that runs from there to the next request. `getClassifiedUTXOs` makes two
requests; the second asks for transactions by id, which never change, so one
action stands for both. A call ends `done`, `failed` (an error that is not a
transport error while sending) or `unknown` (a transport error while sending).

`wire[c]` is the broadcast as the node sees it: `none`, `toNode`, `accepted`,
`rejected`. It advances independently of `pc`, so the node may act on a request
after the client has given up. `ledger` maps a txid to its transaction; a
transaction's id is the first call that got the same content accepted. The
node may refuse anything, and accepts only what `Acceptable` allows.

A builder is the *set* of results it may return: among equal coins the order of
`listunspent` decides, which the SDK does not control. The empty set is a thrown
error. `MintReport`, `TransferReport` and `RedeemReport` are the objects a call that
ends `done` returns; `ResultsHold` compares them with the ledger, and
`OneTransactionOneResult` with each other: the node answers a transaction that it
knows like a new one (`NodeKnows`), so two calls may both succeed with one
transaction, and then neither may tell another story of it. (An application that adds
up what its calls return counts that transaction twice; the txid tells.)

In `Transport`, `pc[c]` goes from `idle` over `waiting` (for the response) and
`reading` (its body) to `ended`. `Sends` takes the next ids and the current
cookie; `FetchFails`, `ResponseArrives`, `BodyArrives` and `BodyFails` are the
ways in which the awaits of `call` and `batch` resume; `RefreshAuth` is the
application's. The node executes the methods of a request one by one
(`NodeExecutes`) and then answers in any order, possibly leaving some out
(`NodeAnswers`), refuses a wrong cookie (`NodeRefuses`) or everything while busy
(`NodeIsBusy`), stops and starts with a new cookie. A client that has given up
does not stop the node from executing. Basic authentication is a cookie that
never changes; 403 is as 401, 503 stands for every other bad status, and 500
with an error in its body is as 200 with one.

In `Demo`, `screen` is the page that is mounted. `form` is what is in the form
of Mint or Transfer, with the state of `useEstimate`; `view` is what a page
polls, the state of `useStatus`, `useBalance` or `usePositions`, with the
Dashboard's address; `mutation` is the state of `useMutation`. React makes them
anew when a page is mounted (`Opens`), and answers to a page that is gone change
nothing (`live` is false), except that a redeem still refetches. `requests` are
on their way: `ServerServes`, `ServerRefuses` (429), `RpcFails` and `FetchFails`
answer one, and `EstimateArrives`, `PositionsArrive`, `BalanceArrives`,
`StatusArrives`, `AddressArrives`, `MutationArrives` (a mint or a transfer) and
`RedeemArrives` are the code after the await. `book` and `held` are the wallet at
the node: its positions and one token for each mint, which a transfer or a
redeem takes away. A poll and a refetch are requests of the same kind. `Tick` is
one interval of `usePositions` (30 s) and the clock of the limiters, whose window
of 60 s is two ticks; a debounce of half a second ends within a tick. The status
and the balance are polled every 15 s in the code and once a tick here: to the
limiter, the other poll is one of `OtherTab`, and to the page a poll whose answer
changes nothing. A limiter is modelled for one address; a bucket with no time
left is no bucket, so its cleanup shows nothing. `passed` is a history variable.
Docs sends nothing. Toasts, texts of errors and React's double mount in
development are left out, as is validation that the pages never fail.

In `Signer`, several `Processes` made a signer from one mnemonic. A key is named
by its path. `DeriveNextAddress` and `DeriveNextChangePath` give out the next of
a chain, `GetPublicKey` any path the application asks for, and `Restart` is
`fromMnemonic` in a new process: the indices are zero again. `public` is a
history variable, the paths whose keys anybody was ever told; it survives
restarts. `Sign` with its search (`FindPathForPubKey`) changes nothing.

The encodings, selection, sizes, fees and conversions have no state: `sample` is
one set of arguments, chosen by `Init` of `Sample` and kept. A run over samples
is a table of cases, each of them checked against a definition of its own: a
reader of transactions, all subsets of the coins, the node's size and message.

What is abstracted in `Pipelines`: hashes and curve points (a key is its owner and its number
of tweaks, a signature is the key that made it and the `spend_type` of its message),
serialization and the rest of the sighash (a transaction stands for its bytes), the text of errors, health status and
other display data. Fees, dust, sizes and the safety margin are the code's own
numbers, down to the rounding of the double 1.35 in `Math.ceil(vsize * 1.35)`.

## What is checked

The `.cfg` of a run is named after its module and the run: `Pipelines_x.cfg`
for `MCPipelines`, `Transport_x.cfg` for `MCTransport`, `Codec_x.cfg` for
`MCCodec`, `Signer_signer.cfg` for `MCSigner`, `Demo_demo.cfg` for `MCDemo`.

| Run | Instance | Question |
|---|---|---|
| `lifecycle` | 1 mint, 1 transfer, 1 redeem of an old position or of the new one; 189,812 states | `TypeOK`; failures have no effect; redeems wait for their lock; collateral leaves by its redeem only; nothing but two kinds of signature keeps what is sent from being accepted; `Pipelines` implements `PositionBook` |
| `payments` | 1 mint of either tier with a good, a zero and a stale price, 2 transfers of one and two recipients at two rates, alike up to their names; 541,170 states | DD and sats conserved; results hold; transfers with one transaction report the same |
| `redeems` | 2 redeems, whole (asked for or by default) and partial, of two positions; 165,216 states | witnesses and locks fit the coins even when overtaken; DD conserved; results hold; redeems with one transaction report the same; every call ends (`FairSpec`) |
| `calls` | a single call and a batch of two, the node started twice | `TypeOK`; results match their methods; `Transport` implements `RemoteCall`; every call settles (`FairSpec`) |
| `codec` | 12,911 samples | numbers, pushes, metadata and transactions survive; the key-path message is the node's; a message binds its spend; selection is best; estimates cover sizes and fees are fair; conversions agree; cents and sats survive the double; arguments arrive |
| `signer` | two processes, four addresses and four change paths each, a gap of two, keys of other paths; 12,760 states | `TypeOK`; own keys sign; early keys sign in every process; addresses recur |
| `demo` | five pages; two positions, one of them minted by the user; one amount to enter; two requests at a time; three acts of the user, one failure, another tab; 730,653 states | `TypeOK`; the limiter's bound; buttons and spinners; waits end; positions and balance catch up (`FairSpec`) |
| `claim_*` | | a comment of the repository that the code violates, see below |

The properties are stated and commented in `PipelineProperties`,
`PipelinesImplement`, `PipelineClaims`, `TransportProperties`,
`CodecProperties`, `AmountProperties`, `RpcProperties`, `SignerProperties`,
`DemoProperties` and, for the bound, `RateLimiter`.

### Bounds

Two or three concurrent calls are the smallest number at which coins are
contended, a redeem races another, and a transfer spends tokens a redeem needs;
the calls are independent but for the ledger, so a third of the same kind adds
contention of the same kind. In `payments` the two transfers are exchanged for each
other by symmetry: the same requests are open to both, and no operator chooses
between calls (`TxidOf` takes the only one there is). Heights go to 2 or 3 with locks of 1 and 2 blocks:
enough for a lock that has expired, expires between two reads, and has not
expired. Coins are chosen so that a mint's change is above dust, below dust and
absent, and so that tokens must be combined or leave change. `COIN` and the
oracle price are scaled down by the same factor, which leaves the collateral
formula's result as it is and its product within TLC's 32-bit integers;
`MAX_TX_INPUTS` is the code's 400. `MAX_MONEY` is the largest value that
fits and is not reached.

The transport's calls share only the counter of ids and the cookie. A call and a
batch of two give responses out of order, missing and failed ones, and a request
of the old cookie before and after a restart; two starts of the node give one
restart while a request is on its way. The proofs cover every other size.

The codec's bytes have eight values, with PUSHDATA1 at 4 and OP_RETURN at 7.
Every threshold of the code is a function of the width of a byte or one of those
opcodes, so they move to 3, 4, 5, 8, 64 and 4096; samples lie on both sides of
all but the last. Numbers cover three bytes and the limit of eight. Hashes have
three bytes.

Samples of amounts are scaled likewise: `COIN` is 10, so that products stay
within 32 bits, and the limit of inputs is 7, so that wallets on both sides of it
are small. Wallets have all combinations of a few values with equal ones among
them, and targets on both sides of what they and their largest coins hold. Coins
that pay for a transaction leave change above dust, dust, and nothing at the
highest rate. A double
has 12 bits where JavaScript has 53; decimals go up to a quarter of what those
count, sats up to a half: where
cents are still told apart, rounding happens as often in proportion. Sizes are
sampled around every count at which an encoding grows by a byte; the proof covers
the rest. Calls of RPC methods are all of them: every method with every subset
of its optional parameters.

The signer's gap is 2 where the code has 10 and a chain ends at 4: addresses
within the gap, at its edge and beyond are derived, by one process and not by the
other, before and after a restart.

The demo's limiters let 6 and 3 hits through where the code has 60 and 5: an
estimate or a write costs five hits of the read limiter and a redeem three of
the write limiter (a transfer two), so that each of them is refused in some
behaviours and served in others. Three acts are enough to edit, submit and leave,
or to redeem, leave and come back. Two requests at a time are enough for a poll and a redeem, or
an estimate and a mint, to overtake each other. Actions that need a new request
wait while both are taken, which removes behaviours with three at a time; the
proofs cover any number.

`SignerTweaks = TRUE` stands for a pluggable `Signer` that conforms to BIP-86
(key-path signatures with the tweaked key). The bundled `BIP86Signer` does not;
that is run `claim_signed` with `SignerTweaks = FALSE`. Had the other runs used
it, no transaction would ever be accepted and they would show nothing. For the
same reason `ScriptSpendTypes` is `{1, 2}` where redeems have to be accepted
(`lifecycle`, `redeems`, `claim_closed`) and BIP-341's `{2}` elsewhere; no signer
can make up for that one, it is only handed the hash. The proofs hold for any
value of it.

`Derived` holds owners of keys beyond the default path, `Second` in every run. The node
lists what is paid to them like any coin of the wallet. In `lifecycle` and
`redeems` such a payment, `d1`, arrives at some moment: calls that read it spend
it, sign it with the default key and are refused. `OnlySignaturesFail` states which
inputs these are (`Missigned`, with the collateral under a BIP-341 node), and that
nothing else but a call that came first keeps a transaction from being accepted.
`SentFits` says that every other signature and script fits.

Deadlock is not checked: calls end, heights are bounded, and then nothing is
left to do.

### Fairness

`FairSpec` adds weak fairness of `Continues(c)` for each call: a call that waits
is resumed, by the answer or by `AbortSignal.timeout` in the transport
(`rpc-client/src/transport.ts:101`), and JavaScript runs the continuation.
`Transport` has the same
fairness one level down, weak fairness of `Resumes(c)`: the timer covers the
request and the reading of its body (`transport.ts:101`, `:165`). Nothing is
assumed of the node: it may never answer, never mine and never move
the oracle; nor must an application start a call.

`Demo`'s `FairSpec` says that the timers of the page fire, that the server
answers each request (`ServerServes` or `ServerRefuses`: every route ends in an
answer or in `next(err)`) and that the answer's continuation runs. A request
may instead fail, `MaxFailures` times: neither `fetch` in the page nor `rpc` in
the server has a timeout (`demo-app/client/src/api/client.ts:4`,
`demo-app/src/rpc.ts:21`), so that a node that never answers would keep a button
disabled; that it does answer is an assumption. `PagesCatchUp` is about what
happens once the user, whose actions are bounded, has stopped.

## What the violations show

| Run | The repository says | The code does |
|---|---|---|
| `claim_locked` | "DD collateral UTXOs — locked DGB backing positions" (`core/src/utxo/types.ts:9`) | every P2TR output with a value in a DD transaction is collateral, DGB change and returned collateral included; the pipelines never spend it again |
| `claim_closed` | "Whether the full position was closed" (`core/src/pipeline/types.ts:79`) | a partial redeem takes the whole collateral and reports `false` |
| `claim_signed` | "BIP-86 Taproot HD signer" (`core/src/signer/bip86-signer.ts:2`) | key-path inputs are signed with the untweaked key |
| `claim_recipient` | "Recipient's bech32m address" (`core/src/pipeline/types.ts:29`) | the address's program, an output key already, is tweaked again |
| `claim_sighash` | "BIP-341 Taproot sighash computation." (`core/src/pipeline/sighash.ts:2`) | a script path is hashed with spend_type 1 (line 56), BIP-341 has 2 * ext_flag = 2 |

More deviations were met that have no run, since one line of the code shows them:

* Transfers and redeems spend every standard coin, past the "Maximum inputs per
  transaction" (`tx-builder/src/constants.ts:63`) that only `selectCoins` keeps.
* "Calculate actual fee with correct input count" (`tx-builder/src/builders/mint.ts:90`):
  coins are chosen for the fee of three inputs (line 45). A mint of more than six may
  pay less than the rate asked for, since the shortfall is taken from the change
  and, below dust, from the fee itself. `FeesAreFair` states exactly this
  exception, and that up to six inputs the margin of 35 % makes up for it.
* `response.json()` is outside the `try` of `call` and `batch`
  (`rpc-client/src/transport.ts:129`, `:181`): a timeout while the body is read,
  or a body that is not JSON (a batch does not look at `response.ok`), reaches
  the caller as a raw `DOMException`, `TypeError` or `SyntaxError`, not as an
  error of `errors.ts`; `Transport` has these outcomes as `RawErrors`.
* `deriveNextAddress` encodes the untweaked key
  (`core/src/signer/bip86-signer.ts:68`) where `getAddress` encodes the tweaked
  one. In `Signer` a key-path signature fits the first; with a signer that tweaks
  it would fit the second only.
* "next unused" indices (`bip86-signer.ts:64`, `:72`) are neither persisted nor
  checked against the chain: a restarted signer gives out the old addresses
  first. `AddressesRecur` states what it does instead.
* A key that the search does not find is signed for with the default one, without
  an error, although the signature is documented to be that of the "32-byte x-only
  public key expected to produce the signature" (`core/src/signer/interface.ts:7`).
  `OwnKeysSign` and `EarlyKeysSign` say for which keys this does not happen. The
  pipelines ask for the default key for every input, whatever address it paid
  (`core/src/pipeline/redeem.ts:142`). Since transfers and redeems spend every
  standard coin, one confirmed payment to another address of the wallet is enough
  for the node to refuse all of them (`Missigned`).
* `getReceiveAddress` is documented to return a new address and returns the
  default one (`core/src/digidollar.ts:101`).
* `defaultFeeRate` of the configuration is not used by the facade, and the network
  that `decodeBech32m` tells is not looked at (`core/src/pipeline/transfer.ts:56`):
  an address of another network is paid.
* `dgbToSats` rounds a product of doubles (`tx-parser/src/hex.ts:30`). `AmountsSurvive`
  says that this is exact up to a quarter of 2^53 sats, 22.5 million DGB in one
  coin; past 90 million a double does not tell one sat from the next, although
  the type that follows, `bigint`, would.
* The Dashboard asks for its address once; if that fails it is not asked for again
  (`demo-app/client/src/pages/Dashboard.tsx:16`).

Two consequences of `RateLimiter` are worth knowing. The read limiter stands
before each of five routers (`demo-app/src/routes/index.ts:15`), so 60 per
minute are twelve estimates or writes, and the write limiter's 5 per minute are
one redeem. And answers to two estimates may arrive in the wrong order
(`demo-app/client/src/hooks/useEstimate.ts:22`): the page then shows an estimate
of an amount that is no longer in the form.

## What is proved

For any sets of calls, requests, other transactions, tiers and heights:

* `TypeCorrect`: `Spec => []TypeOK` (`PipelinesProofs`). `TypeOK` is inductive
  as it stands because it ties the stage of a call to its transaction: nothing
  is sent before `send`, and what the ledger holds under a call's name was
  answered `accepted`.
* `FailuresAreClean`: `Spec => []FailureHasNoEffect`, inductive relative to
  `TypeOK`: an error before `send` finds nothing sent, and in `send` only the
  node's refusal is a failure.
* `RedeemsWait`: `Spec => []RedeemRespectsLock` (`PipelinesProofs`). The
  property speaks of the moment of sending; to carry it, `LockInv` follows the
  lock height from the height a mint read into the script and the metadata of
  its transaction (`MintTxOpens`), onto the ledger (`MintsOpenPositions`), into
  the position a redeem reads, and into the locktime it sends (`RedeemInv`).
  `LedgerGrows` and `Undisturbed` are the frame: transactions never change and
  no call touches what another one knows.
* `CollateralStays`: `Spec => []CollateralLeavesByRedeemOnly` (`PipelinesProofs`).
  `UTXOManager` tells collateral from coins by what the parser makes of the
  transaction, so the invariant follows outputs: whatever is on the ledger or on
  its way is `Recognized`, that is, no time lock is an output the parser would
  class as a coin or a token (`MintTxRecognized` and its likes: each builder makes
  only such transactions). It needs that no price makes a mint's collateral
  nothing (`PricesAssumption`), since the classifier takes an output of value zero
  for a token.
* `WhatIsSentFits`: `SignerTweaks => (Spec => []SentFits)` (`PipelinesProofs`). It
  rests on the two before. `MadeInv` says how the inputs of a transaction are made,
  whatever the signer does: a coin without a time lock has the default key's
  witness, and the one input that has a lock is the collateral, whose script path
  fits because the locktime is its lock. `MadeKept` carries it on: coins keep their
  scripts and heights grow. `DefaultKeyOpens` is where the tweak comes in: such a
  witness opens the coins of the default address and no others.
* `SatsKept` and `TokensKept`: `Spec => []SatsConserved`, `Spec => []DDConserved`
  (`AccountProofs`). A sum over the unspent outputs of the ledger does not stay
  what it is unless each transaction that is accepted balances, and what makes
  it balance was read long before, so the inductive invariant `AccountInv` has,
  besides the two equations, `Books`: the two invariants above, a ledger whose
  transactions are sound (`LedgerSound`) and for each call what its transaction
  spends and pays in terms of the ledger (`Balanced`), what it will report
  (`Reported`), what it reported (`Answered`) and what a redeem asks for
  (`RedeemAsks`). `MintBalances`, `TransferBalances` and `RedeemBalances` get
  `Balanced` from the builders (`MintPays`, `TransferPays`, `RedeemPays`) and from
  what the parser makes of their outputs (`MintRecords`, `TransferRecords`,
  `RedeemRecords`, all in `BuilderProofs`): the DD of each output is what the
  builder meant it to be. `AcceptAddsUp` and `PaymentAddsUp` are the two steps in
  which the ledger grows.
* `NothingElseFails`: `SignerTweaks => (Spec => []OnlySignaturesFail)`, from `MadeInv`,
  `Balanced` and `InputsOpenUnlessMissigned`: consensus takes an input exactly when
  it is not `Missigned`, whatever `Derived` and `ScriptSpendTypes` are; and `ResultsAreTrue`: `Spec => []ResultsHold`, from `Reported` and
  `Answered` (`AccountProofs`).
* `TwinsReportAlike`: `Spec => []OneTransactionOneResult` (`AccountProofs`). What a call
  reports comes from its request, from what it read and from what it built; the
  transaction and the ledger must be shown to determine it. The fee is what the
  inputs hold and the outputs do not (`TwinsPayOneFee`), the amount and the lock of a
  mint are in its metadata (`TwinMintsAgree`), the position of a redeem is the one
  mint it spends, and what it burns is what its tokens hold and the DD output does not
  (`TwinRedeemsAgree`), and a transfer's recipients are its token outputs in their order
  (`TokensAreTold`): addresses may differ if they stand for one program. `VersionTells`
  says that calls of different kinds have no transaction in common. Run `payments`
  shows it for transfers and `redeems` for redeems; two mints run in no instance, so
  that part rests on the proof.
* `BookImplemented`: `Spec => ImplementsBook` under two hypotheses
  (`AccountProofs`). `WholeRedeems`: redeems burn what the position minted; a
  partial redeem takes the whole collateral and leaves DD that nothing backs,
  which the book does not do (`claim_closed`). `BackedOthers`: what the wallet
  receives brings DD only with a position that backs them. Run `lifecycle` satisfies
  both. `AcceptRefines` is the step: a mint that is accepted opens, a redeem
  closes, a transfer stutters. `BookInv` adds that a redeem still knows what its
  position's mint says (`Tells`).

Sums over finite sets, in which `DDConserved` and its likes are stated, are
recursive in the community modules. `BuilderProofs` proves their laws from the
definition: `SumsExist` shows that a function as the recursion describes it
exists, `SumsUnique` that there is one, by a smallest subset that is an exception
(`SmallestSubset`, from the well-founded order of finite sets, which takes sets
and no operator); `SumDefinition`, `SumAdd`, `SumUnion`, `SumEqual`, `SumOfImage`
and the others follow.

* `TransportProofs`: `TypeCorrect`, `ResultsCorrect` (`ResultsMatch`) and
  `Refines` (`Transport` implements `RemoteCall`), for any calls, any size of
  batches and any number of restarts. The inductive invariant `IInv` has a
  conjunct `CallInv` for each call: ids tell the methods of all requests apart;
  a reply is about all methods of its request or about none; and how often a
  method was executed follows where its request is. `ResultsMatch` alone is not
  inductive, since it says nothing of replies that are still on their way.
* `CodecProofs`: the encodings, for a byte of any even number of values above four
  and for data of any length.
  * `KeyPath` (`Spec => []KeyPathAgrees`). `PrevoutIsCoin`: the first match in the
    wallet's list is the coin the node holds; then the messages agree field by
    field.
  * `NumbersKept` (`NumbersSurvive`): `NumberSurvives` follows the sign bit in both
    directions; `NumberIsShortest` bounds the digits by what they came from.
  * `PushesRead` (`PushesAreRead`) and `MetadataKept` (`MetadataSurvives`).
    `PushIsRead` is the lemma for one push of any length, through the four headers
    (`HeaderForms`); `PushesAre` repeats it along a script, and `MintIsRead`,
    `TransferIsRead` and `RedeemIsRead` find the parts again among the operations.
  * `TransactionsRead` (`NodeReadsTx`). A reader is right (`Reads`) if it takes from
    the front what was written and leaves the rest; `TimesReads` and `ManyReads`
    carry that from an element to a list, so it goes up from numbers over scripts,
    inputs, outputs and witnesses to the transaction. `NoMarker` is the point
    where the formats could be mistaken: a count of inputs is not zero, so
    a transaction without witnesses never begins like one that has them.
  * `MessagesBind` (`MessageBinds`). `TellsApart`: elements that can be read one by one
    cannot be confused side by side, which `BareScript`, the mutant without a length
    before the script, breaks. Coins, sequences and outputs then follow from the
    fields of the message.

  The models' encodings are recursive functions, and induction with an operator
  is beyond the provers. `RecursionExists` proves from the definition of a function
  that one exists that satisfies its own equation (`DigitsExist`, `PowersExist`,
  `ValuesExist`, `LEsExist`, `OpsExist`, `FlattenExists`), and `NumbersInduction`,
  `SizeInduction` and `SequenceInduction` say for a *set* of numbers or sequences
  what induction says for a predicate; both rest on the least of a set of numbers
  (`LeastNumber`), which comes from the library's well-founded order of finite sets.

  `ArgumentsReach` (`Spec => []ArgumentsArrive`) is proved for any method whose
  optional parameters know all that come after them (`InOrder`): such a method sends
  one argument for each up to the last that is given and none behind it
  (`LastGivenExists`, `SinglesJoin`, `PushedAre`), so that each is at its place
  (`ArgumentsFind`). The 35 methods are then shown to be in order, group by group
  (`OracleMethodsFit` and its likes), and each to be the only one with its RPC
  (`MethodOf`).

* `AmountProofs`: `EstimatesCover` (`Spec => []EstimateCovers`) compares the
  estimate without its rounding from below with the size without its rounding
  from above, both linear in the inputs and tokens. `PricesAgree`
  (`Spec => []ConversionsAgree`) writes each quotient as a product and a
  remainder and bounds what the two divisions lose.
  `LargestFirstIsBest` (`Spec => []SelectionIsBest`) is an exchange argument: the
  largest coins are worth as much as any others of the same number
  (`LargestAreWorthMost`, `FewerAreWorthLess`), and the shortest run of them that
  reaches the target is what `selectCoins` returns (`CoinsAreSelected`).
  `FeesArePaid` (`Spec => []FeesAreFair`) computes the size of each transaction a
  builder returns from its outputs (`SizeOfMint` and its likes) and sets it
  against the estimate the fee was taken of, which is between that size and twice
  that size (`EstimateIsAbove`, `EstimateIsBelow`); the estimate of three inputs
  covers a mint of up to six. The proof corrected the property: a transfer
  reckons with a change output, and without one it may pay more than twice what
  is due for the size it has (a token and two coins at the highest rate); the
  bound now counts 43 more bytes for a transfer, and the samples have this case.
  `DoublesAreExact` (`Spec => []AmountsSurvive`) is about `Math.round(x * 100)` and
  `Math.round(x * 1e8)` of a decimal that was parsed into a double: it rounds when it
  is parsed and when it is multiplied, and each rounding errs by at most half of the
  last bit (`NearestIs`, `DoubleIs`). `ErrorsAreSmall` puts the two together and
  `FractionSurvives` compares them with the half that `Math.round` takes away. It
  holds for a significand of any number of bits, 53 among them, and up to a quarter
  of what those count for cents and sats alike.
* `SignerProofs`: `TypeCorrect`, `OwnKeys`, `EarlyKeys` and `Recurrence`, for any
  gap, paths, processes and restarts. `IInv` adds to `TypeOK` that the k-th address
  of a process is the k-th of its chain; `SearchLimit` is then beyond every index
  derived since the start and beyond the gap.
* `DemoProofs`: `Bounded` (`Spec => []SlidingBound`), for any window, maxima and
  traffic. The invariant `WindowInv` ties what passed in the last `k` ticks to the
  bucket: hits of the bucket's own time are counted in it, and what a window
  still reaches before it is at most one full bucket. `TypesKept` and `Honest`
  (`SpinnersAreHonest`), for any number of requests, edits, failures and pages: `PageInv`
  adds that a request that matters belongs to the page that is mounted
  (`LiveBelongs`), without which an answer could release another page's button. A
  page that is just mounted has asked for nothing but what it shows (`Fresh`); the
  Dashboard asks for two things at once, which is why there must be two slots.

Assumptions, each named at its constants and evaluated by TLC in the runs:

* of `Pipelines`: ids are distinct (`CallsAssumption`, `NoneAssumption`,
  `EarlierAssumption`), `HeightAssumption`, `TiersAssumption`; a mint of the wallet
  that these calls did not make locks its collateral at the height its metadata
  tells (`OthersAssumption`), and only DigiDollar transactions make time locks,
  of some value (`RecognizedAssumption`); `PricesAssumption`, and recipients are a
  sequence (`RecipientsAssumption`); amounts, rates and prices are integers, as
  `bigint` is, of any sign (`NumbersAssumption`); what the wallet received is finite,
  its transactions are sound (outputs and DD of natural value, a coin spent once)
  and do not spend what calls have yet to make (`ReceivedAssumption`): the node's
  consensus rules see to that;
* of the codec: `BaseAssumption`, `HashSizeAssumption`, `OpcodesAssumption`;
  `EncodedAssumption`: what is encoded fits. Versions, indices and counts fit into
  four bytes and values into eight, as the node's format wants and `DataView` writes
  them, a transaction has an input, and metadata is what builders encode: an
  amount of a transfer is not zero (`tx-builder/src/builders/transfer.ts:30`), a key
  has the length of a hash, and numbers have at most eight bytes, the most that
  `decodeScriptNum` takes; `CallsAssumption` of `RpcProperties`: calls are of methods that
  there are; `SpendsAssumption`: the wallet's list has a coin for every
  input and no outpoint twice; `PrecisionAssumption`: a cent and a sat are not below what a double tells from nothing;
  `CoinAssumption` and `SamplesAssumption` (a price is
  not zero; coins have natural values and the node lists each outpoint once, so
  that collateral, tokens and coins are distinct; fee rates are whole numbers);
* of the others: `CallsAssumption` of `Transport`, `GapAssumption`,
  `BoundAssumption`, `PathsAssumption`, `LimiterAssumption` and `DemoAssumption` (two
  slots at least).

Every safety property that a passing run checks is proved, and so are both refinements
and `AddressesRecur`. Only model-checked is liveness (`CallsEnd`, `CallsSettle`,
`WaitsEnd`, `PagesCatchUp`), which like ENABLED is outside the prover's reach. The claims
are refuted by the runs.

## What is not modelled

* The values of RPC arguments and results, which the methods pass through.
* Hash functions, curve arithmetic, the mnemonic; the bytes of script trees. `Taproot`
  takes them symbolically.
* `guards.ts` (shapes of JSON), health status, ages of prices and other display
  data; rendering, and the Docs page, which is static.
* Reorganisations of the chain and mempool eviction: the SDK does nothing about
  them and asks the node afresh each time; `ledger` only grows.
* The demo's static files, and validation that its pages never fail.

## Plan

Done:

1. `Taproot`, `TxParser`, `TxBuilder`, `Pipelines` and their properties.
2. `PositionBook` and the refinement.
3. Proofs: type invariant, clean failures, locks.
4. `Transport`, `RemoteCall`, the refinement and its proof.
5. The encodings, and the proof that the key-path message is the node's.
6. `RateLimiter` and `Demo`, the limiter's bound and the pages' invariant proved.
7. `Signer`, proved throughout.
8. Selection against a reference definition, fees, conversions, RPC arguments; sizes
   and conversions between cents and sats proved.
9. Collateral leaves by its redeem only, and what is sent fits its coins, proved.
10. Proofs about sums: conservation, acceptability, results, the refinement of
    `PositionBook`; selection and fees.
11. Proofs about the recursive encodings.
12. Calls with one transaction; doubles and RPC arguments proved.

Left:

13. `Transport` composed with `UTXOManager` over a custom backend that may leave
    out a transaction: the manager then takes its outputs for standard coins
    (`core/src/utxo/manager.ts:69`). The bundled backend cannot, since a batch
    throws when an answer is missing (`ResultsMatch`).
