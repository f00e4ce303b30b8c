# TLA+ models of bdk_wallet's descriptor core and RPC sync example

This directory models the descriptor core of `src/wallet/src/descriptor/mod.rs` and the threads of
the RPC sync example in `src/examples/example_wallet_rpc/src/main.rs`. The descriptor core has three parts:

- the canonicaliser, `into_wallet_descriptor`;
- the validator, `check_wallet_descriptor`;
- the key-origin matcher, the `DescriptorMeta` derivation family.

Every action and operator is translated from the Rust source. The exception is a small set of
collaborators that live outside `src/` (the miniscript grammar, the `keys` module, the checksum). These
are modelled from `spec.md` and marked `spec_modelled` in `PROJECT.json`.

## The system

| Part | Source | State and operations |
|---|---|---|
| Canonicaliser | mod.rs:75-291 | One `impl IntoWalletDescriptor` per source shape. `String`/`&String` delegate to `&str`, which splits at `#`, checks the checksum, parses, and delegates to the pair impl. `ExtendedDescriptor` delegates to the pair impl with an empty `KeyMap`. The pair impl checks every public key's valid networks. The template impl checks the carried network set, then rewrites the network of every `XPub` and of the key-map secrets. |
| Validator | mod.rs:294-328 | Pure. Three checks in order: hardened steps or a hardened wildcard, then multipath, then miniscript's `sanity_check`. |
| Key-origin matcher | mod.rs:443-608 | `derive_from_psbt_input` tries `derive_from_hd_keypaths`, then `derive_from_tap_key_origins`, then a fixed-index fallback. Each of the first two converts its PSBT map into a `BTreeMap` keyed by fingerprint and calls `derive_from_psbt_key_origins`. That function runs a closure over the descriptor's keys with `for_any_key`, stopping at the first key whose evidence is accepted after `verify_key` re-derives the public key. |
| Classification utilities | mod.rs:357-441 | `is_witness`, `is_taproot`, `get_extended_keys`, `root_fingerprint`. These are pure. |
| RPC sync example | main.rs:27-204 | Each run connects to the node, opens the store, and loads the wallet or creates it with the run's arguments. Then an emitter thread sends blocks, then one mempool event, into a `sync_channel(21)`. A ctrl-c handler sends `SigTerm`. The main loop receives, applies and persists each emission, and stops at `SigTerm` or after the mempool event. |
| Compiler example | examples/compiler.rs | Compiles a miniscript policy into a `wsh` descriptor and creates a regtest wallet from its text. The creation is a scenario of the composition. |

How the parts interact:
- A wallet is built from the canonicaliser's output, after the validator has checked it.
- The matcher is then called on that stored descriptor for each PSBT input.
- The matcher model therefore draws its descriptors from those the validator accepts. `MCKeyOriginMatcher` filters its descriptor set with `check_wallet_descriptor`.
- `WalletDescriptor` composes the three parts in that order, so that what the canonicaliser lets through is what reaches the matcher.

## Modules

- **`Descriptors`**: the shared data model.
  - Descriptor keys are records of kind `XPub`, `MultiXPub` or `Single`.
  - A `ChildNumber` is the record `[n, h]`.
  - A descriptor is its type and its keys in the grammar's enumeration order.
  - A public key derived from `x` along path `p` is the pair `<<x, p>>`: an idealised curve, where two derivations agree exactly when the key and path agree.
  - It also defines `is_witness`, `is_taproot`, `get_extended_keys`, `root_fingerprint` and `derive_pub` (which yields no key on a hardened step).
  - The grammar operators `has_wildcard`, `is_multipath` and `at_derivation_index` (which fails on multipath) are modelled from the spec.
- **`CheckWalletDescriptor`**: `check_wallet_descriptor` as an operator returning the error name or `"Ok"`.
- **`KeyOriginSpec`** (the abstract specification): spec §4.3 stated declaratively. In one `Derive` step, the result of the first stage that succeeds is returned. The evidence map is any fingerprint-keyed choice of entries.
- **`KeyOriginMatcher`** (the detailed specification):
  - Variables:
    - `input` (descriptor, `bip32_derivation`, `tap_key_origins`, scripts);
    - `pc` and `stage`;
    - `key_origins` (the `BTreeMap`);
    - `pos` (the key `for_any_key` visits next);
    - `path_found` and `result`.
  - Actions:
    - `ConvertKeyOrigins`: the `.collect()` of `derive_from_hd_keypaths` and `derive_from_tap_key_origins`.
    - `VisitKey`: one call of the closure. It skips, finds (and stops), or panics in `verify_key`'s `expect`.
    - `KeysExhausted`.
    - `FinishKeyOrigins`: `path_found.map(at_derivation_index)`, then the early return or the next stage.
    - `Fallback`.
  - `Abs == INSTANCE KeyOriginSpec` maps `result` to `Pending` until the call is done. `Refinement` checks `Abs!SafetySpec`.
- **`MCKeyOriginMatcher`**: the inputs.
  - Keys:
    - two account xpubs `A` and `B`, with origins under fingerprints `f0` and `f1` and an unhardened wildcard;
    - a fixed xpub `F` without origin;
    - a single key `S`;
    - keys the validator rejects: a hardened step `H`, a hardened wildcard `W`, a multipath key `M`.
  - Descriptors: `wpkh` of one key, and `wsh`/`sh` of up to two keys. One type of each fallback class is enough, because the fallback only tells the classes apart.
  - Evidence: entries of several kinds, built from the descriptor's own keys at indices `Idx = {0, 1}`:
    - honest;
    - wrong public key;
    - foreign path under our fingerprint;
    - hardened last step.
  - Maps: `bip32_derivation` has at most `MaxHd = 2` entries and `tap_key_origins` at most 1.
  - Scripts: none, the descriptor's own at index 0, or another.
- **`IntoWalletDescriptor`**:
  - Variables: `source` (tagged by shape), `network`, `pc` (the impl that is running), `desc` and `keymap` (the pair being handed on), and `result`.
  - Actions: one per impl — `IntoFromString`, `IntoFromStr`, `IntoFromDescriptor`, `IntoFromPair`, `IntoFromTemplate`.
  - Collaborators modelled from the spec:
    - the parser is a table from expressions to (descriptor, `KeyMap`);
    - `calc_checksum` is a function that fails on an expression with a character outside the charset;
    - `ValidNetworks` gives an xpub the networks of its `NetworkKind`, and a single public key every network. The test at mod.rs:830-836 shows single keys are accepted on both networks.
- **`MCIntoWalletDescriptor`**:
  - Keys: a mainnet xpub, a testnet xpub, a mainnet multipath xpub and a single key, each with its secret.
  - Texts: a `tprv` expression, an `xpub` expression, an unparsable one and one with a bad character, each with no, the right or a wrong checksum.
  - Other sources: descriptors, pairs with the key maps `parse_descriptor` builds, and templates carrying either their keys' networks or any network (a bip39 key, as in `test_to_wallet_descriptor_fixup_networks`).
  - Networks: bitcoin and testnet.

- **`RpcSync`**: the RPC example's start-up and threads (main.rs:27-204).
  - State:
    - `run_args` are the current run's arguments: network, wallet (the descriptor arguments) and which RPC auth options are given.
    - `db_wallet` is the wallet the store holds (its network and descriptors), or `NoWallet`.
    - `chan` is the `sync_channel` buffer, bounded by `Capacity`.
    - `emitter`, `handler` and `main` are the three threads' program counters. Before start-up ends, the emitter is `"none"` and the handler `"unset"`.
    - `e_next` is the height `next_block` returns next.
    - `mem_tip` is the wallet's latest checkpoint, and `db_tip` is the tip of the persisted store.
    - `exit_code` is what `main` returned.
    - `presses` counts ctrl-c presses and `crashes` counts process crashes.
  - Start-up actions, each with its error exit:
    - `Connect`: `Args::client` panics on a user without a password or the reverse, `Client::new(..)?` returns an error when a cookie file cannot be read (`ClientError`), and `get_blockchain_info().unwrap()` panics when the node does not answer.
    - `OpenStore`: `Store::load_or_create`.
    - `LoadWallet`: `Wallet::load` with the run's descriptors and `check_network`. `LoadOutcome` says what the library returns: `None` for an empty store, the wallet when it matches, `Err` otherwise.
    - `CreateWallet`: `Wallet::create` or `create_single`, written to the store at genesis.
    - A loaded or created wallet goes through `StartSync`: channel, handler, `Emitter::new` at the wallet tip, and the emitter thread.
  - Emitter actions: `EmitterNextBlock`, `EmitterFail` (an RPC error), `EmitterSendBlock` and `EmitterSendMempool`.
    - Their sends go through `Send`, which blocks on a full channel and fails once the receiver is dropped.
  - Handler actions: `CtrlC` (the user; before `set_handler` it terminates the process) and `HandlerSend`.
    - `set_handler`'s error is discarded. If installing the handler failed, a ctrl-c would kill the process at any point, which `CrashRestart` already covers.
  - Main actions: `Recv` (the match arms, including the `CannotConnect` error of `apply_block_connected_to`), `Persist` (success or I/O error) and `Finish` (the printing after the loop).
  - `CrashRestart` kills the process anywhere and runs `main` again on the same store, with arguments that may differ from the last run's.
  - Once `main` returns, the process and its threads are gone.
  - The handler's `signal_sender` lives as long as the process, so the receive loop never ends by disconnection.
- **`MCRpcSync`**: ChainTip 4, Capacity 2, two ctrl-c presses, two crashes, RPC and store errors enabled, two networks, two wallets, and a complete and an incomplete RPC auth.
- **`WalletDescriptor`**: the composition canonicalise, validate, match.
  - It instances `IntoWalletDescriptor` as `Canon` and `KeyOriginMatcher` as `Matcher`, with their variables renamed (`c_*`, `m_*`), and extends `CheckWalletDescriptor`.
  - `CanonStep` and `MatchStep` are steps of the two instances.
  - `Validate` calls `check_wallet_descriptor` on the canonical descriptor, as `test_check_wallet_descriptor` does.
  - `StartMatch` hands a PSBT input of the constant operator `PsbtInputs(d)` to the matcher.
  - The sequencing itself is done by the wallet builder and signer outside `src/`, and is modelled from spec §2.
- **`MCWalletDescriptor`**: two instances of the composition.
  - `MCTestSpec` starts from the scenarios of the unit tests (mod.rs:611-974). Each scenario gives a source, a network and the outcome the test asserts.
    - Keys and expressions are named by the start of their encoding in the test.
    - `to_string` of a descriptor is the expression that parses to it.
    - `compiler_example` adds the wallet creation of compiler.rs:55-62. The compiled descriptor's `to_string`, checksum included, goes as a `String` through canonicalisation and validation on regtest, and the example expects both to succeed.
    - `test_sh_wsh_sortedmulti_redeemscript` (mod.rs:907-931) asserts that the seven-key `sh(wsh(sortedmulti(3,...)))` descriptor canonicalises on testnet, passes validation and derives at index 0. The PSBT update and the script bytes the test then compares are miniscript's and stay out. The general run leaves this expression out, because `HonestPsbt` over seven keys is too large for TLC.
    - `TestPsbt` gives the PSBT inputs of the `test_derive_from_psbt_input_*` tests: their utxo, `bip32_derivation` entry, and witness or redeem script.
  - `MCSpec` starts from every test expression and both test templates on bitcoin, testnet, testnet4 and regtest. `HonestPsbt` gives PSBT inputs with honest, wrong-key or foreign evidence, and with or without the descriptor's scripts.

The init states are the program's states at the entry of each call: every input of the bounds and
every network. Each MC module passes its input set to `InitOn` rather than as a constant. TLC would
otherwise normalise the large set while processing constants.

## Runs

| Run | Checks | Result |
|---|---|---|
| `key_origin_matcher` (MCKeyOriginMatcher.cfg) | `TypeOK`; `MatchedKeyInEvidence`; `HonestEvidenceFound`; `NoPanic`; `Refinement` | Passes, 155,107 states, about 40 s. |
| `matcher_wrong_index` | `NoWrongIndex` | Violated: see finding 1. |
| `matcher_hardened_panic` (hardened evidence only) | `NoPanic` | Violated: see finding 2. |
| `into_wallet_descriptor` (MCIntoWalletDescriptor.cfg) | `ChecksumGuardsParse`; `KeyMapMatchesDescriptor`; `NetworkBound` | Passes, 442 states. |
| `template_multipath_network` (templates may hold a multipath key) | `NetworkBound` | Violated: see finding 3. |
| `checksum_character_error` | `ChecksumMismatchReported` | Violated: see finding 4. |
| `wif_network` | `SecretKeysOnNetwork` | Violated: see finding 7. |
| `rpc_sync` (MCRpcSync.cfg) | `TypeOK`; `BlocksConnect`; `MempoolAfterBlocks`; `SyncsStoredWallet`; `CtrlCStops`; `EndsUnlessEmitterFails` | Passes, 26,008 states, about 6 s. |
| `rpc_emitter_error_hang` | `Terminates` | Violated: see finding 5. |
| `rpc_handler_panic` | `NoHandlerPanic` | Violated: see finding 6. |
| `wallet_descriptor_pipeline` (MCWalletDescriptor.cfg) | `TypeOK` | Passes, 51,716 states, about 10 s. |
| `unit_test_scenarios` (MCWalletDescriptor_tests.cfg) | `AgreesWithUnitTests` | Passes, 470 states. |

What the matcher properties say:
- **`MatchedKeyInEvidence`**: a key-origin result is backed by an evidence entry. That entry records exactly the re-derived key, under the key's root fingerprint and full path.
- **`HonestEvidenceFound`**: honest evidence for one index is always found, when there is one entry per fingerprint.
- **`NoPanic`**: the call never aborts.
- **`Refinement`**: the stepwise code implements the declarative spec §4.3, first stage and first accepted key in order.

The matcher has no termination property: it is a sequential loop over a finite key list, and returns whatever its closure does.

What the canonicaliser properties say:
- **`ChecksumGuardsParse`**: a wrong checksum fails at the checksum stage, before parsing or network checks.
- **`KeyMapMatchesDescriptor`**: a consistent key map stays consistent with the returned descriptor. The network rewrite keeps `(xpub, xprv)` pairs aligned.
- **`NetworkBound`**: every extended key of a returned descriptor serves the wallet's network.
- **`SecretKeysOnNetwork`** (violation run): every secret key of a returned key map is for the wallet's network, as spec §4.1 asks.

What the RPC sync properties say:
- **`TypeOK`**: among other facts, the channel never holds more than `Capacity` emissions.
- **`BlocksConnect`**: every block `main` receives connects to the wallet tip, also after a crash between apply and persist. This holds because the next run loads the wallet at the persisted tip and starts its emitter there.
- **`MempoolAfterBlocks`**: the mempool event is applied only once the wallet holds the chain tip.
- **`CtrlCStops`**: once the handler runs, the loop ends, even when the emitter keeps refilling the channel the handler waits on.
- **`SyncsStoredWallet`**: whenever `main` applies and persists, the store holds the wallet this run's arguments name. A run after a crash with other arguments stops at `load_wallet`. A run whose predecessor crashed before `create_wallet` creates the wallet, and one that finds it loads it.
- **`EndsUnlessEmitterFails`**: unless an emitter RPC call fails, the program ends, with persist errors and crashes included.

What the composition properties say:
- **`TypeOK`** of `WalletDescriptor`: among other facts, only a descriptor the validator accepted reaches the wallet, and the matcher is handed exactly the canonical descriptor.
  - That validated descriptors never make the matcher abort is `NoPanic` of the matcher run. Its inputs already include the multipath descriptors the validator filters.
- **`AgreesWithUnitTests`**: the model gives every scenario of the unit tests the outcome the test asserts, and the compiler example's descriptor the success it expects. This checks the models against the tests.

Each property of a passing run has a mutant in `PROJECT.json`, and TLC finds each property violated under its mutant:

| Mutant | Kills |
|---|---|
| Off-by-one index | `TypeOK` |
| No `verify_key` | `MatchedKeyInEvidence` |
| Wildcard step not stripped | `HonestEvidenceFound` |
| Validator that ignores hardened steps | `NoPanic` |
| No short-circuit | `Refinement` |
| Parse before checksum | `ChecksumGuardsParse` |
| Only the xprv side retargeted | `KeyMapMatchesDescriptor` |
| Multipath keys unchecked | `NetworkBound` |
| Send without waiting for a free slot | `TypeOK` of `RpcSync` |
| Restarted emitter resumes at the crashed one's height | `BlocksConnect` |
| `load_wallet` without `check_network` | `SyncsStoredWallet` |
| `next_block` returns `None` one block early | `MempoolAfterBlocks` |
| `SigTerm` arm does not break | `CtrlCStops` |
| Mempool arm does not break | `EndsUnlessEmitterFails` |
| Canonical descriptor used whatever the validator says | `TypeOK` of `WalletDescriptor` |
| Multipath keys unchecked for the network | `AgreesWithUnitTests` (`test_into_wallet_descriptor_multi`) |

## Findings

1. **Wrong index (mod.rs:512, 523-526).**
   - Setup: in `sh(F, A/*)`, `bip32_derivation` holds `F`'s entry and `tap_key_origins` holds `A`'s entry at index 1.
   - What the code does: `F` (a fixed key with an empty suffix) matches first and sets `path_found = 0`. The call returns the descriptor at index 0.
   - What the spec says: spec §8 says the matcher never returns a wrong index.
   - The HD stage wins by design (§5), but its match is not evidence about the wildcard's index.
2. **Panic on hostile evidence (mod.rs:451-454).**
   - Setup: an entry under the wallet's root fingerprint with path `full_path/i'`.
   - What the code does: `verify_key`'s `expect("The path should never contain hardened derivation steps")` runs before the hardened check at mod.rs:505-507, so the process aborts.
   - What the spec says: §4.3 and §7 say the call returns `None`.
3. **Multipath key keeps its network (mod.rs:238-246, 274-283).**
   - What the code does: the template translator rewrites `XPub` only. A multipath xpub in a template valid for any network stays mainnet in a testnet canonical pair.
   - What the spec says: spec §3 and §4.1 say every extended public key is retargeted.
   - Wallet creation later rejects multipath descriptors through the validator.
4. **Checksum error kind (mod.rs:92).**
   - What the code does: `calc_checksum(desc)?` runs before the comparison, so an expression with a character outside the charset reports `InvalidDescriptorCharacter`.
   - What the spec says: §8 says a mismatched checksum always reports `InvalidDescriptorChecksum`.

5. **Emitter error hangs the example (main.rs:145-151).**
   - What the code does: an RPC error makes the emitter closure return `Err` into a `JoinHandle` that nobody joins. The ctrl-c handler's `signal_sender` keeps the channel connected, so `for emission in receiver` waits forever.
   - Why this is a bug: `main` returns `anyhow::Result` and uses `?` on every call, so errors are meant to end the program. This one is never reported, and only a ctrl-c ends the wait.
6. **Handler panics on a second ctrl-c (main.rs:132-134).**
   - What the code does: after a first `SigTerm` (or the mempool event) ends the loop, the receiver is dropped. A ctrl-c pressed while the summary is printed makes `send` fail.
   - Why this is a bug: `.expect("failed to send sigterm")` then panics in the handler thread, although the `expect` says the send cannot fail.
7. **A secret key of another network is accepted (mod.rs:151-173).**
   - Setup: the pair `(wpkh(K), {K: mainnet WIF})`, or the text `wpkh(<mainnet WIF>)` that parses to it, canonicalised for testnet.
   - What the code does: the pair impl's `Translator` sees only the descriptor's public keys, and a single public key is valid on every network. The call succeeds, and the mainnet secret stays in the returned `KeyMap`.
   - What the spec says: §4.1 says private keys carry an explicit network, and the call fails with `InvalidNetwork` when the target network is not one a key is valid for.
   - Extended secret keys are not affected: their public side carries the same network and is checked.

## Bounds and why they suffice

**Matcher.** The bounds contain each case the closure tells apart:
- a wildcard key and a fixed key;
- a key with an origin and one without;
- two fingerprints;
- honest and forged entries;
- a second entry under one fingerprint, which exercises the `.collect()` collapse;
- a hardened last step;
- two keys, so order matters;
- two indices, so a wrong index can be seen;
- entries in both maps, so the stage order matters;
- every outcome of the fallback.

Deeper paths and more keys repeat these cases.

**Canonicaliser.** The bounds cover each source shape, each key kind, the right and wrong network, and the right, wrong and absent checksum.

**RPC sync.** Each bound is chosen so that the cases the properties depend on occur:
- Four blocks and a channel of 2: the channel fills, and both senders block on it.
- Two ctrl-c presses: the second can arrive after the loop has ended.
- Two crashes: a crash can land between apply and persist, and then again in the re-run.
- Two networks and two wallets: a re-run can name the stored wallet, another network, or other descriptors.
- Two auth settings, complete (a cookie file) and a user without a password, so that every `Connect` outcome occurs. The other four settings take the same branches.

A channel of 21 only adds waiting states of the same shape.

**Composition.** The unit-test instance holds exactly the tests' scenarios. The general instance adds two things to the test expressions:
- every network of four, two kinds (main, test);
- a multipath key next to a wildcard key, `wsh(multi(1, tpub/1/2/*, tpub/<0;1>/*))`. It reaches the `expect` after a key-origin match.

## Fairness

Each descriptor call is sequential code with no blocking: once entered it keeps stepping. `WF_vars(Next)` expresses exactly this. No liveness property is checked of these calls: a loop over a finite key list returns by construction.

In `RpcSync` each thread action is weakly fair:
- The emitter and main threads run whenever they are not blocked.
- A sender blocked on a full channel competes for each freed slot. No wake-up order is assumed, so this is weak fairness only.
- The handler is fair once a ctrl-c has started it.

The user's presses, RPC and I/O errors and crashes have no fairness: they may never happen.

A call stops at `pc = "done"`, which is its return, so the cfgs say `CHECK_DEADLOCK FALSE`.

## Not modelled, and why

- **String-level conversions** (descriptor text, checksum computation, round-trip of `to_string`). The parser and checksum are collaborators outside `src/`. The checksum is injective on the modelled expressions.
- **The `OuterError` branch of `translate_pk`**, which miniscript raises for a malformed translated tree. A tree whose keys are all mapped to `""` cannot be malformed at this layer.
- **`CheckMiniscript`** is a forward to miniscript.
- **The script bytes of `test_sh_wsh_sortedmulti_redeemscript`** (mod.rs:920-931): the PSBT input update and the witness and redeem scripts it compares are computed by miniscript, outside `src/`. The test's canonicalisation, validation and derivation are a scenario, as is every other unit test.
- **The RPC example's URL and `start_height`**: a malformed URL, `Client::new`'s other error, is left out of the arguments; its unreadable cookie file is `Connect`'s `ClientError`. `start_height` only matters to the `Emitter`, outside `src/`. The printing is left out.
- **The store's changeset merge**: `Persist` sets the stored tip to the in-memory tip. The real `persist` appends a changeset that merges into the stored chain; the two agree because a run loads the wallet at the stored tip, so its in-memory tip is never behind it. `create_wallet`'s own refusal of a non-empty store is left out for the same reason: only an empty store reaches it.
- **Reorganisations** in the RPC example are handled inside the `Emitter` of `bdk_bitcoind_rpc`, outside `src/`. The chain is a line of heights.
- **The rest of the policy compiler example** (`compiler.rs`): parsing and compiling the policy (miniscript), `next_unused_address` and `policies()` are library calls outside `src/`. The example's own code around them is `?` and printing.

## Plan for the next modules

- A reorganisation-aware chain for `RpcSync`, should the `Emitter` come under `src/`.
