------------------------------- MODULE RpcSync -------------------------------
(***************************************************************************)
(* The RPC wallet example (src/examples/example_wallet_rpc/src/main.rs).  *)
(* A run of main connects to the node, opens the store and loads the      *)
(* wallet, or creates it when the store holds none, with the run's        *)
(* arguments (network, descriptors, RPC auth).  Then three threads share  *)
(* a sync_channel of capacity Capacity:                                   *)
(*   - the emitter thread sends Block(h) for each height the Emitter       *)
(*     returns, then one Mempool event, and ends (it returns Err when a    *)
(*     call or a send fails);                                              *)
(*   - the ctrl-c handler sends SigTerm with .expect() on each ctrl-c;     *)
(*   - the main loop receives, applies and persists each emission, and     *)
(*     leaves the loop on SigTerm or after the Mempool event.              *)
(* When main returns the process exits and the other threads with it.  A  *)
(* crash of the process may happen at any point; the program is then run  *)
(* again on the same store, possibly with other arguments.  Blocks are     *)
(* heights 1..ChainTip of a chain without reorganisations.                 *)
(***************************************************************************)
EXTENDS Naturals, Sequences

CONSTANTS
    ChainTip,        \* height of the node's best block
    Capacity,        \* bound of sync_channel (21 in the code)
    MaxPresses,      \* ctrl-c presses in one behaviour
    MaxCrashes,      \* process crashes in one behaviour
    EmitterMayFail,  \* an RPC call may return Err (node unreachable)
    PersistMayFail,  \* a read or write of the store may return Err (I/O error)
    Networks,        \* values of --network
    Wallets,         \* values of the descriptor arguments (DESCRIPTOR, CHANGE_DESCRIPTOR)
    Auths            \* which of --rpc-cookie, --rpc-user, --rpc-pass are given

ASSUME ChainTip \in Nat /\ Capacity \in Nat \ {0}
ASSUME EmitterMayFail \in BOOLEAN /\ PersistMayFail \in BOOLEAN
ASSUME Auths \subseteq {"none", "cookie", "cookie_user", "userpass", "user_only", "pass_only"}

Block(h) == [tag |-> "Block", height |-> h]
Mempool  == [tag |-> "Mempool"]
SigTerm  == [tag |-> "SigTerm"]

(* The command-line arguments of one run (Args, main.rs:27-60).           *)
Args == [network : Networks, wallet : Wallets, auth : Auths]

(* What a wallet is created with and the store keeps; NoWallet: none yet. *)
WalletParams == [network : Networks, wallet : Wallets]
NoWallet == [network |-> "none", wallet |-> "none"]

VARIABLES
    run_args,  \* the arguments of the current run
    chan,      \* the sync_channel buffer, oldest first
    emitter,   \* emitter thread: "none" (not spawned), "next", "send", "mempool",
               \* then "ok", "failed" (RPC error) or "send_failed" (receiver dropped)
    e_next,    \* the height next_block returns next
    handler,   \* ctrl-c handler: "unset" (default SIGINT), "idle", "sending", "panicked"
    presses,   \* ctrl-c presses so far
    main,      \* "connect", "open", "load", "create", "recv", "persist",
               \* "persist_mempool", "finishing", "exited"
    exit_code, \* "none" while running, else how the process ended
    mem_tip,   \* the wallet's latest checkpoint, in memory
    mempool_applied, \* the mempool event was applied in memory
    db_wallet, \* the wallet parameters the store holds, or NoWallet
    db_tip,    \* the tip of the persisted ChangeSet store
    crashes

vars == <<run_args, chan, emitter, e_next, handler, presses, main, exit_code,
          mem_tip, mempool_applied, db_wallet, db_tip, crashes>>

(* The receiver is dropped when the for loop ends; the process is gone    *)
(* once main has returned.                                                 *)
ReceiverAlive == main \in {"recv", "persist", "persist_mempool"}
Running == main # "exited"

(* main returns (or panics) with code c.                                  *)
Exit(c) == main' = "exited" /\ exit_code' = c

(* The process starts with some arguments (Args::parse, main.rs:84-85).   *)
StartRun ==
    /\ run_args' \in Args
    /\ chan' = <<>> /\ emitter' = "none" /\ handler' = "unset"
    /\ main' = "connect" /\ exit_code' = "none"
    /\ mem_tip' = 0 /\ mempool_applied' = FALSE

(* The first run, on a new store.                                          *)
Init ==
    /\ run_args \in Args
    /\ chan = <<>> /\ emitter = "none" /\ e_next = 1 /\ handler = "unset"
    /\ main = "connect" /\ exit_code = "none" /\ mem_tip = 0
    /\ mempool_applied = FALSE /\ db_wallet = NoWallet /\ db_tip = 0
    /\ presses = 0 /\ crashes = 0

----------------------------------------------------------------------------
(* Start-up (main.rs:62-145). *)

(* args.client()? panics when a user or a password comes without the      *)
(* other and without a cookie file (main.rs:62-75); then                   *)
(* get_blockchain_info().unwrap() panics when the node does not answer     *)
(* (main.rs:87-91).  Client::new(..)? returns an error when the cookie    *)
(* file of Auth::CookieFile cannot be read, and main returns it; a        *)
(* malformed URL, its other error, is left out of the arguments.          *)
Connect ==
    /\ main = "connect"
    /\ \/ /\ run_args.auth \in {"user_only", "pass_only"}
          /\ Exit("Panicked")
       \/ /\ run_args.auth \in {"cookie", "cookie_user"}
          /\ EmitterMayFail
          /\ Exit("ClientError")
       \/ /\ run_args.auth \notin {"user_only", "pass_only"}
          /\ EmitterMayFail
          /\ Exit("Panicked")
       \/ /\ run_args.auth \notin {"user_only", "pass_only"}
          /\ main' = "open"
          /\ UNCHANGED exit_code
    /\ UNCHANGED <<run_args, chan, emitter, e_next, handler, presses, mem_tip,
                   mempool_applied, db_wallet, db_tip, crashes>>

(* Store::load_or_create(..)?: opens the file, or creates an empty one.   *)
OpenStore ==
    /\ main = "open"
    /\ \/ main' = "load" /\ UNCHANGED exit_code
       \/ PersistMayFail /\ Exit("StoreError")
    /\ UNCHANGED <<run_args, chan, emitter, e_next, handler, presses, mem_tip,
                   mempool_applied, db_wallet, db_tip, crashes>>

(* Mutant: the emitter resumes at the height a crashed run had reached,   *)
(* not at the wallet tip.                                                  *)
StartSync_resume_emitter(tip) ==
    /\ chan' = <<>> /\ handler' = "idle"
    /\ emitter' = "next" /\ e_next' = e_next
    /\ mem_tip' = tip /\ main' = "recv"

(* The channel, the ctrl-c handler and Emitter::new at the wallet tip,    *)
(* then the emitter thread is spawned (main.rs:117-145).                   *)
StartSync(tip) ==
    /\ chan' = <<>> /\ handler' = "idle"
    /\ emitter' = "next" /\ e_next' = tip + 1
    /\ mem_tip' = tip /\ main' = "recv"

(* What Wallet::load() ... .load_wallet(&mut db) returns for the store:   *)
(* None when it holds no wallet, Err when the wallet's descriptors or,    *)
(* with check_network, its network differ from the run's arguments.       *)
LoadOutcome(store, args) ==
    IF store = NoWallet THEN "None"
    ELSE IF store.wallet = args.wallet /\ store.network = args.network
         THEN "Some" ELSE "Err"

(* Mutant: load_wallet without .check_network(args.network).              *)
LoadWallet_no_check_network ==
    /\ main = "load"
    /\ LET out == IF db_wallet = NoWallet THEN "None"
                  ELSE IF db_wallet.wallet = run_args.wallet THEN "Some" ELSE "Err"
       IN \/ out = "Some" /\ StartSync(db_tip) /\ UNCHANGED exit_code
          \/ out = "None" /\ main' = "create"
             /\ UNCHANGED <<chan, emitter, e_next, handler, mem_tip, exit_code>>
          \/ out = "Err" /\ Exit("LoadError")
             /\ UNCHANGED <<chan, emitter, e_next, handler, mem_tip>>
          \/ PersistMayFail /\ Exit("StoreError")
             /\ UNCHANGED <<chan, emitter, e_next, handler, mem_tip>>
    /\ UNCHANGED <<run_args, presses, mempool_applied, db_wallet, db_tip, crashes>>

(* Wallet::load()...load_wallet(&mut db)? (main.rs:96-102): a loaded      *)
(* wallet syncs from the stored tip; none goes on to create one; an error *)
(* (a mismatch, or a failed read of the store) ends main.                 *)
LoadWallet ==
    /\ main = "load"
    /\ LET out == LoadOutcome(db_wallet, run_args)
       IN \/ out = "Some" /\ StartSync(db_tip) /\ UNCHANGED exit_code
          \/ out = "None" /\ main' = "create"
             /\ UNCHANGED <<chan, emitter, e_next, handler, mem_tip, exit_code>>
          \/ out = "Err" /\ Exit("LoadError")
             /\ UNCHANGED <<chan, emitter, e_next, handler, mem_tip>>
          \/ PersistMayFail /\ Exit("StoreError")
             /\ UNCHANGED <<chan, emitter, e_next, handler, mem_tip>>
    /\ UNCHANGED <<run_args, presses, mempool_applied, db_wallet, db_tip, crashes>>

(* Wallet::create(..) or create_single(..) .network(args.network)         *)
(* .create_wallet(&mut db)? (main.rs:103-111): the new wallet, at genesis, *)
(* is written to the store, or the write fails and main returns the error. *)
CreateWallet ==
    /\ main = "create"
    /\ \/ /\ db_wallet' = [network |-> run_args.network, wallet |-> run_args.wallet]
          /\ StartSync(0)
          /\ UNCHANGED exit_code
       \/ /\ PersistMayFail /\ Exit("StoreError")
          /\ UNCHANGED <<db_wallet, chan, emitter, e_next, handler, mem_tip>>
    /\ UNCHANGED <<run_args, presses, mempool_applied, db_tip, crashes>>

----------------------------------------------------------------------------
(* Emitter thread (main.rs:145-151). *)

(* Mutant: next_block is taken to return None one block before the tip.  *)
EmitterNextBlock_stop_early ==
    /\ Running /\ emitter = "next"
    /\ emitter' = IF e_next < ChainTip THEN "send" ELSE "mempool"
    /\ UNCHANGED <<chan, e_next, handler, presses, main, exit_code, mem_tip,
                   mempool_applied, db_tip, crashes, run_args, db_wallet>>

(* emitter.next_block()?: Some(block), None at the node's tip, or Err.    *)
EmitterNextBlock ==
    /\ Running /\ emitter = "next"
    /\ emitter' = IF e_next <= ChainTip THEN "send" ELSE "mempool"
    /\ UNCHANGED <<chan, e_next, handler, presses, main, exit_code, mem_tip,
                   mempool_applied, db_tip, crashes, run_args, db_wallet>>

(* An RPC call of the emitter fails: the closure returns Err, which no    *)
(* one joins, and drops `sender`.                                          *)
EmitterFail ==
    /\ Running /\ EmitterMayFail /\ emitter \in {"next", "mempool"}
    /\ emitter' = "failed"
    /\ UNCHANGED <<chan, e_next, handler, presses, main, exit_code, mem_tip,
                   mempool_applied, db_tip, crashes, run_args, db_wallet>>

(* Mutant: a send that does not wait for a free slot.                     *)
Send_unbounded(m, after) ==
    \/ /\ ReceiverAlive
       /\ chan' = Append(chan, m)
       /\ emitter' = after
    \/ /\ ~ReceiverAlive
       /\ emitter' = "send_failed"
       /\ UNCHANGED chan

(* sender.send(m)?: blocks while the channel is full, fails once the       *)
(* receiver is dropped.                                                    *)
Send(m, after) ==
    \/ /\ ReceiverAlive /\ Len(chan) < Capacity
       /\ chan' = Append(chan, m)
       /\ emitter' = after
    \/ /\ ~ReceiverAlive
       /\ emitter' = "send_failed"
       /\ UNCHANGED chan

EmitterSendBlock ==
    /\ Running /\ emitter = "send"
    /\ Send(Block(e_next), "next")
    /\ e_next' = e_next + 1
    /\ UNCHANGED <<handler, presses, main, exit_code, mem_tip, mempool_applied,
                   db_tip, crashes, run_args, db_wallet>>

(* emitter.mempool()? succeeded; its event is sent, and the thread ends.   *)
EmitterSendMempool ==
    /\ Running /\ emitter = "mempool"
    /\ Send(Mempool, "ok")
    /\ UNCHANGED <<e_next, handler, presses, main, exit_code, mem_tip,
                   mempool_applied, db_tip, crashes, run_args, db_wallet>>

----------------------------------------------------------------------------
(* ctrl-c handler (main.rs:131-135). *)

(* The user presses ctrl-c.  Before set_handler (main.rs:131) the default *)
(* action terminates the process; after it, the handler thread runs the   *)
(* closure.                                                                *)
CtrlC ==
    /\ Running /\ handler \in {"unset", "idle"} /\ presses < MaxPresses
    /\ presses' = presses + 1
    /\ \/ handler = "unset" /\ Exit("Interrupted") /\ UNCHANGED handler
       \/ handler = "idle" /\ handler' = "sending" /\ UNCHANGED <<main, exit_code>>
    /\ UNCHANGED <<chan, emitter, e_next, mem_tip,
                   mempool_applied, db_tip, crashes, run_args, db_wallet>>

(* signal_sender.send(SigTerm).expect(..): blocks while the channel is     *)
(* full, panics once the receiver is dropped.                              *)
HandlerSend ==
    /\ Running /\ handler = "sending"
    /\ \/ /\ ReceiverAlive /\ Len(chan) < Capacity
          /\ chan' = Append(chan, SigTerm)
          /\ handler' = "idle"
       \/ /\ ~ReceiverAlive
          /\ handler' = "panicked"
          /\ UNCHANGED chan
    /\ UNCHANGED <<emitter, e_next, presses, main, exit_code, mem_tip,
                   mempool_applied, db_tip, crashes, run_args, db_wallet>>

----------------------------------------------------------------------------
(* Main loop (main.rs:153-204).  `for emission in receiver` would also end *)
(* when every sender is dropped, but the handler's signal_sender lives as  *)
(* long as the process, so a receive on an empty channel waits.            *)

(* Mutant: the SigTerm arm does not break out of the loop.                *)
Recv_ignore_sigterm ==
    /\ main = "recv" /\ chan # <<>>
    /\ LET m == Head(chan) IN
       CASE m.tag = "SigTerm" -> UNCHANGED <<main, mem_tip, mempool_applied, exit_code>>
         [] m.tag = "Block" /\ m.height = mem_tip + 1 ->
              /\ mem_tip' = m.height
              /\ main' = "persist"
              /\ UNCHANGED <<mempool_applied, exit_code>>
         [] m.tag = "Block" ->
              /\ main' = "exited"
              /\ exit_code' = "CannotConnect"
              /\ UNCHANGED <<mem_tip, mempool_applied>>
         [] m.tag = "Mempool" ->
              /\ mempool_applied' = TRUE
              /\ main' = "persist_mempool"
              /\ UNCHANGED <<mem_tip, exit_code>>
    /\ chan' = Tail(chan)
    /\ UNCHANGED <<emitter, e_next, handler, presses, db_tip, crashes, run_args, db_wallet>>

(* apply_block_connected_to: the block must connect to the wallet tip.    *)
Recv ==
    /\ main = "recv" /\ chan # <<>>
    /\ LET m == Head(chan) IN
       CASE m.tag = "SigTerm" ->
              /\ main' = "finishing"
              /\ UNCHANGED <<mem_tip, mempool_applied, exit_code>>
         [] m.tag = "Block" /\ m.height = mem_tip + 1 ->
              /\ mem_tip' = m.height
              /\ main' = "persist"
              /\ UNCHANGED <<mempool_applied, exit_code>>
         [] m.tag = "Block" ->
              /\ main' = "exited"
              /\ exit_code' = "CannotConnect"
              /\ UNCHANGED <<mem_tip, mempool_applied>>
         [] m.tag = "Mempool" ->
              /\ mempool_applied' = TRUE
              /\ main' = "persist_mempool"
              /\ UNCHANGED <<mem_tip, exit_code>>
    /\ chan' = Tail(chan)
    /\ UNCHANGED <<emitter, e_next, handler, presses, db_tip, crashes, run_args, db_wallet>>

(* Mutant: the Mempool arm does not break after persisting.               *)
Persist_mempool_continue ==
    /\ main \in {"persist", "persist_mempool"}
    /\ \/ /\ db_tip' = mem_tip
          /\ main' = "recv"
          /\ UNCHANGED exit_code
       \/ /\ PersistMayFail
          /\ main' = "exited"
          /\ exit_code' = "PersistError"
          /\ UNCHANGED db_tip
    /\ UNCHANGED <<chan, emitter, e_next, handler, presses, mem_tip,
                   mempool_applied, crashes, run_args, db_wallet>>

(* wallet.persist(&mut db)?: the store takes the wallet's state, or main   *)
(* returns the error.  After the mempool event the loop breaks.            *)
Persist ==
    /\ main \in {"persist", "persist_mempool"}
    /\ \/ /\ db_tip' = mem_tip
          /\ main' = IF main = "persist" THEN "recv" ELSE "finishing"
          /\ UNCHANGED exit_code
       \/ /\ PersistMayFail
          /\ main' = "exited"
          /\ exit_code' = "PersistError"
          /\ UNCHANGED db_tip
    /\ UNCHANGED <<chan, emitter, e_next, handler, presses, mem_tip,
                   mempool_applied, crashes, run_args, db_wallet>>

(* After the loop: the summary is printed and main returns Ok(()).        *)
Finish ==
    /\ main = "finishing"
    /\ main' = "exited"
    /\ exit_code' = "Ok"
    /\ UNCHANGED <<chan, emitter, e_next, handler, presses, mem_tip,
                   mempool_applied, db_tip, crashes, run_args, db_wallet>>

----------------------------------------------------------------------------
(* The process crashes at any point while it runs; what was not persisted *)
(* is lost, and the program is run again on the same store.               *)
CrashRestart ==
    /\ Running /\ crashes < MaxCrashes
    /\ crashes' = crashes + 1
    /\ StartRun
    /\ UNCHANGED <<presses, e_next, db_wallet, db_tip>>

Next ==
    \/ Connect \/ OpenStore \/ LoadWallet \/ CreateWallet
    \/ EmitterNextBlock \/ EmitterFail \/ EmitterSendBlock \/ EmitterSendMempool
    \/ CtrlC \/ HandlerSend
    \/ Recv \/ Persist \/ Finish
    \/ CrashRestart

(* The emitter and main threads run whenever they can (main's start-up    *)
(* steps included); a thread blocked in *)
(* send is woken when a slot frees, but may lose it to the other sender,   *)
(* so the sends are only weakly fair.  The handler runs once the user has  *)
(* pressed ctrl-c.  The user, errors and crashes are not forced to happen. *)
Fairness ==
    /\ WF_vars(EmitterNextBlock) /\ WF_vars(EmitterSendBlock) /\ WF_vars(EmitterSendMempool)
    /\ WF_vars(HandlerSend)
    /\ WF_vars(Connect) /\ WF_vars(OpenStore) /\ WF_vars(LoadWallet) /\ WF_vars(CreateWallet)
    /\ WF_vars(Recv) /\ WF_vars(Persist) /\ WF_vars(Finish)

Spec == Init /\ [][Next]_vars /\ Fairness

--------------------------------------------------------------------------------
(* Properties *)

(* Type invariant; the channel never holds more than its bound: a send on  *)
(* a full sync_channel blocks (main.rs:128).                               *)
TypeOK ==
    /\ run_args \in Args
    /\ chan \in Seq({Block(h) : h \in 1..ChainTip} \cup {Mempool, SigTerm})
    /\ Len(chan) <= Capacity
    /\ emitter \in {"none", "next", "send", "mempool", "ok", "failed", "send_failed"}
    /\ e_next \in 1..ChainTip + 1
    /\ handler \in {"unset", "idle", "sending", "panicked"}
    /\ main \in {"connect", "open", "load", "create", "recv", "persist",
                 "persist_mempool", "finishing", "exited"}
    /\ exit_code \in {"none", "Ok", "ClientError", "CannotConnect", "PersistError", "StoreError",
                      "LoadError", "Panicked", "Interrupted"}
    /\ (main = "exited") = (exit_code # "none")
    /\ db_wallet \in WalletParams \cup {NoWallet}
    /\ {mem_tip, db_tip} \subseteq 0..ChainTip
    /\ crashes \in 0..MaxCrashes

(***************************************************************************)
(* Every block main receives connects to the wallet tip, so              *)
(* apply_block_connected_to never fails (main.rs:166): after a crash      *)
(* between apply and persist (main.rs:166-167) the blocks applied and not *)
(* persisted are lost, and the next run must ask the emitter for them     *)
(* again, starting from the tip of the store.                             *)
(***************************************************************************)
BlocksConnect == exit_code # "CannotConnect"

(***************************************************************************)
(* The mempool event is applied only once the wallet holds every block up *)
(* to the node's tip: the emitter sends it after next_block returned None, *)
(* and the channel delivers in order (main.rs:146-149, 171-175).           *)
(***************************************************************************)
MempoolAfterBlocks == mempool_applied => mem_tip = ChainTip

(***************************************************************************)
(* A ctrl-c takes effect: once the handler runs, main leaves the sync loop *)
(* or the process ends, even when the handler finds the channel full and   *)
(* must wait behind up to Capacity blocks that the emitter keeps refilling *)
(* (main.rs:128-135, 156-158).                                             *)
(***************************************************************************)
CtrlCStops ==
    \A c \in 0..MaxCrashes :
        (handler = "sending" /\ crashes = c)
            ~> (main \in {"finishing", "exited"} \/ crashes > c)

(***************************************************************************)
(* Unless an RPC call of the emitter fails, the program ends: a sync       *)
(* reaches the mempool event, persists it and breaks (main.rs:149, 180),   *)
(* also after a crash and restart.                                          *)
(***************************************************************************)
EndsUnlessEmitterFails ==
    [](emitter # "failed") => <>(main = "exited")

(***************************************************************************)
(* A run syncs only the wallet its arguments name: whenever main applies  *)
(* and persists blocks, the store holds a wallet created with this run's  *)
(* network and descriptors.  A run started on the store of an earlier run  *)
(* with other arguments must stop at load_wallet (main.rs:96-101), and a  *)
(* run that created the wallet, crashed and was run again must load it,   *)
(* not create a second one.                                                *)
(***************************************************************************)
SyncsStoredWallet ==
    ReceiverAlive =>
        db_wallet = [network |-> run_args.network, wallet |-> run_args.wallet]

(***************************************************************************)
(* The program ends (main returns): main.rs propagates every error with   *)
(* `?` and returns anyhow::Result.                                         *)
(***************************************************************************)
Terminates == <>(main = "exited")

(***************************************************************************)
(* The handler's send never fails: it is wrapped in                        *)
(* .expect("failed to send sigterm") (main.rs:132-134).                    *)
(***************************************************************************)
NoHandlerPanic == handler # "panicked"

================================================================================
