------------------------------ MODULE MCRpcSync ------------------------------
(***************************************************************************)
(* Model-checking instance of RpcSync: a chain of ChainTip blocks above    *)
(* the wallet's first tip, a channel of Capacity < ChainTip + 1 so that    *)
(* both senders meet a full channel, two ctrl-c presses, two crashes, and  *)
(* runs whose arguments name one of two networks and two wallets.          *)
(***************************************************************************)
EXTENDS RpcSync, TLC

MCSpec == Spec

================================================================================
