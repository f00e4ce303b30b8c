------------------------ MODULE CheckWalletDescriptor ------------------------
(***************************************************************************)
(* check_wallet_descriptor (src/wallet/src/descriptor/mod.rs): the checks  *)
(* a descriptor must pass before a wallet uses it, in the code's order,    *)
(* the first failing one deciding the error.                               *)
(***************************************************************************)
EXTENDS Descriptors

(* The closure given to for_any_key: only an XPub key is inspected.       *)
HasHardenedXPub(k) ==
    /\ IsXPub(k)
    /\ k.wildcard = "Hardened" \/ HasHardenedStep(k.path)

(* Descriptor::sanity_check (rust-miniscript), of which the duplicate-key *)
(* check is the part that depends on the keys.                            *)
sanity_check(d) ==
    ~\E p, q \in DOMAIN d.keys : p # q /\ d.keys[p] = d.keys[q]

(* Mutant: only the wildcard is checked, not the steps of the path.       *)
check_wallet_descriptor_wildcard_only(d) ==
    CASE \E k \in KeysOf(d) : IsXPub(k) /\ k.wildcard = "Hardened" -> "HardenedDerivationXpub"
      [] is_multipath(d)                       -> "BadDescriptor"
      [] ~sanity_check(d)                      -> "SanityCheck"
      [] OTHER                                 -> "Ok"

check_wallet_descriptor(d) ==
    CASE \E k \in KeysOf(d) : HasHardenedXPub(k) -> "HardenedDerivationXpub"
      [] is_multipath(d)                       -> "BadDescriptor"
      [] ~sanity_check(d)                      -> "SanityCheck"
      [] OTHER                                 -> "Ok"

================================================================================
