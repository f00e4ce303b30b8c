----------------------------- MODULE Descriptors -----------------------------
(***************************************************************************)
(* The data model shared by the modules of this project: descriptor keys,  *)
(* BIP32 child numbers and paths, descriptors as the sequence of their     *)
(* keys in the grammar's own enumeration order (the order of for_each_key  *)
(* and for_any_key), and the operators of src/wallet/src/descriptor/mod.rs *)
(* that classify descriptors and collect their keys.                       *)
(*                                                                         *)
(* Key material is abstract.  The public key derived from extended key x   *)
(* along path p is the pair <<x, p>>: two derivations give the same key    *)
(* exactly when they start from the same key and follow the same path, the *)
(* idealised elliptic curve that the code's verification relies on.       *)
(* The operators the code takes from rust-miniscript (has_wildcard,        *)
(* is_multipath, at_derivation_index) are modelled as the spec describes   *)
(* the descriptor grammar.                                                 *)
(***************************************************************************)
EXTENDS Integers, Sequences, SequencesExt

CONSTANTS
    XKeys,          \* extended public key material (model values)
    SingleKeys,     \* single (non-extended) public keys (model values)
    Fingerprints,   \* BIP32 key fingerprints (model values)
    xkey_fingerprint, \* XKeys -> Fingerprints: fingerprint of the key itself
    Idx,            \* child indices that occur (a small set of naturals)
    NoneV           \* Rust's None

ASSUME xkey_fingerprint \in [XKeys -> Fingerprints]
ASSUME Idx \subseteq Nat /\ NoneV \notin Nat

(* bitcoin::bip32::ChildNumber: Normal { index } or Hardened { index }. *)
ChildNumber == [n : Idx, h : BOOLEAN]
Normal(i)   == [n |-> i, h |-> FALSE]
Hardened(i) == [n |-> i, h |-> TRUE]
is_hardened(c) == c.h

HasHardenedStep(path) == \E j \in 1..Len(path) : is_hardened(path[j])

Wildcards == {"None", "Unhardened", "Hardened"}
NetworkKinds == {"Main", "Test"}

(***************************************************************************)
(* DescriptorPublicKey.  kind "XPub" is DescriptorXKey<Xpub>, "MultiXPub"  *)
(* is the multipath DescriptorMultiXKey (its alternative paths are not     *)
(* told apart here), "Single" is SinglePub.  origin is NoneV or the        *)
(* KeySource [fp, path]; net is the NetworkKind of the Xpub.               *)
(***************************************************************************)
XKeyOf(kind, x, origin, path, wc, net) ==
    [kind |-> kind, xkey |-> x, origin |-> origin, path |-> path,
     wildcard |-> wc, net |-> net]
SingleOf(s) ==
    [kind |-> "Single", xkey |-> s, origin |-> NoneV, path |-> <<>>,
     wildcard |-> "None", net |-> "Any"]

(* DescriptorSecretKey: kind "XPrv", "MultiXPrv" or "Single"; net is the   *)
(* NetworkKind it carries.                                                 *)
SecretOf(kind, x, net) == [kind |-> kind, xkey |-> x, net |-> net]

(* A KeyMap without entries.                                               *)
EmptyKeyMap == [p \in {} |-> NoneV]

IsXPub(k) == k.kind = "XPub"

DescTypes == {"Bare", "Sh", "Pkh", "Wpkh", "ShWpkh", "Wsh", "ShWsh",
              "ShWshSortedMulti", "ShSortedMulti", "WshSortedMulti", "Tr"}

(* A descriptor: its DescriptorType and its keys in enumeration order. *)
Desc(type, keys) == [type |-> type, keys |-> keys]
KeysOf(d) == ToSet(d.keys)

(* DescriptorMeta::is_witness and is_taproot (mod.rs). *)
is_witness(d) ==
    d.type \in {"Wpkh", "ShWpkh", "Wsh", "ShWsh", "ShWshSortedMulti",
                "WshSortedMulti"}
is_taproot(d) == d.type = "Tr"

(* DescriptorMeta::get_extended_keys: every XPub leaf, in enumeration     *)
(* order, duplicates kept.                                                *)
get_extended_keys(d) == SelectSeq(d.keys, IsXPub)

(* XKeyUtils::root_fingerprint: the origin's fingerprint, else the key's. *)
root_fingerprint(k) ==
    IF k.origin # NoneV THEN k.origin.fp ELSE xkey_fingerprint[k.xkey]

(* The public key derived from xkey x along path, or NoneV when a step is *)
(* hardened (Xpub::derive_pub fails with CannotDeriveFromHardenedKey).    *)
derive_pub(x, path) ==
    IF HasHardenedStep(path) THEN NoneV ELSE <<x, path>>

(* Descriptor::has_wildcard and is_multipath (rust-miniscript).           *)
has_wildcard(d) == \E k \in KeysOf(d) : k.wildcard # "None"
is_multipath(d) == \E k \in KeysOf(d) : k.kind = "MultiXPub"

(***************************************************************************)
(* Descriptor::at_derivation_index(i) (rust-miniscript): every wildcard is *)
(* replaced by child i, hardened for a hardened wildcard.  It fails on a   *)
(* multipath key; i below 2^31 is always a valid index.  A definite key is *)
(* denoted by the public key it stands for.                                *)
(***************************************************************************)
DefiniteKey(k, i) ==
    CASE k.kind = "Single"        -> <<"single", k.xkey>>
      [] k.wildcard = "None"       -> <<k.xkey, k.path>>
      [] k.wildcard = "Unhardened" -> <<k.xkey, Append(k.path, Normal(i))>>
      [] k.wildcard = "Hardened"   -> <<k.xkey, Append(k.path, Hardened(i))>>

at_derivation_index(d, i) ==
    IF is_multipath(d) THEN NoneV
    ELSE [type |-> d.type, keys |-> [p \in DOMAIN d.keys |-> DefiniteKey(d.keys[p], i)]]

(* Scripts of a definite descriptor: script_pubkey and explicit_script.   *)
script_pubkey(dd)   == <<"spk", dd.type, dd.keys>>
explicit_script(dd) == <<"script", dd.keys>>

(* Outcomes of a call returning Option<DerivedDescriptor>, or aborting.   *)
Pending  == [tag |-> "pending"]
Panicked == [tag |-> "panic"]
Nothing  == [tag |-> "none"]
Some(via, dd) == [tag |-> "some", via |-> via, dd |-> dd]

(* The path from the root: the origin's path followed by the key's own.   *)
FullPath(k) == IF k.origin # NoneV THEN k.origin.path \o k.path ELSE k.path

================================================================================
