---------------------------- MODULE KeyOriginSpec ----------------------------
(***************************************************************************)
(* What DescriptorMeta::derive_from_psbt_input promises (spec section      *)
(* 4.3), stated declaratively: in one step the call returns the result of  *)
(* the first stage that succeeds, HD key paths, then taproot key origins,  *)
(* then the fixed-index fallback.  Within a key-origin stage the result is *)
(* decided by the first descriptor key, in enumeration order, whose        *)
(* evidence is accepted: its root fingerprint is in the evidence map, its  *)
(* full path is a prefix of the evidence path, and either the key is fixed *)
(* and nothing is left over, or it has an unhardened wildcard, exactly one *)
(* normal step is left over, and re-deriving gives the expected key.       *)
(*                                                                         *)
(* The evidence map is keyed by fingerprint (spec: "a root-fingerprint ->  *)
(* (path, expected-public-key) evidence map"), so of several entries with  *)
(* one fingerprint a single one survives; which one is chosen freely.      *)
(***************************************************************************)
EXTENDS Descriptors, FiniteSets

VARIABLES input, result
spec_vars == <<input, result>>

(* Every way of keying a set of evidence entries by fingerprint.          *)
FingerprintMaps(ev) ==
    LET fps == {e.fp : e \in ev}
    IN  {m \in [fps -> ev] : \A f \in fps : m[f].fp = f}

SpecSuffix(k, e) == SubSeq(e.path, Len(FullPath(k)) + 1, Len(e.path))

(* The index key k yields from evidence map m, or NoneV.                 *)
SpecAccepts(k, m) ==
    LET fp == root_fingerprint(k)
        e  == m[fp]
        sx == SpecSuffix(k, e)
    IN  IF /\ IsXPub(k)
           /\ fp \in DOMAIN m
           /\ IsPrefix(FullPath(k), e.path)
           /\ derive_pub(k.xkey, k.path \o sx) = e.key
        THEN CASE k.wildcard = "None" /\ sx = <<>> -> 0
               [] k.wildcard = "Unhardened" /\ Len(sx) = 1 /\ ~is_hardened(sx[1])
                      -> sx[1].n
               [] OTHER -> NoneV
        ELSE NoneV

SpecKeyOrigins(d, m) ==
    LET P == {p \in DOMAIN d.keys : SpecAccepts(d.keys[p], m) # NoneV}
    IN  IF P = {} THEN NoneV ELSE SpecAccepts(d.keys[Min(P)], m)

(* The fixed-index fallback of the spec, for a descriptor with no wildcard. *)
SpecFallback(in) ==
    LET dd == at_derivation_index(in.desc, 0)
    IN  IF \/ dd.type \in {"Pkh", "Wpkh", "ShWpkh", "Tr"}
              /\ in.utxo # NoneV /\ in.utxo = script_pubkey(dd)
           \/ dd.type \in {"Bare", "Sh", "ShSortedMulti"}
              /\ in.redeem_script # NoneV /\ in.redeem_script = explicit_script(dd)
           \/ dd.type \in {"Wsh", "ShWsh", "ShWshSortedMulti", "WshSortedMulti"}
              /\ in.witness_script # NoneV /\ in.witness_script = explicit_script(dd)
        THEN Some("fallback", dd)
        ELSE Nothing

SpecResult(in, hm, tm) ==
    LET hi == SpecKeyOrigins(in.desc, hm)
        ti == SpecKeyOrigins(in.desc, tm)
    IN  CASE hi # NoneV -> Some("hd", at_derivation_index(in.desc, hi))
          [] ti # NoneV -> Some("tap", at_derivation_index(in.desc, ti))
          [] has_wildcard(in.desc) -> Nothing
          [] OTHER -> SpecFallback(in)

(* The call may be given any input; its result is not decided yet.       *)
SpecInit == result = Pending

Derive ==
    /\ result = Pending
    /\ \E hm \in FingerprintMaps(input.hd), tm \in FingerprintMaps(input.tap) :
           result' = SpecResult(input, hm, tm)
    /\ UNCHANGED input

AbstractSpec == SpecInit /\ [][Derive]_spec_vars /\ WF_spec_vars(Derive)

(* The safety part of AbstractSpec.                                        *)
SafetySpec == SpecInit /\ [][Derive]_spec_vars

================================================================================
