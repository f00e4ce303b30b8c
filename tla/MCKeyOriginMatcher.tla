-------------------------- MODULE MCKeyOriginMatcher --------------------------
(***************************************************************************)
(* Model-checking instance of KeyOriginMatcher.  The descriptor of a call  *)
(* is a wallet descriptor: one that check_wallet_descriptor accepts, as    *)
(* the wallet only ever holds such descriptors.  The PSBT input's evidence *)
(* comes from whoever built the PSBT and is drawn from entries made from   *)
(* the descriptor's own keys: honest ones, ones with a wrong public key,   *)
(* ones for another path under the same fingerprint, and ones whose last  *)
(* step is hardened, as the cfg selects.                                   *)
(***************************************************************************)
EXTENDS KeyOriginMatcher, CheckWalletDescriptor, TLC

CONSTANTS
    xa, xb, xc, s1,   \* key material
    f0, f1, fc,       \* fingerprints
    ForgedKey,        \* a public key that no descriptor key derives
    OtherScript,      \* a script that is none of the descriptor's
    KeyNames,         \* which of the keys below descriptors are made of
    EntryKinds,       \* which kinds of evidence entries occur
    MaxHd             \* at most this many bip32_derivation entries

(* Wallet keys: accounts under root fingerprints f0 and f1, a fixed     *)
(* cosigner key without origin, a single key; and keys that              *)
(* check_wallet_descriptor must reject: a hardened step (H), a hardened  *)
(* wildcard (W), a multipath key (M).                                    *)
KeyTable ==
  [ A |-> XKeyOf("XPub", xa, [fp |-> f0, path |-> <<Hardened(0)>>], <<Normal(0)>>, "Unhardened", "Test"),
    B |-> XKeyOf("XPub", xb, [fp |-> f1, path |-> <<Hardened(0)>>], <<Normal(0)>>, "Unhardened", "Test"),
    F |-> XKeyOf("XPub", xc, NoneV, <<>>, "None", "Test"),
    S |-> SingleOf(s1),
    H |-> XKeyOf("XPub", xa, NoneV, <<Hardened(0)>>, "Unhardened", "Test"),
    W |-> XKeyOf("XPub", xa, [fp |-> f0, path |-> <<Hardened(0)>>], <<Normal(0)>>, "Hardened", "Test"),
    M |-> XKeyOf("MultiXPub", xb, NoneV, <<Normal(0)>>, "Unhardened", "Test") ]

MCKeys == {KeyTable[n] : n \in KeyNames}

(* One descriptor type of each class the fallback tells apart: a single- *)
(* key type compared by script_pubkey, a P2SH type compared by redeem    *)
(* script, a P2WSH type compared by witness script.                      *)
AllDescs ==
    {Desc("Wpkh", <<k>>) : k \in MCKeys}
    \cup {Desc(t, ks) : t \in {"Wsh", "Sh"}, ks \in SeqOf(MCKeys, 2) \ {<<>>}}

WalletDescs == {d \in AllDescs : check_wallet_descriptor(d) = "Ok"}

(* Evidence entries built from key k at index i.                          *)
Entries(k, i) ==
    LET last == IF k.wildcard = "None" THEN <<>> ELSE <<Normal(i)>>
        pk   == <<k.xkey, k.path \o last>>
    IN  { e \in {
            [kind |-> "honest",   key |-> pk,        fp |-> root_fingerprint(k), path |-> FullPath(k) \o last],
            [kind |-> "wrongkey", key |-> ForgedKey, fp |-> root_fingerprint(k), path |-> FullPath(k) \o last],
            [kind |-> "foreign",  key |-> ForgedKey, fp |-> root_fingerprint(k), path |-> <<Hardened(1), Normal(i)>>],
            [kind |-> "hardened", key |-> ForgedKey, fp |-> root_fingerprint(k), path |-> FullPath(k) \o <<Hardened(i)>>]
          } : e.kind \in EntryKinds }

Evidence(d) ==
    { [key |-> e.key, fp |-> e.fp, path |-> e.path] :
        e \in UNION {Entries(k, i) : k \in {x \in KeysOf(d) : IsXPub(x)}, i \in Idx} }

(* bip32_derivation and tap_key_origins are maps keyed by public key.     *)
KeyedSubsets(ev, n) ==
    {S \in UNION {kSubset(j, ev) : j \in 0..n} : \A a, b \in S : a.key = b.key => a = b}

(* Scripts a psbt::Input may carry: none, the descriptor's own at index  *)
(* 0, or another one.  Only read by the fallback, that is when the        *)
(* descriptor has no wildcard.                                            *)
ScriptChoices(d, own(_)) ==
    IF has_wildcard(d) THEN {NoneV}
    ELSE {NoneV, OtherScript, own(at_derivation_index(d, 0))}

MCInputs ==
    UNION { { [desc |-> d, hd |-> h, tap |-> t, utxo |-> u,
               redeem_script |-> r, witness_script |-> w] :
              h \in KeyedSubsets(Evidence(d), MaxHd),
              t \in KeyedSubsets(Evidence(d), 1),
              u \in ScriptChoices(d, script_pubkey),
              r \in ScriptChoices(d, explicit_script),
              w \in ScriptChoices(d, explicit_script) }
          : d \in WalletDescs }

MCInit == InitOn(MCInputs)
MCSpec == MCInit /\ [][Next]_vars /\ Fairness

MCFingerprint == [x \in {xa, xb, xc} |-> IF x = xa THEN f0 ELSE IF x = xb THEN f1 ELSE fc]

================================================================================
