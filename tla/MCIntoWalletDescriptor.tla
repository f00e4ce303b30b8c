----------------------- MODULE MCIntoWalletDescriptor -----------------------
(***************************************************************************)
(* Model-checking instance of IntoWalletDescriptor.  Keys: a mainnet and a *)
(* testnet xpub with their xprvs, a mainnet multipath xpub with its xprv,  *)
(* and a single key with its WIF secret.  Sources: texts with no, the      *)
(* right or a wrong checksum; descriptors; (descriptor, KeyMap) pairs with *)
(* the key map parse_descriptor would build; and templates carrying either *)
(* the networks of their keys or any network (a bip39-derived key, as in   *)
(* test_to_wallet_descriptor_fixup_networks).                              *)
(***************************************************************************)
EXTENDS IntoWalletDescriptor, TLC

CONSTANTS
    xa, xb, xm, s1,           \* key material
    e_tprv, e_xpub, e_bad, e_char, \* expressions
    TemplateKinds             \* key kinds a template may hold

XM == XKeyOf("XPub", xa, NoneV, <<>>, "Unhardened", "Main")
XT == XKeyOf("XPub", xb, NoneV, <<>>, "Unhardened", "Test")
MM == XKeyOf("MultiXPub", xm, NoneV, <<>>, "Unhardened", "Main")
S1 == SingleOf(s1)

(* The secret key a public key was made from.                              *)
SecretFor ==
    [k \in {XM, XT, MM, S1} |->
        CASE k = XM -> SecretOf("XPrv", xa, "Main")
          [] k = XT -> SecretOf("XPrv", xb, "Test")
          [] k = MM -> SecretOf("MultiXPrv", xm, "Main")
          [] k = S1 -> SecretOf("Single", s1, "Main")]

MCDescs ==
    {Desc("Wpkh", <<k>>) : k \in {XM, XT, MM, S1}}
    \cup {Desc("Wsh", <<XT, k>>) : k \in {XM, MM, S1}}

(* The key maps a parsed descriptor can come with: the secrets of some of  *)
(* its keys.                                                               *)
KeyMapsOf(d) == {[p \in ks |-> SecretFor[p]] : ks \in SUBSET KeysOf(d)}

MCParse ==
    [e \in {e_tprv, e_xpub, e_bad, e_char} |->
        CASE e = e_tprv -> [desc |-> Desc("Wpkh", <<XT>>), keymap |-> [p \in {XT} |-> SecretFor[XT]]]
          [] e = e_xpub -> [desc |-> Desc("Wpkh", <<XM>>), keymap |-> EmptyKeyMap]
          [] OTHER      -> NoneV]

Texts ==
    [src : {"str", "String"}, expr : Exprs,
     cs : {NoneV, WrongChecksum} \cup {calc_checksum(e) : e \in Exprs \ InvalidChars}]

MCSources ==
    Texts
    \cup [src : {"descriptor"}, desc : MCDescs]
    \cup UNION {[src : {"pair"}, desc : {d}, keymap : KeyMapsOf(d)] : d \in MCDescs}
    \cup UNION {[src : {"template"}, desc : {d}, keymap : KeyMapsOf(d),
                 networks : {Networks} \cup {{n \in Networks : \A k \in KeysOf(d) : n \in ValidNetworks(k)}}]
                : d \in {x \in MCDescs : \A k \in KeysOf(x) : k.kind \in TemplateKinds}}

(* Fingerprints play no part in canonicalisation.                         *)
MCFingerprint == [x \in {xa, xb, xm} |-> "fp"]

MCInit == InitOn(MCSources)
MCSpec == MCInit /\ [][Next]_vars /\ Fairness

================================================================================
