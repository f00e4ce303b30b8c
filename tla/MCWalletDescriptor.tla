------------------------ MODULE MCWalletDescriptor ------------------------
(***************************************************************************)
(* Model-checking instances of WalletDescriptor.                           *)
(*                                                                         *)
(* MCTestSpec starts from the scenarios of the unit tests of               *)
(* src/wallet/src/descriptor/mod.rs (lines 611-974): each is the source,   *)
(* the network and the outcome the test asserts.  Keys and expressions    *)
(* are named by the start of their encoding in the test; to_string of a   *)
(* descriptor is the expression that parses to it.                        *)
(*                                                                         *)
(* MCSpec starts from every expression of the tests on every network, and *)
(* matches each wallet descriptor against PSBT inputs with evidence a     *)
(* signer would write (honest, or for a wrong key, or for another path).  *)
(***************************************************************************)
EXTENDS WalletDescriptor, TLC

CONSTANT ForgedKey   \* a public key no descriptor key derives

H(i) == Hardened(i)
N(i) == Normal(i)

TP == XKeyOf("XPub", "tprv8Zgx", NoneV, <<N(1), N(2)>>, "Unhardened", "Test")
TQ == XKeyOf("XPub", "tpubD6Nz", NoneV, <<N(1), N(2)>>, "Unhardened", "Test")
TH == XKeyOf("XPub", "tpubD6Nz", NoneV, <<H(0), N(1), N(2)>>, "Unhardened", "Test")
T0 == XKeyOf("XPub", "tpubD6Nz", NoneV, <<N(0)>>, "Unhardened", "Test")
MT == XKeyOf("MultiXPub", "tpubD6Nz", NoneV, <<>>, "Unhardened", "Test")
MO == XKeyOf("MultiXPub", "tpubDDnG", [fp |-> "9a6a2580", path |-> <<H(84), H(1), H(0)>>], <<>>, "Unhardened", "Test")
MX == XKeyOf("MultiXPub", "xpub6DEz", [fp |-> "9a6a2580", path |-> <<H(84), H(0), H(0)>>], <<>>, "Unhardened", "Main")
TX == XKeyOf("XPub", "xprv9s21", NoneV, <<N(0)>>, "Unhardened", "Main")
KP == XKeyOf("XPub", "tpubDDpW", [fp |-> "0f056943", path |-> <<H(44), H(0), H(0)>>], <<N(10)>>, "Unhardened", "Test")

(* The keys of the policy of src/wallet/examples/compiler.rs, in order.    *)
CompilerKeys == {"029ffbe7", "025f0581", "025625f4", "02a27c8b", "03e618ec", "03deae92", "03384104", "02aebf2d"}
CompilerKeyList == <<"029ffbe7", "025f0581", "025625f4", "02a27c8b", "03e618ec", "03deae92", "03384104", "02aebf2d">>

(* The wsh descriptor the example compiles its policy into (miniscript's   *)
(* compile, outside src/, keeps the policy's keys).                        *)
CompilerExpr == "wsh(compile(or(10@thresh(4,pk(029ffbe7),pk(025f0581),pk(025625f4),pk(02a27c8b),pk(03e618ec)),1@and(older(4209713),thresh(2,pk(03deae92),pk(03384104),pk(02aebf2d))))))"

(* The seven tpubs of test_sh_wsh_sortedmulti_redeemscript, in order.    *)
SortedMultiKeyList == <<"tpubDEsq", "tpubDF3c", "tpubDE1S", "tpubDFLc", "tpubDEWD", "tpubDEHy", "tpubDEqL">>
SortedMultiExpr == "sh(wsh(sortedmulti(3,tpubDEsq/0/*,tpubDF3c/0/*,tpubDE1S/0/*,tpubDFLc/0/*,tpubDEWD/0/*,tpubDEHy/0/*,tpubDEqL/0/*)))"

MCXKeys == {"tprv8Zgx", "tpubD6Nz", "tpubDDnG", "xpub6DEz", "xprv9s21", "tpubDDpW"}
               \cup {"tpubDEsq", "tpubDF3c", "tpubDE1S", "tpubDFLc", "tpubDEWD", "tpubDEHy", "tpubDEqL"}
MCFingerprint == [x \in MCXKeys |-> x]
MCFingerprints == MCXKeys \cup {"9a6a2580", "0f056943"}
MCSingleKeys == {"02b46320", "02864bb4", "03b6633f", "02140388"} \cup CompilerKeys

MCExprs ==
  {"wpkh(tprv8Zgx/1/2/*)", "wpkh(tpubD6Nz/1/2/*)", "sh(wpkh(02864bb4))",
   "wpkh(tpubD6Nz/0'/1/2/*)", "wpkh(tpubD6Nz/<0;1>/*)",
   "wsh(multi(2,tpubD6Nz/0/*,tpubD6Nz/0/*))", "wsh(multi(1,tpubD6Nz/1/2/*,tpubD6Nz/<0;1>/*))",
   "wpkh([9a6a2580/84'/1'/0']tpubDDnG/<0;1>/*)", "wpkh([9a6a2580/84'/0'/0']xpub6DEz/<0;1>/*)",
   "wpkh(02b46320)", "pkh([0f056943/44h/0h/0h]tpubDDpW/10/*)",
   "wsh(and_v(v:pk(03b6633f),older(6)))", "sh(and_v(v:pk(02140388),after(630000)))",
   "wpkh(tprv8Zgx/<0;1>/*)", CompilerExpr, SortedMultiExpr}

(* The expressions of the tests and what parse_descriptor makes of them.  *)
MCParse ==
  [ e \in MCExprs |->
    CASE e = "wpkh(tprv8Zgx/1/2/*)" ->
           [desc |-> Desc("Wpkh", <<TP>>), keymap |-> [p \in {TP} |-> SecretOf("XPrv", "tprv8Zgx", "Test")]]
      [] e = "wpkh(tpubD6Nz/1/2/*)" -> [desc |-> Desc("Wpkh", <<TQ>>), keymap |-> EmptyKeyMap]
      [] e = "sh(wpkh(02864bb4))" -> [desc |-> Desc("ShWpkh", <<SingleOf("02864bb4")>>), keymap |-> EmptyKeyMap]
      [] e = "wpkh(tpubD6Nz/0'/1/2/*)" -> [desc |-> Desc("Wpkh", <<TH>>), keymap |-> EmptyKeyMap]
      [] e = "wpkh(tpubD6Nz/<0;1>/*)" -> [desc |-> Desc("Wpkh", <<MT>>), keymap |-> EmptyKeyMap]
      [] e = "wsh(multi(2,tpubD6Nz/0/*,tpubD6Nz/0/*))" -> [desc |-> Desc("Wsh", <<T0, T0>>), keymap |-> EmptyKeyMap]
      [] e = "wsh(multi(1,tpubD6Nz/1/2/*,tpubD6Nz/<0;1>/*))" -> [desc |-> Desc("Wsh", <<TQ, MT>>), keymap |-> EmptyKeyMap]
      [] e = "wpkh([9a6a2580/84'/1'/0']tpubDDnG/<0;1>/*)" -> [desc |-> Desc("Wpkh", <<MO>>), keymap |-> EmptyKeyMap]
      [] e = "wpkh([9a6a2580/84'/0'/0']xpub6DEz/<0;1>/*)" -> [desc |-> Desc("Wpkh", <<MX>>), keymap |-> EmptyKeyMap]
      [] e = "wpkh(02b46320)" -> [desc |-> Desc("Wpkh", <<SingleOf("02b46320")>>), keymap |-> EmptyKeyMap]
      [] e = "pkh([0f056943/44h/0h/0h]tpubDDpW/10/*)" -> [desc |-> Desc("Pkh", <<KP>>), keymap |-> EmptyKeyMap]
      [] e = "wsh(and_v(v:pk(03b6633f),older(6)))" -> [desc |-> Desc("Wsh", <<SingleOf("03b6633f")>>), keymap |-> EmptyKeyMap]
      [] e = "sh(and_v(v:pk(02140388),after(630000)))" -> [desc |-> Desc("Sh", <<SingleOf("02140388")>>), keymap |-> EmptyKeyMap]
      [] e = SortedMultiExpr ->
           [desc |-> Desc("ShWshSortedMulti",
                          [i \in 1..7 |-> XKeyOf("XPub", SortedMultiKeyList[i], NoneV, <<N(0)>>, "Unhardened", "Test")]),
            keymap |-> EmptyKeyMap]
      [] e = CompilerExpr ->
           [desc |-> Desc("Wsh", [i \in DOMAIN CompilerKeyList |-> SingleOf(CompilerKeyList[i])]), keymap |-> EmptyKeyMap]
      \* "Miniscript can't make an extended private key with multiple paths into a public key"
      [] e = "wpkh(tprv8Zgx/<0;1>/*)" -> NoneV ]

Str(e, cs) == [src |-> "str", expr |-> e, cs |-> cs]
Template(d, km, nets) == [src |-> "template", desc |-> d, keymap |-> km, networks |-> nets]
TestNetworks == {n \in Networks : Canon!NetworkKind(n) = "Test"}

(* A test scenario: what into_wallet_descriptor returns ("ok" or the      *)
(* error), what check_wallet_descriptor returns ("any" when not called,   *)
(* "err" for any error), whether derive_from_psbt_input finds a match, and *)
(* the extra assertion of the test.                                        *)
Scn(src, net, canon, check, match, also) ==
    [source |-> src, network |-> net, canon |-> canon, check |-> check,
     match |-> match, also |-> also]
Ok1(src, net) == Scn(src, net, "ok", "any", "any", "none")

(* The result of test_to_wallet_descriptor_fixup_networks' template:      *)
(* TX overridden to any network, with its xprv in the key map.            *)
FixupTemplate ==
    Template(Desc("Wpkh", <<TX>>), [p \in {TX} |-> SecretOf("XPrv", "xprv9s21", "Main")], Networks)

test_derive_from_psbt_input ==
    {Scn(Str(e, NoneV), "testnet", "ok", "Ok", "some", "none") :
        e \in {"wpkh(02b46320)", "pkh([0f056943/44h/0h/0h]tpubDDpW/10/*)",
               "wsh(and_v(v:pk(03b6633f),older(6)))", "sh(and_v(v:pk(02140388),after(630000)))"}}

test_to_wallet_descriptor_fixup_networks ==
    {Scn(FixupTemplate, "testnet", "ok", "any", "any", "fixup")}

test_descriptor_from_str_with_checksum ==
    UNION {{Ok1(Str(e, cs), "testnet") : cs \in {NoneV, Canon!calc_checksum(e)}} :
              e \in {"wpkh(tprv8Zgx/1/2/*)", "wpkh(tpubD6Nz/1/2/*)"}}
    \cup {Scn(Str("wpkh(tprv8Zgx/1/2/*)", Canon!calc_checksum("wpkh(tpubD6Nz/1/2/*)")), "testnet",
              "InvalidDescriptorChecksum", "any", "any", "none")}

test_descriptor_from_str_with_keys_network ==
    {Ok1(Str(e, NoneV), n) : e \in {"wpkh(tprv8Zgx/1/2/*)", "wpkh(tpubD6Nz/1/2/*)"}, n \in TestNetworks}
    \cup {Ok1(Str("sh(wpkh(02864bb4))", NoneV), n) : n \in {"testnet", "bitcoin"}}
    \cup {Scn(Str(e, NoneV), "bitcoin", "InvalidNetwork", "any", "any", "none") :
              e \in {"wpkh(tprv8Zgx/1/2/*)", "wpkh(tpubD6Nz/1/2/*)"}}

test_descriptor_from_str_from_output_of_macro ==
    {Scn(Template(Desc("Wpkh", <<TQ>>), EmptyKeyMap, TestNetworks), "testnet", "ok", "any", "any", "roundtrip")}

test_check_wallet_descriptor ==
    {Scn(Str("wpkh(tpubD6Nz/0'/1/2/*)", NoneV), "testnet", "ok", "HardenedDerivationXpub", "any", "none"),
     Scn(Str("wpkh(tpubD6Nz/<0;1>/*)", NoneV), "testnet", "ok", "BadDescriptor", "any", "none"),
     Scn(Str("wsh(multi(2,tpubD6Nz/0/*,tpubD6Nz/0/*))", NoneV), "testnet", "ok", "err", "any", "none")}

test_into_wallet_descriptor_multi ==
    {Scn(Str("wpkh([9a6a2580/84'/1'/0']tpubDDnG/<0;1>/*)", NoneV), "testnet", "ok", "any", "any", "multipath"),
     Scn(Str("wpkh([9a6a2580/84'/0'/0']xpub6DEz/<0;1>/*)", NoneV), "testnet", "InvalidNetwork", "any", "any", "none"),
     Scn(Str("wpkh([9a6a2580/84'/0'/0']xpub6DEz/<0;1>/*)", NoneV), "bitcoin", "ok", "any", "any", "multipath"),
     Scn(Str("wpkh(tprv8Zgx/<0;1>/*)", NoneV), "testnet", "Miniscript", "any", "any", "none")}

(* mod.rs:907-919: the sortedmulti descriptor canonicalises on testnet,   *)
(* passes check_wallet_descriptor and derives at index 0.  The script     *)
(* bytes the test then compares are miniscript's.                         *)
test_sh_wsh_sortedmulti_redeemscript ==
    {Scn(Str(SortedMultiExpr, NoneV), "testnet", "ok", "Ok", "any", "derivable")}

(* compiler.rs:55-62: the compiled descriptor's to_string (with its       *)
(* checksum) is given as a String to Wallet::create_single on regtest;      *)
(* create_wallet_no_persist()? canonicalises and checks it, and the        *)
(* example expects to go on to derive an address.                          *)
compiler_example ==
    {Scn([src |-> "String", expr |-> CompilerExpr, cs |-> Canon!calc_checksum(CompilerExpr)],
         "regtest", "ok", "Ok", "any", "none")}

UnitTests ==
    test_derive_from_psbt_input \cup test_to_wallet_descriptor_fixup_networks
    \cup test_descriptor_from_str_with_checksum \cup test_descriptor_from_str_with_keys_network
    \cup test_descriptor_from_str_from_output_of_macro \cup test_check_wallet_descriptor
    \cup test_into_wallet_descriptor_multi \cup test_sh_wsh_sortedmulti_redeemscript
    \cup compiler_example

(* The PSBT inputs of the test_derive_from_psbt_input_* tests: the utxo,  *)
(* the bip32_derivation entry, the witness or the redeem script each one  *)
(* carries.                                                                *)
TestPsbt(d) ==
    LET dd == at_derivation_index(d, 0)
        In(hd, u, r, w) == [desc |-> d, hd |-> hd, tap |-> {}, utxo |-> u,
                            redeem_script |-> r, witness_script |-> w]
    IN  CASE d = MCParse["wpkh(02b46320)"].desc -> {In({}, script_pubkey(dd), NoneV, NoneV)}
          [] d = MCParse["pkh([0f056943/44h/0h/0h]tpubDDpW/10/*)"].desc ->
                {In({[key |-> <<"tpubDDpW", <<N(10), N(0)>>>>, fp |-> "0f056943",
                      path |-> <<H(44), H(0), H(0), N(10), N(0)>>]}, NoneV, NoneV, NoneV)}
          [] d = MCParse["wsh(and_v(v:pk(03b6633f),older(6)))"].desc ->
                {In({}, NoneV, NoneV, explicit_script(dd))}
          [] d = MCParse["sh(and_v(v:pk(02140388),after(630000)))"].desc ->
                {In({}, NoneV, explicit_script(dd), NoneV)}
          [] OTHER -> {}

(* Evidence a signer writes for the extended keys of d at index 0 or 1:   *)
(* honest, for a wrong public key, or for another path under the key's    *)
(* fingerprint; and the descriptor's own scripts or none.                 *)
HonestPsbt(d) ==
    LET LastStep(k, i) == IF k.wildcard = "None" THEN <<>> ELSE <<N(i)>>
        entries == UNION {{[key |-> <<k.xkey, k.path \o LastStep(k, i)>>, fp |-> root_fingerprint(k), path |-> FullPath(k) \o LastStep(k, i)],
                           [key |-> ForgedKey, fp |-> root_fingerprint(k), path |-> FullPath(k) \o LastStep(k, i)],
                           [key |-> ForgedKey, fp |-> root_fingerprint(k), path |-> <<H(1), N(i)>>]}
                          : k \in {x \in KeysOf(d) : IsXPub(x)}, i \in {0, 1}}
        dd == at_derivation_index(d, 0)
        scripts(own) == IF dd = NoneV THEN {NoneV} ELSE {NoneV, own}
    IN  [desc : {d}, hd : {{}} \cup {{e} : e \in entries}, tap : {{}} \cup {{e} : e \in entries},
         utxo : scripts(script_pubkey(dd)), redeem_script : scripts(explicit_script(dd)),
         witness_script : scripts(explicit_script(dd))]

MCTestInit == InitOn({t.source : t \in UnitTests})
MCTestSpec == MCTestInit /\ [][Next]_vars /\ Fairness

MCInit ==
    \* SortedMultiExpr is left out: HonestPsbt over its seven keys is too large.
    InitOn({Str(e, NoneV) : e \in MCExprs \ {SortedMultiExpr}}
           \cup {FixupTemplate, Template(Desc("Wpkh", <<TQ>>), EmptyKeyMap, TestNetworks)})
MCSpec == MCInit /\ [][Next]_vars /\ Fairness

(***************************************************************************)
(* The model gives every unit test of mod.rs the outcome the test asserts: *)
(* the canonical result or error, the validator's verdict, the matcher's   *)
(* match, that a multipath descriptor stays multipath, that the template   *)
(* fixup retargets the xpub and its xprv together (mod.rs:734-775), and    *)
(* that a macro-built descriptor equals the parse of its to_string         *)
(* (mod.rs:849-870).                                                       *)
(***************************************************************************)
Outcome(t) ==
    /\ IF t.canon = "ok" THEN c_result.tag = "ok" ELSE c_result = Canon!Err(t.canon)
    /\ t.check = "err" => verdict \notin {"Ok", "unchecked"}
    /\ t.check \notin {"any", "err"} => verdict = t.check
    /\ t.match = "some" => m_result.tag = "some"
    /\ t.also = "multipath" => is_multipath(c_result.desc)
    /\ t.also = "derivable" => at_derivation_index(c_result.desc, 0) # NoneV
    /\ t.also = "roundtrip" => c_result.desc = MCParse["wpkh(tpubD6Nz/1/2/*)"].desc
    /\ t.also = "fixup" =>
          LET pub == [TX EXCEPT !.net = "Test"]
          IN  /\ c_result.desc = Desc("Wpkh", <<pub>>)
              /\ pub \in DOMAIN c_result.keymap
              /\ c_result.keymap[pub] = SecretOf("XPrv", "xprv9s21", "Test")

AgreesWithUnitTests ==
    \A t \in UnitTests :
        (phase = "done" /\ c_source = t.source /\ c_network = t.network) => Outcome(t)

================================================================================
