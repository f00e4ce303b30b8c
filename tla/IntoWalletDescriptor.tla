------------------------ MODULE IntoWalletDescriptor ------------------------
(***************************************************************************)
(* The implementations of IntoWalletDescriptor (src/wallet/src/descriptor/ *)
(* mod.rs:75-291): each impl is one action, and an impl that delegates to  *)
(* another (String -> &str -> (descriptor, KeyMap), ExtendedDescriptor ->  *)
(* (descriptor, KeyMap)) hands the call on by setting pc.  The parser, the *)
(* checksum and the key-network sets of the keys module are not under src/ *)
(* and are modelled from the spec: parsing is a table from expressions to  *)
(* (descriptor, KeyMap), the checksum a function of the expression.        *)
(***************************************************************************)
EXTENDS Descriptors, FiniteSets

CONSTANTS
    Networks,      \* bitcoin::Network values that occur
    Exprs,         \* descriptor expressions (the text before '#')
    InvalidChars,  \* the expressions holding a character outside the charset
    ParseResult,   \* Exprs -> [desc, keymap] or NoneV: parse_descriptor
    WrongChecksum  \* a checksum suffix that is no expression's checksum

ASSUME "bitcoin" \in Networks /\ InvalidChars \subseteq Exprs

(* Network -> NetworkKind (the `network.into()` of the code).              *)
NetworkKind(n) == IF n = "bitcoin" THEN "Main" ELSE "Test"

(* The valid networks IntoDescriptorKey gives a public key: any network    *)
(* for a single key, else those of the extended key's NetworkKind.        *)
ValidNetworks(k) ==
    IF k.kind = "Single" THEN Networks
    ELSE {n \in Networks : NetworkKind(n) = k.net}

(* calc_checksum: the checksum of the expression, or NoneV for its error   *)
(* InvalidDescriptorCharacter.                                             *)
calc_checksum(e) == IF e \in InvalidChars THEN NoneV ELSE <<"checksum", e>>

Err(e)     == [tag |-> "err", err |-> e]
Ok(d, km)  == [tag |-> "ok", desc |-> d, keymap |-> km]

VARIABLES source, network, pc, desc, keymap, result
vars == <<source, network, pc, desc, keymap, result>>

(* The call ends with an error; the descriptor and key map are dropped.   *)
Fail(e) ==
    /\ result' = Err(e)
    /\ pc' = "done"
    /\ UNCHANGED <<desc, keymap>>

(* The entry point of each source: the impl the caller's type selects.     *)
EntryOf(s) == s.src

InitOn(Sources) ==
    /\ source \in Sources
    /\ network \in Networks
    /\ pc = EntryOf(source)
    /\ desc = IF source.src \in {"descriptor", "pair", "template"} THEN source.desc ELSE NoneV
    /\ keymap = IF source.src \in {"pair", "template"} THEN source.keymap ELSE EmptyKeyMap
    /\ result = Pending

(* impl for String and &String: self.as_str().into_wallet_descriptor.     *)
IntoFromString ==
    /\ pc = "String"
    /\ pc' = "str"
    /\ UNCHANGED <<source, network, desc, keymap, result>>

(* Mutant: the expression is parsed before its checksum is checked.        *)
IntoFromStr_parse_first ==
    /\ pc = "str"
    /\ LET cs     == calc_checksum(source.expr)
           parsed == ParseResult[source.expr]
       IN  CASE parsed = NoneV                      -> Fail("Miniscript")
             [] source.cs # NoneV /\ cs = NoneV    -> Fail("InvalidDescriptorCharacter")
             [] source.cs # NoneV /\ source.cs # cs -> Fail("InvalidDescriptorChecksum")
             [] OTHER -> /\ pc' = "pair"
                         /\ desc' = parsed.desc
                         /\ keymap' = parsed.keymap
                         /\ UNCHANGED result
    /\ UNCHANGED <<source, network>>

(* impl for &str: split at the first '#', check the checksum of the part   *)
(* before it, parse, and hand the (descriptor, KeyMap) pair on.           *)
IntoFromStr ==
    /\ pc = "str"
    /\ LET cs     == calc_checksum(source.expr)
           parsed == ParseResult[source.expr]
       IN  CASE source.cs # NoneV /\ cs = NoneV    -> Fail("InvalidDescriptorCharacter")
             [] source.cs # NoneV /\ source.cs # cs -> Fail("InvalidDescriptorChecksum")
             [] parsed = NoneV                      -> Fail("Miniscript")
             [] OTHER -> /\ pc' = "pair"
                         /\ desc' = parsed.desc
                         /\ keymap' = parsed.keymap
                         /\ UNCHANGED result
    /\ UNCHANGED <<source, network>>

(* impl for ExtendedDescriptor: (self, KeyMap::default()).                 *)
IntoFromDescriptor ==
    /\ pc = "descriptor"
    /\ pc' = "pair"
    /\ keymap' = EmptyKeyMap
    /\ UNCHANGED <<source, network, desc, result>>

(* Mutant: only single-path extended keys are checked.                    *)
key_networks_ok_xpub_only(d, n) ==
    \A k \in KeysOf(d) : k.kind = "XPub" => n \in ValidNetworks(k)

(* Translator::pk of the pair impl, over every key of the descriptor: the  *)
(* target network must be one of the key's valid networks.  The key map is *)
(* not looked at.                                                          *)
key_networks_ok(d, n) == \A k \in KeysOf(d) : n \in ValidNetworks(k)

IntoFromPair ==
    /\ pc = "pair"
    /\ IF key_networks_ok(desc, network)
       THEN /\ result' = Ok(desc, keymap)
            /\ pc' = "done"
            /\ UNCHANGED <<desc, keymap>>
       ELSE Fail("InvalidNetwork")
    /\ UNCHANGED <<source, network>>

(* The template Translator::pk: an XPub gets the target NetworkKind, every *)
(* other key (MultiXPub, Single) is cloned unchanged.                      *)
retarget_key(k, n) == IF k.kind = "XPub" THEN [k EXCEPT !.net = NetworkKind(n)] ELSE k

retarget(d, n) == [d EXCEPT !.keys = [p \in DOMAIN d.keys |-> retarget_key(d.keys[p], n)]]

(* Mutant: only the secret side of an (XPub, XPrv) entry is retargeted.   *)
fixup_entry_xprv_only(p, s, n) ==
    CASE p.kind = "XPub" /\ s.kind = "XPrv" -> <<p, [s EXCEPT !.net = NetworkKind(n)]>>
      [] s.kind = "Single" -> <<p, [s EXCEPT !.net = NetworkKind(n)]>>
      [] OTHER -> <<p, s>>

(* The key map fixup: an (XPub, XPrv) entry has both sides retargeted, a   *)
(* Single secret key is retargeted, any other entry is kept as it is.      *)
fixup_entry(p, s, n) ==
    CASE p.kind = "XPub" /\ s.kind = "XPrv" ->
             <<[p EXCEPT !.net = NetworkKind(n)], [s EXCEPT !.net = NetworkKind(n)]>>
      [] s.kind = "Single" -> <<p, [s EXCEPT !.net = NetworkKind(n)]>>
      [] OTHER -> <<p, s>>

(* `.collect()` into a KeyMap: entries whose public keys became equal keep *)
(* one of their secrets.                                                   *)
collect_keymap(km, n) ==
    LET pairs == {fixup_entry(p, km[p], n) : p \in DOMAIN km}
    IN  {f \in [{e[1] : e \in pairs} -> {e[2] : e \in pairs}] :
            \A q \in DOMAIN f : <<q, f[q]>> \in pairs}

(* impl for DescriptorTemplateOut (desc, keymap, networks).                *)
IntoFromTemplate ==
    /\ pc = "template"
    /\ IF network \notin source.networks
       THEN Fail("InvalidNetwork")
       ELSE /\ \E km \in collect_keymap(keymap, network) :
                   result' = Ok(retarget(desc, network), km)
            /\ pc' = "done"
            /\ UNCHANGED <<desc, keymap>>
    /\ UNCHANGED <<source, network>>

Next ==
    \/ IntoFromString
    \/ IntoFromStr
    \/ IntoFromDescriptor
    \/ IntoFromPair
    \/ IntoFromTemplate

(* A call runs to its end once started.                                    *)
Fairness == WF_vars(Next)

--------------------------------------------------------------------------------
(* Properties *)

Extended(k) == k.kind \in {"XPub", "MultiXPub"}

(***************************************************************************)
(* A text whose '#' suffix is not the checksum of the expression before it *)
(* is refused at the checksum, before the expression is parsed or its keys *)
(* are looked at (spec 8, scenario d), whatever the expression is.         *)
(***************************************************************************)
BadChecksum ==
    /\ source.src \in {"str", "String"}
    /\ source.cs \notin {NoneV, calc_checksum(source.expr)}

ChecksumGuardsParse ==
    BadChecksum =>
        result \in {Pending, Err("InvalidDescriptorChecksum"), Err("InvalidDescriptorCharacter")}

(***************************************************************************)
(* Spec 8, "Checksum sensitivity": a mismatched checksum always yields     *)
(* InvalidDescriptorChecksum, regardless of whether the expression is      *)
(* valid.                                                                  *)
(***************************************************************************)
ChecksumMismatchReported ==
    BadChecksum => result \in {Pending, Err("InvalidDescriptorChecksum")}

(***************************************************************************)
(* The key map stays the key map of the descriptor (spec 3, "the two       *)
(* travel together and must remain mutually consistent"; spec 4.1: the     *)
(* template path rewrites secret keys "so public/secret pairs stay         *)
(* consistent"): if every public key of the key map is a key of the        *)
(* descriptor and agrees with its extended private key on the network, the *)
(* same holds of the pair the call returns.                                *)
(***************************************************************************)
Consistent(d, km) ==
    \A p \in DOMAIN km :
        /\ p \in KeysOf(d)
        /\ km[p].kind = "XPrv" => p.net = km[p].net

KeyMapMatchesDescriptor ==
    (result.tag = "ok" /\ Consistent(desc, keymap)) => Consistent(result.desc, result.keymap)

(***************************************************************************)
(* Spec 3: a canonical pair is bound to one network, and every extended    *)
(* key inside lists that network among its valid set, whichever impl      *)
(* produced it.                                                            *)
(***************************************************************************)
NetworkBound ==
    result.tag = "ok" =>
        \A k \in KeysOf(result.desc) : Extended(k) => network \in ValidNetworks(k)

(***************************************************************************)
(* Spec 4.1, pair impl: private keys carry an explicit network, and the    *)
(* call fails with InvalidNetwork when the target network is not one a key *)
(* is valid for.  So every secret key of a returned key map is for the    *)
(* wallet's network.  The Translator of the pair impl (mod.rs:151-173)     *)
(* only sees the descriptor's public keys, and a single public key is      *)
(* valid on any network.                                                   *)
(***************************************************************************)
SecretKeysOnNetwork ==
    result.tag = "ok" =>
        \A p \in DOMAIN result.keymap : result.keymap[p].net = NetworkKind(network)

================================================================================
