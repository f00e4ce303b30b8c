--------------------------- MODULE KeyOriginMatcher ---------------------------
(***************************************************************************)
(* DescriptorMeta::derive_from_psbt_input and the functions it calls       *)
(* (src/wallet/src/descriptor/mod.rs): derive_from_hd_keypaths,            *)
(* derive_from_tap_key_origins, derive_from_psbt_key_origins with its      *)
(* verify_key closure, and the fixed-index fallback.                       *)
(*                                                                         *)
(* The call is a sequence of steps: converting an evidence map into the    *)
(* fingerprint-keyed key_origins map, one step per key that for_any_key    *)
(* hands to the closure (it stops at the first key for which the closure  *)
(* returns true), the final at_derivation_index, and the fallback.  A      *)
(* failing expect() is the outcome "panic".                                *)
(***************************************************************************)
EXTENDS Descriptors, FiniteSets

(***************************************************************************)
(* input: the descriptor and the psbt::Input fields read (constant during  *)
(* the call).  stage: which key-origin map is being searched.  key_origins *)
(* the BTreeMap<Fingerprint, (path, SinglePubKey)>; pos: the key the      *)
(* closure is called on next; path_found; result.                          *)
(***************************************************************************)
VARIABLES input, pc, stage, key_origins, pos, path_found, result
vars == <<input, pc, stage, key_origins, pos, path_found, result>>

(***************************************************************************)
(* The `.collect()` into a BTreeMap keyed by fingerprint: entries are      *)
(* visited in public-key order and a later entry with the same fingerprint *)
(* overwrites an earlier one.  The public-key order is not modelled, so    *)
(* the surviving entry of each fingerprint is any of them.                 *)
(***************************************************************************)
collect_by_fingerprint(ev) ==
    LET fps == {e.fp : e \in ev}
    IN  {m \in [fps -> ev] : \A f \in fps : m[f].fp = f}

(***************************************************************************)
(* DescriptorXKey::matches (rust-miniscript), called at mod.rs:478: the    *)
(* evidence path with its last step dropped when the key has a wildcard    *)
(* must equal the key's full path; it returns that prefix, or NoneV.       *)
(***************************************************************************)
(* Mutant: the wildcard step is not stripped from the evidence path.      *)
matches_keep_wildcard_step(k, e) ==
    IF root_fingerprint(k) = e.fp /\ FullPath(k) = e.path THEN e.path ELSE NoneV

matches(k, e) ==
    LET pex == IF k.wildcard # "None" /\ e.path # <<>> THEN Front(e.path) ELSE e.path
    IN  IF root_fingerprint(k) = e.fp /\ FullPath(k) = pex THEN pex ELSE NoneV

(***************************************************************************)
(* The closure of for_any_key (mod.rs:467-521) on key k: "skip" (return    *)
(* false), "found" with the index (path_found set, return true) or "panic" *)
(* (the expect of verify_key: derive_pub fails on a hardened step).        *)
(***************************************************************************)
Skip == [o |-> "skip", index |-> NoneV]
Found(i) == [o |-> "found", index |-> i]
Panic == [o |-> "panic", index |-> NoneV]

(* Mutant: the verify_key comparison is dropped; path agreement accepts.   *)
closure_no_verify(k, ko) ==
    LET fp     == root_fingerprint(k)
        e      == ko[fp]
        prefix == matches(k, e)
        dp     == SubSeq(e.path, Len(prefix) + 1, Len(e.path))
        derived == derive_pub(k.xkey, k.path \o dp)
    IN  CASE ~IsXPub(k) \/ fp \notin DOMAIN ko \/ prefix = NoneV -> Skip
          [] derived = NoneV -> Panic
          [] k.wildcard # "None" /\ Len(dp) = 1 /\ ~is_hardened(dp[1]) -> Found(dp[1].n)
          [] k.wildcard = "None" /\ dp = <<>> -> Found(0)
          [] OTHER -> Skip

(* Mutant: an off-by-one in the index taken from the child number.        *)
closure_index_off_by_one(k, ko) ==
    LET fp     == root_fingerprint(k)
        e      == ko[fp]
        prefix == matches(k, e)
        dp     == SubSeq(e.path, Len(prefix) + 1, Len(e.path))
        derived == derive_pub(k.xkey, k.path \o dp)
    IN  CASE ~IsXPub(k) \/ fp \notin DOMAIN ko \/ prefix = NoneV -> Skip
          [] derived = NoneV -> Panic
          [] derived # e.key -> Skip
          [] k.wildcard # "None" /\ Len(dp) = 1 /\ ~is_hardened(dp[1]) -> Found(dp[1].n + 1)
          [] k.wildcard = "None" /\ dp = <<>> -> Found(0)
          [] OTHER -> Skip

closure(k, ko) ==
    LET fp     == root_fingerprint(k)
        e      == ko[fp]
        prefix == matches(k, e)
        dp     == SubSeq(e.path, Len(prefix) + 1, Len(e.path))
        derived == derive_pub(k.xkey, k.path \o dp)
    IN  CASE ~IsXPub(k) \/ fp \notin DOMAIN ko \/ prefix = NoneV -> Skip
          [] derived = NoneV -> Panic
          [] derived # e.key -> Skip
          [] k.wildcard # "None" /\ Len(dp) = 1 /\ ~is_hardened(dp[1]) -> Found(dp[1].n)
          [] k.wildcard = "None" /\ dp = <<>> -> Found(0)
          [] OTHER -> Skip

(* The state on entry of the call, for any input of the set Inputs.        *)
InitOn(Inputs) ==
    /\ input \in Inputs
    /\ pc = "hd"
    /\ stage = "hd"
    /\ key_origins = <<>>
    /\ pos = 1
    /\ path_found = NoneV
    /\ result = Pending

(* derive_from_hd_keypaths / derive_from_tap_key_origins: build           *)
(* key_origins from the stage's evidence and start for_any_key.           *)
ConvertKeyOrigins ==
    /\ pc \in {"hd", "tap"}
    /\ \E m \in collect_by_fingerprint(IF pc = "hd" THEN input.hd ELSE input.tap) :
           key_origins' = m
    /\ stage' = pc
    /\ pc' = "visit"
    /\ pos' = 1
    /\ path_found' = NoneV
    /\ UNCHANGED <<input, result>>

(* Mutant: the closure returns false after setting path_found, so        *)
(* for_any_key goes on and a later match overwrites an earlier one.       *)
VisitKey_no_short_circuit ==
    /\ pc = "visit"
    /\ pos <= Len(input.desc.keys)
    /\ LET r == closure(input.desc.keys[pos], key_origins)
       IN  CASE r.o = "skip"  -> /\ pos' = pos + 1
                                 /\ UNCHANGED <<pc, path_found, result>>
             [] r.o = "found" -> /\ path_found' = r.index
                                 /\ pos' = pos + 1
                                 /\ UNCHANGED <<pc, result>>
             [] r.o = "panic" -> /\ result' = Panicked
                                 /\ pc' = "done"
                                 /\ UNCHANGED <<pos, path_found>>
    /\ UNCHANGED <<input, stage, key_origins>>

(* One call of the closure; for_any_key stops at the first true.          *)
VisitKey ==
    /\ pc = "visit"
    /\ pos <= Len(input.desc.keys)
    /\ LET r == closure(input.desc.keys[pos], key_origins)
       IN  CASE r.o = "skip"  -> /\ pos' = pos + 1
                                 /\ UNCHANGED <<pc, path_found, result>>
             [] r.o = "found" -> /\ path_found' = r.index
                                 /\ pc' = "finish"
                                 /\ UNCHANGED <<pos, result>>
             [] r.o = "panic" -> /\ result' = Panicked
                                 /\ pc' = "done"
                                 /\ UNCHANGED <<pos, path_found>>
    /\ UNCHANGED <<input, stage, key_origins>>

(* for_any_key ran out of keys without a match.                           *)
KeysExhausted ==
    /\ pc = "visit"
    /\ pos > Len(input.desc.keys)
    /\ pc' = "finish"
    /\ UNCHANGED <<input, stage, key_origins, pos, path_found, result>>

(* path_found.map(at_derivation_index), then the early return of          *)
(* derive_from_psbt_input on Some, or its next stage on None.             *)
FinishKeyOrigins ==
    /\ pc = "finish"
    /\ IF path_found = NoneV
       THEN /\ pc' = IF stage = "hd" THEN "tap" ELSE "fallback"
            /\ UNCHANGED result
       ELSE LET dd == at_derivation_index(input.desc, path_found)
            IN  /\ result' = IF dd = NoneV THEN Panicked ELSE Some(stage, dd)
                /\ pc' = "done"
    /\ UNCHANGED <<input, stage, key_origins, pos, path_found>>

(* The rest of derive_from_psbt_input: no brute force over a wildcard,    *)
(* else derive at index 0 and compare the scripts the type calls for.     *)
Fallback ==
    /\ pc = "fallback"
    /\ LET in == input
           dd == at_derivation_index(in.desc, 0)
       IN  result' =
             CASE has_wildcard(in.desc) -> Nothing
               [] dd = NoneV -> Panicked
               [] \/ dd.type \in {"Pkh", "Wpkh", "ShWpkh", "Tr"}
                     /\ in.utxo # NoneV /\ script_pubkey(dd) = in.utxo
                  \/ dd.type \in {"Bare", "Sh", "ShSortedMulti"}
                     /\ in.redeem_script # NoneV /\ explicit_script(dd) = in.redeem_script
                  \/ dd.type \in {"Wsh", "ShWsh", "ShWshSortedMulti", "WshSortedMulti"}
                     /\ in.witness_script # NoneV /\ explicit_script(dd) = in.witness_script
                  -> Some("fallback", dd)
               [] OTHER -> Nothing
    /\ pc' = "done"
    /\ UNCHANGED <<input, stage, key_origins, pos, path_found>>

Next ==
    \/ ConvertKeyOrigins
    \/ VisitKey
    \/ KeysExhausted
    \/ FinishKeyOrigins
    \/ Fallback

(* The call is sequential code: once entered, it keeps taking steps.      *)
Fairness == WF_vars(Next)

--------------------------------------------------------------------------------
(* Properties *)

(* Type invariant; a returned descriptor is the input descriptor's type   *)
(* with one definite key per key (at_derivation_index keeps the shape).    *)
TypeOK ==
    /\ pc \in {"hd", "tap", "visit", "finish", "fallback", "done"}
    /\ stage \in {"hd", "tap"}
    /\ pos \in 1..(Len(input.desc.keys) + 1)
    /\ path_found \in Idx \cup {0, NoneV}
    /\ result.tag \in {"pending", "panic", "none", "some"}
    /\ result.tag = "some" =>
          /\ result.via \in {"hd", "tap", "fallback"}
          /\ result.dd.type = input.desc.type
          /\ Len(result.dd.keys) = Len(input.desc.keys)

(***************************************************************************)
(* Soundness of a key-origin match (spec 3 and 4.3: "never accepted on     *)
(* path-matching alone"): when the call returns a descriptor found from    *)
(* key origins, some extended key of it, at the index chosen, is exactly   *)
(* the public key an evidence entry of that stage records, under that      *)
(* key's root fingerprint and along its full path.  Breaks if verify_key   *)
(* is skipped, or if the index is applied differently from how it was      *)
(* verified (a hardened wildcard that check_wallet_descriptor let pass).   *)
(***************************************************************************)
Evidenced(k, dk, e) ==
    /\ e.fp = root_fingerprint(k)
    /\ e.key = dk
    /\ e.path = (IF k.origin # NoneV THEN k.origin.path ELSE <<>>) \o dk[2]

MatchedKeyInEvidence ==
    (result.tag = "some" /\ result.via \in {"hd", "tap"}) =>
        \E p \in DOMAIN input.desc.keys :
            /\ IsXPub(input.desc.keys[p])
            /\ \E e \in (IF result.via = "hd" THEN input.hd ELSE input.tap) :
                   Evidenced(input.desc.keys[p], result.dd.keys[p], e)

(***************************************************************************)
(* Key k of the descriptor is proven by the PSBT input to be at index j:   *)
(* an evidence entry under k's root fingerprint records k's full path      *)
(* followed by normal step j, and the public key there.  The evidence is   *)
(* consistent with index i when it proves some wildcard key at i and none  *)
(* at any other index.                                                     *)
(***************************************************************************)
ProvenAt(k, j) ==
    \E e \in input.hd \cup input.tap :
        /\ e.fp = root_fingerprint(k)
        /\ e.path = FullPath(k) \o <<Normal(j)>>
        /\ e.key = <<k.xkey, k.path \o <<Normal(j)>>>>

WildcardXPubs == {k \in KeysOf(input.desc) : IsXPub(k) /\ k.wildcard = "Unhardened"}

ConsistentWith(i) ==
    /\ \E k \in WildcardXPubs : ProvenAt(k, i)
    /\ \A k \in WildcardXPubs, j \in Idx : ProvenAt(k, j) => j = i

OneEntryPerFingerprint(ev) == \A a, b \in ev : a.fp = b.fp => a = b

(***************************************************************************)
(* Completeness (spec 8, "Matcher completeness"): when the PSBT input      *)
(* proves the wallet's keys to be at one index i, and no two of its        *)
(* entries of a map share a fingerprint, the call finds a descriptor.      *)
(* It needs matches() to strip exactly the wildcard step and verify_key    *)
(* to re-derive along the key's own path plus that step.                   *)
(***************************************************************************)
HonestEvidenceFound ==
    (/\ pc = "done"
     /\ \E i \in Idx : ConsistentWith(i)
     /\ OneEntryPerFingerprint(input.hd) /\ OneEntryPerFingerprint(input.tap))
        => result.tag = "some"

(***************************************************************************)
(* Never a wrong index (spec 8, "Matcher soundness ... never a wrong       *)
(* index"; spec 3: recovery "yields exactly one index ... consistent with  *)
(* the supplied evidence"): when the evidence is consistent with index i,  *)
(* a returned descriptor is the wallet descriptor at index i.              *)
(***************************************************************************)
NoWrongIndex ==
    \A i \in Idx :
        (ConsistentWith(i) /\ result.tag = "some") =>
            result.dd = at_derivation_index(input.desc, i)

(* The call never aborts the process: every expect() holds.              *)
NoPanic == result # Panicked

Abs == INSTANCE KeyOriginSpec
           WITH result <- IF pc = "done" THEN result ELSE Pending

(***************************************************************************)
(* The step-by-step code implements the declarative contract of            *)
(* KeyOriginSpec (spec 4.3): the stages are tried HD, taproot, fallback,   *)
(* and the first stage that yields a descriptor decides; within a stage    *)
(* for_any_key stops at the first key in enumeration order whose evidence  *)
(* is accepted, and the code's acceptance (DescriptorXKey::matches, then   *)
(* verify_key, then the wildcard/length test) is the spec's prefix rule.   *)
(***************************************************************************)
Refinement == Abs!SafetySpec

================================================================================
