------------------------- MODULE WalletDescriptor -------------------------
(***************************************************************************)
(* The descriptor core as a wallet uses it: a source is canonicalised by   *)
(* into_wallet_descriptor, the canonical descriptor is checked by          *)
(* check_wallet_descriptor, and a descriptor that passes is the one later  *)
(* matched against PSBT inputs by derive_from_psbt_input.  The three parts *)
(* are the modules IntoWalletDescriptor, CheckWalletDescriptor and         *)
(* KeyOriginMatcher; this module only sequences them (the wallet builder   *)
(* and signer that do so are outside src/ and follow spec 2).              *)
(***************************************************************************)
EXTENDS CheckWalletDescriptor

CONSTANTS
    Networks, Exprs, InvalidChars, ParseResult, WrongChecksum,
    PsbtInputs(_)   \* the psbt::Input values a wallet may meet for a descriptor

VARIABLES
    c_source, c_network, c_pc, c_desc, c_keymap, c_result,   \* canonicaliser
    verdict,                                                  \* check_wallet_descriptor
    m_input, m_pc, m_stage, m_key_origins, m_pos, m_path_found, m_result, \* matcher
    phase

canon_vars   == <<c_source, c_network, c_pc, c_desc, c_keymap, c_result>>
matcher_vars == <<m_input, m_pc, m_stage, m_key_origins, m_pos, m_path_found, m_result>>
vars == <<canon_vars, verdict, matcher_vars, phase>>

Canon == INSTANCE IntoWalletDescriptor
            WITH source <- c_source, network <- c_network, pc <- c_pc,
                 desc <- c_desc, keymap <- c_keymap, result <- c_result

Matcher == INSTANCE KeyOriginMatcher
            WITH input <- m_input, pc <- m_pc, stage <- m_stage,
                 key_origins <- m_key_origins, pos <- m_pos,
                 path_found <- m_path_found, result <- m_result

(* Before the matcher is called: no input, no result.                     *)
MatcherIdle ==
    /\ m_input = NoneV /\ m_pc = "idle" /\ m_stage = "hd" /\ m_key_origins = <<>>
    /\ m_pos = 1 /\ m_path_found = NoneV /\ m_result = Pending

InitOn(Sources) ==
    /\ Canon!InitOn(Sources)
    /\ verdict = "unchecked"
    /\ MatcherIdle
    /\ phase = "canon"

(* One step of into_wallet_descriptor.                                    *)
CanonStep ==
    /\ phase = "canon"
    /\ Canon!Next
    /\ UNCHANGED <<verdict, matcher_vars, phase>>

(* Mutant: the canonical descriptor is used whatever the validator says.  *)
Validate_skip_check ==
    /\ phase = "canon" /\ c_pc = "done"
    /\ IF c_result.tag = "ok"
       THEN /\ verdict' = check_wallet_descriptor(c_result.desc)
            /\ phase' = "wallet"
       ELSE /\ phase' = "done"
            /\ UNCHANGED verdict
    /\ UNCHANGED <<canon_vars, matcher_vars>>

(* The wallet takes the canonical descriptor only if it passes            *)
(* check_wallet_descriptor; an error of either call ends the creation.    *)
Validate ==
    /\ phase = "canon" /\ c_pc = "done"
    /\ IF c_result.tag = "ok"
       THEN /\ verdict' = check_wallet_descriptor(c_result.desc)
            /\ phase' = IF verdict' = "Ok" THEN "wallet" ELSE "done"
       ELSE /\ phase' = "done"
            /\ UNCHANGED verdict
    /\ UNCHANGED <<canon_vars, matcher_vars>>

(* The wallet meets a PSBT input and calls derive_from_psbt_input with    *)
(* its descriptor.                                                        *)
StartMatch ==
    /\ phase = "wallet"
    /\ \E in \in PsbtInputs(c_result.desc) :
          /\ m_input' = in
          /\ m_pc' = "hd" /\ m_stage' = "hd" /\ m_key_origins' = <<>>
          /\ m_pos' = 1 /\ m_path_found' = NoneV /\ m_result' = Pending
    /\ phase' = "match"
    /\ UNCHANGED <<canon_vars, verdict>>

(* A wallet without PSBT inputs to look at is done.                       *)
NoPsbt ==
    /\ phase = "wallet" /\ PsbtInputs(c_result.desc) = {}
    /\ phase' = "done"
    /\ UNCHANGED <<canon_vars, verdict, matcher_vars>>

(* One step of derive_from_psbt_input; its return ends the run.           *)
MatchStep ==
    /\ phase = "match"
    /\ Matcher!Next
    /\ phase' = IF m_pc' = "done" THEN "done" ELSE "match"
    /\ UNCHANGED <<canon_vars, verdict>>

Next == CanonStep \/ Validate \/ StartMatch \/ NoPsbt \/ MatchStep

(* Each call is sequential code that runs to its return.                  *)
Fairness == WF_vars(Next)

--------------------------------------------------------------------------------
(* Properties *)

(* Type invariant of the sequencing. *)
TypeOK ==
    /\ phase \in {"canon", "wallet", "match", "done"}
    /\ verdict \in {"unchecked", "Ok", "HardenedDerivationXpub", "BadDescriptor", "SanityCheck"}
    /\ phase \in {"wallet", "match"} => verdict = "Ok"
    /\ phase = "match" => m_input.desc = c_result.desc

================================================================================
