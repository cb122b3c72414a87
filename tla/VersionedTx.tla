---------------------------- MODULE VersionedTx ----------------------------
(***************************************************************************)
(* liq-execution's encoder of a v0 transaction for simulateTransaction     *)
(* (crates/liq-execution/src/vtx.rs).  An instruction is a record of its   *)
(* program and its account metas; its data, the blockhash and the zeroed   *)
(* signatures are copied through and left out, as is the length prefix of  *)
(* a vector.  The table's four groups come out of a HashMap, so their      *)
(* inner order is any order: an encoding is a set of possible results.     *)
(***************************************************************************)
EXTENDS Integers, Sequences, FiniteSets, SequencesExt

CONSTANTS KeyLimit   \* 256: the indices and the header's counts are u8

VtxError(e) == [err |-> e]

MetasOf(ixs) == UNION {ToSet(ixs[i].accounts) : i \in DOMAIN ixs}
ProgramsOf(ixs) == {ixs[i].program_id : i \in DOMAIN ixs}

\* Instructions of programs that neither sign nor pay.
IsPayable(ixs, fee_payer) ==
    /\ ixs \in Seq(ToSet(ixs))
    /\ \A i \in DOMAIN ixs : ixs[i].accounts \in Seq(ToSet(ixs[i].accounts))
    /\ \A m \in MetasOf(ixs) :
         /\ m.is_signer \in BOOLEAN /\ m.is_writable \in BOOLEAN
         /\ m.pubkey \in ProgramsOf(ixs) => ~m.is_signer
    /\ fee_payer \notin ProgramsOf(ixs)

\* Mutant: the last meta's flags stand, instead of their union.
KeyFlags_LastWins(fee_payer, ixs) ==
    LET metas == FlattenSeq([i \in DOMAIN ixs |-> ixs[i].accounts])
        keys == {m.pubkey : m \in ToSet(metas)} \cup ProgramsOf(ixs) \cup {fee_payer}
        last(k) == SelectLastInSeq(metas, LAMBDA m : m.pubkey = k)
    IN [k \in keys |->
          IF k = fee_payer THEN [is_signer |-> TRUE, is_writable |-> TRUE]
          ELSE IF last(k) = 0 THEN [is_signer |-> FALSE, is_writable |-> FALSE]
          ELSE [is_signer |-> metas[last(k)].is_signer, is_writable |-> metas[last(k)].is_writable]]

\* build_account_keys, flags: the fee payer is a writable signer, a meta adds its
\* flags to its key, a program id adds none.
KeyFlags(fee_payer, ixs) ==
    LET metas == MetasOf(ixs) \cup {[pubkey |-> fee_payer, is_signer |-> TRUE, is_writable |-> TRUE]}
        keys == {m.pubkey : m \in metas} \cup ProgramsOf(ixs)
    IN [k \in keys |->
          [is_signer |-> \E m \in metas : m.pubkey = k /\ m.is_signer,
           is_writable |-> \E m \in metas : m.pubkey = k /\ m.is_writable]]

\* build_account_keys, groups: every table it may return, with the header's counts.
BuildAccountKeys(fee_payer, ixs) ==
    LET flags == KeyFlags(fee_payer, ixs)
        group(s, w) == {k \in DOMAIN flags \ {fee_payer} :
                          flags[k] = [is_signer |-> s, is_writable |-> w]}
    IN {[keys |-> <<fee_payer>> \o ws \o rs \o wn \o rn,
         num_required_signatures |-> (1 + Len(ws) + Len(rs)) % KeyLimit,
         num_readonly_signed |-> Len(rs) % KeyLimit,
         num_readonly_unsigned |-> Len(rn) % KeyLimit] :
           ws \in SetToSeqs(group(TRUE, TRUE)), rs \in SetToSeqs(group(TRUE, FALSE)),
           wn \in SetToSeqs(group(FALSE, TRUE)), rn \in SetToSeqs(group(FALSE, FALSE))}

\* index_of.  Every key looked up is in the table, so MissingKey does not occur.
IndexOf(keys, k) == (SelectInSeq(keys, LAMBDA x : x = k) - 1) % KeyLimit

\* encode_versioned_tx_bytes: an error, or a message.  The table has one entry for
\* each flagged key.
EncodeVersionedTx(ixs, fee_payer) ==
    IF ixs = << >> THEN {VtxError("EmptyInstructions")}
    ELSE IF Cardinality(DOMAIN KeyFlags(fee_payer, ixs)) > KeyLimit
    THEN {VtxError("TooManyKeys")}
    ELSE {[err |-> "none", header |-> t,
           compiled |-> [i \in DOMAIN ixs |->
               [program |-> IndexOf(t.keys, ixs[i].program_id),
                accounts |-> [j \in DOMAIN ixs[i].accounts |->
                                 IndexOf(t.keys, ixs[i].accounts[j].pubkey)]]]] :
            t \in BuildAccountKeys(fee_payer, ixs)}

-----------------------------------------------------------------------------
(* How the runtime reads such a message: the privileges of a table entry   *)
(* follow from its index and the three counts alone.                       *)

SignerAt(h, i) == i < h.num_required_signatures
WritableAt(h, i) ==
    IF SignerAt(h, i) THEN i < h.num_required_signatures - h.num_readonly_signed
    ELSE i < Len(h.keys) - h.num_readonly_unsigned

\* The message read that way runs the same instructions on the same accounts, and
\* gives an account a privilege exactly if some meta (or paying the fee) asks it.
FaithfulMessage(msg, ixs, fee_payer) ==
    LET h == msg.header
        asked(k, f) == \E m \in MetasOf(ixs) : m.pubkey = k /\ m[f]
    IN /\ h.keys[1] = fee_payer
       /\ IsInjective(h.keys)
       /\ Len(msg.compiled) = Len(ixs)
       /\ \A i \in DOMAIN ixs :
            /\ h.keys[msg.compiled[i].program + 1] = ixs[i].program_id
            /\ Len(msg.compiled[i].accounts) = Len(ixs[i].accounts)
            /\ \A j \in DOMAIN ixs[i].accounts :
                 h.keys[msg.compiled[i].accounts[j] + 1] = ixs[i].accounts[j].pubkey
       /\ \A i \in 0..(Len(h.keys) - 1) : LET k == h.keys[i + 1] IN
            /\ SignerAt(h, i) <=> k = fee_payer \/ asked(k, "is_signer")
            /\ WritableAt(h, i) <=> k = fee_payer \/ asked(k, "is_writable")
=============================================================================
