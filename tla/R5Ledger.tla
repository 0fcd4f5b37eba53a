------------------------------ MODULE R5Ledger ------------------------------
(***************************************************************************)
(* The tamper-evident ledger of the hardened R5 server, as operators:      *)
(* entries chained by hash, epochs of EPOCH_SIZE entries sealed by a       *)
(* Merkle root, and what a restarted process rebuilds from the JSONL file. *)
(* A digest is abstracted to what was hashed: an entry's digest is the     *)
(* triple of its unique id and the override fields that were fed to the    *)
(* hash (every other field is a function of the id), a Merkle node's is    *)
(* the pair of its children.  GENESIS_HASH is the empty tuple.             *)
(***************************************************************************)
EXTENDS Integers, Sequences, SequencesExt, FiniteSets

CONSTANTS EPOCH_SIZE,  \* entries per Merkle epoch (100 in the code)
          Modes        \* the operating modes

ASSUME EpochSizeAssumption == EPOCH_SIZE \in Nat /\ EPOCH_SIZE >= 2

GENESIS_HASH == << >>
NoMode == "None"
NoOverride == 0

(***************************************************************************)
(* Merkle trees over leaf digests.                                         *)
(***************************************************************************)

\* A level of odd length is completed with a copy of its last node.
Even(level) == IF Len(level) % 2 = 1 THEN Append(level, Last(level)) ELSE level

merkle_pair(left, right) == <<left, right>>

NextLevel(level) ==
    LET full == Even(level)
    IN  [i \in 1..(Len(full) \div 2) |-> merkle_pair(full[2 * i - 1], full[2 * i])]

\* tree_levels: the leaves first, the one-node level of the root last.  A
\* level is halved at every step, so Len(leaves) levels are always enough.
\* Only sealed epochs have a tree, so there are at least two leaves; the code
\* treats fewer apart.  Above the leaves its odd levels keep the copy that
\* completes them, where merkle_proof finds what it takes here from the node.
build_merkle_tree(leaves) ==
    LET levels[n \in 1..Len(leaves)] ==
            IF n = 1 THEN <<leaves>>
            ELSE LET built == levels[n - 1]
                 IN  IF Len(Last(built)) = 1 THEN built
                     ELSE Append(built, NextLevel(Last(built)))
    IN  levels[Len(leaves)]

MerkleRoot(levels) == Last(levels)[1]

\* Where the path of the leaf at (zero-based) index crosses each level.
Places(index, depth) ==
    LET idx[k \in 1..depth] == IF k = 1 THEN index ELSE idx[k - 1] \div 2
    IN  idx

merkle_proofMut(index, levels) ==
    LET idx == Places(index, Len(levels))
    IN  [k \in 1..(Len(levels) - 1) |->
            LET other == IF idx[k] % 2 = 0 THEN idx[k] + 1 ELSE idx[k] - 1
            IN  [direction |-> IF idx[k] % 2 = 0 THEN "right" ELSE "left",
                 hash |-> levels[k][(IF other < Len(levels[k]) THEN other ELSE idx[k] - 1) + 1]]]

\* The audit path of the leaf at (zero-based) index: at every level below the
\* root the sibling, or the node itself when it is the last of an odd level.
merkle_proof(index, levels) ==
    LET idx == Places(index, Len(levels))
    IN  [k \in 1..(Len(levels) - 1) |->
            LET other == IF idx[k] % 2 = 0 THEN idx[k] + 1 ELSE idx[k] - 1
            IN  [direction |-> IF idx[k] % 2 = 0 THEN "right" ELSE "left",
                 hash |-> levels[k][(IF other < Len(levels[k]) THEN other ELSE idx[k]) + 1]]]

AuditStep(current, step) ==
    IF step.direction = "right" THEN merkle_pair(current, step.hash)
    ELSE merkle_pair(step.hash, current)

verify_merkle_proof(leaf, proof, root) == FoldLeft(AuditStep, leaf, proof) = root

(***************************************************************************)
(* Entries.                                                                *)
(***************************************************************************)

compute_entry_hash(id, signature, nonce) == <<id, signature, nonce>>

\* A new entry at the head of the chain: create() hashes all its fields, the
\* override's signature and nonce among them.
CreateEntry(id, epoch, previous, fields) ==
    [entry_id |-> id, epoch |-> epoch.epoch_id, sequence |-> Len(epoch.entries),
     previous_hash |-> previous, entry_type |-> fields.entry_type,
     membrane_decision |-> fields.membrane_decision,
     operating_mode |-> fields.operating_mode,
     transition_to_mode |-> fields.transition_to_mode,
     override_signature |-> fields.override_nonce,
     override_nonce |-> fields.override_nonce,
     entry_hash |-> compute_entry_hash(id, fields.override_nonce, fields.override_nonce)]

(***************************************************************************)
(* Epochs and the live ledger [entries, epochs].                           *)
(***************************************************************************)

MerkleEpoch(id) == [epoch_id |-> id, entries |-> << >>, sealed |-> FALSE, merkle_root |-> << >>]

is_full(epoch) == Len(epoch.entries) >= EPOCH_SIZE

EpochLevels(epoch) ==
    build_merkle_tree([i \in 1..Len(epoch.entries) |-> epoch.entries[i].entry_hash])

seal(epoch) ==
    IF epoch.sealed THEN epoch
    ELSE [epoch EXCEPT !.sealed = TRUE, !.merkle_root = MerkleRoot(EpochLevels(epoch))]

EmptyLedger == [entries |-> << >>, epochs |-> <<MerkleEpoch(0)>>]

head_hash(ledger) ==
    IF ledger.entries = << >> THEN GENESIS_HASH ELSE Last(ledger.entries).entry_hash

current_epoch(ledger) == Last(ledger.epochs)

NextEntry(ledger, fields) ==
    CreateEntry(Len(ledger.entries) + 1, current_epoch(ledger), head_hash(ledger), fields)

\* What append and append_control_transition do to memory once the line is
\* written: the entry joins the current epoch, which is sealed when it is
\* full, and a new epoch is opened.
Appended(ledger, entry) ==
    LET epoch  == [current_epoch(ledger) EXCEPT !.entries = Append(@, entry)]
        before == Front(ledger.epochs)
    IN  [entries |-> Append(ledger.entries, entry),
         epochs  |-> IF is_full(epoch)
                     THEN before \o <<seal(epoch), MerkleEpoch(epoch.epoch_id + 1)>>
                     ELSE Append(before, epoch)]

get_merkle_proof(ledger, e, i) ==
    merkle_proof(i - 1, EpochLevels(ledger.epochs[e]))

(***************************************************************************)
(* Restart.                                                                *)
(***************************************************************************)

\* The chain check of _load_from_disk.  It recomputes each digest with the
\* nonce but without the override's signature and operator.
ChainLoads(lines) ==
    \A i \in DOMAIN lines :
        /\ lines[i].previous_hash = (IF i = 1 THEN GENESIS_HASH ELSE lines[i - 1].entry_hash)
        /\ lines[i].entry_hash =
               compute_entry_hash(lines[i].entry_id, NoOverride, lines[i].override_nonce)

\* The check of verify_full_chain, which uses every hashed field.
verify_full_chain(lines) ==
    \A i \in DOMAIN lines :
        /\ lines[i].previous_hash = (IF i = 1 THEN GENESIS_HASH ELSE lines[i - 1].entry_hash)
        /\ lines[i].entry_hash =
               compute_entry_hash(lines[i].entry_id, lines[i].override_signature,
                                  lines[i].override_nonce)

\* The entries stored for an epoch, in the order of the file.
EntriesOf(lines, id) ==
    LET of[n \in 0..Len(lines)] ==
            IF n = 0 THEN << >>
            ELSE IF lines[n].epoch = id THEN Append(of[n - 1], lines[n]) ELSE of[n - 1]
    IN  of[Len(lines)]

\* The epochs are rebuilt from the stored epoch ids; full ones are sealed and
\* a full last one is followed by a new one.
RebuiltEpochs(lines) ==
    IF lines = << >> THEN <<MerkleEpoch(0)>>
    ELSE LET top == CHOOSE m \in {lines[i].epoch : i \in DOMAIN lines} :
                        \A i \in DOMAIN lines : lines[i].epoch <= m
             Rebuilt(id) ==
                 LET epoch == [MerkleEpoch(id) EXCEPT !.entries = EntriesOf(lines, id)]
                 IN  IF is_full(epoch) THEN seal(epoch) ELSE epoch
             all == [n \in 1..(top + 1) |-> Rebuilt(n - 1)]
         IN  IF is_full(Last(all)) THEN Append(all, MerkleEpoch(top + 1)) ELSE all

LoadedLedger(lines) == [entries |-> lines, epochs |-> RebuiltEpochs(lines)]

\* The last entry decides: every entry carries an operating mode.
recover_last_mode(entries, default) ==
    IF entries = << >> THEN default
    ELSE IF /\ Last(entries).entry_type = "control_transition"
            /\ Last(entries).transition_to_mode # NoMode
    THEN Last(entries).transition_to_mode
    ELSE Last(entries).operating_mode

recover_used_nonces(entries) ==
    {entries[i].override_nonce : i \in DOMAIN entries} \ {NoOverride}
=============================================================================
