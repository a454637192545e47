------------------------------- MODULE BigVec -------------------------------
(***************************************************************************)
(* program/src/big_vec.rs: the validator list is edited in place in the    *)
(* data of its account, a length followed by records of equal size.  The   *)
(* model is the list as the instructions use it: find, find_mut, push,     *)
(* deserialize_mut_slice and retain, the loops of the last and the two     *)
(* writes of push step by step.                                            *)
(*                                                                         *)
(* A slot is the room of one record; a byte index of the code is           *)
(* VEC_SIZE_BYTES plus a number of slots.  What is left in the slots above *)
(* the length stays in the data.                                           *)
(***************************************************************************)
EXTENDS Integers, FiniteSets

CONSTANTS
    Votes,               \* vote_account_address of a record
    Blank,               \* a slot never written
    BufferLengths,       \* bytes the account may be created with
    HEADER_LEN,          \* ValidatorListHeader::LEN
    VEC_SIZE_BYTES,      \* bytes of the length
    RECORD_LEN           \* ValidatorStakeInfo::LEN

ASSUME BigVecAssumption ==
    /\ BufferLengths \subseteq Nat
    /\ HEADER_LEN \in Nat
    /\ VEC_SIZE_BYTES \in Nat
    /\ RECORD_LEN \in Nat \ {0}

\* A record: whose it is, and whether is_removed holds of it (ReadyForRemoval
\* with no active and no transient lamports).
Record == [vote : Votes, removed : BOOLEAN]

ASSUME BlankAssumption == Blank \notin Record

NoInstruction == <<>>

VARIABLES
    buffer,             \* length of the account's data
    data,               \* the records in the slots
    vec_len,            \* the length stored in front of them
    pc,                 \* where the instruction in progress is
    element,            \* argument of push
    start_index,        \* retain: the record looked at
    removals_found,     \* retain: records dropped so far
    dst_start_index,    \* retain: where the next move goes
    saved               \* data and length when the instruction in progress began

loop == <<start_index, removals_found, dst_start_index>>
vars == <<buffer, data, vec_len, pc, element, loop, saved>>

header_size == HEADER_LEN + VEC_SIZE_BYTES

\* Mutant: the bytes of the length are taken for records.
Mutant_calculate_max_validators(buffer_length) ==
    IF buffer_length < HEADER_LEN THEN 0 ELSE (buffer_length - HEADER_LEN) \div RECORD_LEN

calculate_max_validators(buffer_length) ==
    IF buffer_length < header_size THEN 0 ELSE (buffer_length - header_size) \div RECORD_LEN

\* Initialize accepts only an account whose size gives max_validators.
max_validators == calculate_max_validators(buffer)

\* The slots that the data really has room for.
Slots == {i \in 0..buffer : header_size + (i + 1) * RECORD_LEN <= buffer}

Keep(record) == ~record.removed

Init ==
    /\ buffer \in BufferLengths
    /\ max_validators # 0
    /\ data = [i \in Slots |-> Blank]
    /\ vec_len = 0
    /\ pc = "idle"
    /\ element = Blank
    /\ start_index = 0 /\ removals_found = 0 /\ dst_start_index = 0
    /\ saved = NoInstruction

\* What the instruction in progress keeps outside the account is gone at its end.
Finish ==
    /\ pc' = "idle"
    /\ element' = Blank
    /\ saved' = NoInstruction

-----------------------------------------------------------------------------
\* Mutant: the search stops one record too early.
Mutant_find(vote) ==
    {i \in 0..(vec_len - 2) : data[i].vote = vote /\ \A j \in 0..(i - 1) : data[j].vote # vote}

\* Index of the first record of the validator, as a set of at most one.
find(vote) ==
    {i \in 0..(vec_len - 1) : data[i].vote = vote /\ \A j \in 0..(i - 1) : data[j].vote # vote}

\* The list's part of AddValidatorToPool.
AddValidatorToPool(vote) ==
    /\ pc = "idle"
    /\ vec_len # max_validators
    /\ find(vote) = {}
    /\ element' = [vote |-> vote, removed |-> FALSE]
    /\ saved' = <<data, vec_len>>
    /\ pc' = "push"
    /\ UNCHANGED <<buffer, data, vec_len, loop>>

\* The new length is written first...
PushLength ==
    /\ pc = "push"
    /\ vec_len' = vec_len + 1
    /\ pc' = "pushed_length"
    /\ UNCHANGED <<buffer, data, element, loop, saved>>

\* ...and then the room for the record is looked for.
HasRoom == header_size + vec_len * RECORD_LEN <= buffer

\* Mutant: the record is written behind the slot that the new length makes last.
Mutant_PushElement ==
    /\ pc = "pushed_length"
    /\ data' = IF HasRoom THEN [i \in Slots |-> IF i = vec_len THEN element ELSE data[i]] ELSE saved[1]
    /\ vec_len' = IF HasRoom THEN vec_len ELSE saved[2]
    /\ Finish
    /\ UNCHANGED <<buffer, loop>>

\* Without room push returns an error: the instruction fails and the runtime
\* restores the account.
PushElement ==
    /\ pc = "pushed_length"
    /\ data' = IF HasRoom THEN [data EXCEPT ![vec_len - 1] = element] ELSE saved[1]
    /\ vec_len' = IF HasRoom THEN vec_len ELSE saved[2]
    /\ Finish
    /\ UNCHANGED <<buffer, loop>>

\* A slice of the list is rewritten (UpdateValidatorListBalance); nothing but the
\* vote of a record is left as it is.
SliceFits(skip, len) == skip + len <= vec_len

UpdateSlice(skip, len) ==
    /\ pc = "idle"
    /\ SliceFits(skip, len)
    /\ \E removed \in [skip..(skip + len - 1) -> BOOLEAN] :
           data' = [i \in Slots |->
                       IF i \in DOMAIN removed
                       THEN [vote |-> data[i].vote, removed |-> removed[i]] ELSE data[i]]
    /\ UNCHANGED <<buffer, vec_len, pc, element, loop, saved>>

\* The record of one validator is rewritten, through find_mut.
UpdateRecord(vote) ==
    /\ pc = "idle"
    /\ \E i \in find(vote), removed \in BOOLEAN :
           data' = [data EXCEPT ![i] = [vote |-> vote, removed |-> removed]]
    /\ UNCHANGED <<buffer, vec_len, pc, element, loop, saved>>

-----------------------------------------------------------------------------
(***************************************************************************)
(* retain: the records kept between two removals are moved down by the     *)
(* number of records removed before them, when the second removal, or the  *)
(* end, is met.                                                            *)
(***************************************************************************)
\* sol_memmove of the slots dst+gap..end-1 to dst..end-gap-1.
memmove(dst, gap, end) ==
    [i \in Slots |-> IF i \in dst..(end - gap - 1) THEN data[i + gap] ELSE data[i]]

CleanupRemovedValidatorEntries ==
    /\ pc = "idle"
    /\ saved' = <<data, vec_len>>
    /\ pc' = "retain"
    /\ UNCHANGED <<buffer, data, vec_len, element, loop>>

RetainKeep ==
    /\ pc = "retain"
    /\ start_index < vec_len
    /\ Keep(data[start_index])
    /\ start_index' = start_index + 1
    /\ UNCHANGED <<buffer, data, vec_len, pc, element, removals_found, dst_start_index, saved>>

\* Mutant: the next move goes to the place of the record, not to that place less
\* the gap.
Mutant_RetainDrop ==
    /\ pc = "retain"
    /\ start_index < vec_len
    /\ ~Keep(data[start_index])
    /\ data' = IF removals_found > 0
               THEN memmove(dst_start_index, removals_found, start_index) ELSE data
    /\ dst_start_index' = start_index
    /\ removals_found' = removals_found + 1
    /\ start_index' = start_index + 1
    /\ UNCHANGED <<buffer, vec_len, pc, element, saved>>

RetainDrop ==
    /\ pc = "retain"
    /\ start_index < vec_len
    /\ ~Keep(data[start_index])
    /\ data' = IF removals_found > 0
               THEN memmove(dst_start_index, removals_found, start_index) ELSE data
    /\ dst_start_index' = start_index - removals_found
    /\ removals_found' = removals_found + 1
    /\ start_index' = start_index + 1
    /\ UNCHANGED <<buffer, vec_len, pc, element, saved>>

\* The last move, and the new length.
RetainEnd ==
    /\ pc = "retain"
    /\ start_index = vec_len
    /\ data' = IF removals_found > 0
               THEN memmove(dst_start_index, removals_found, vec_len) ELSE data
    /\ vec_len' = vec_len - removals_found
    /\ pc' = "retained"
    /\ UNCHANGED <<buffer, element, loop, saved>>

\* The instruction ends.
Return ==
    /\ pc = "retained"
    /\ Finish
    /\ start_index' = 0 /\ removals_found' = 0 /\ dst_start_index' = 0
    /\ UNCHANGED <<buffer, data, vec_len>>

Next ==
    \/ \E vote \in Votes : AddValidatorToPool(vote) \/ UpdateRecord(vote)
    \/ PushLength \/ PushElement
    \/ \E skip \in 0..vec_len, len \in 1..vec_len : UpdateSlice(skip, len)
    \/ CleanupRemovedValidatorEntries \/ RetainKeep \/ RetainDrop \/ RetainEnd \/ Return

Spec == Init /\ [][Next]_vars

-----------------------------------------------------------------------------
(***************************************************************************)
(* Properties.                                                             *)
(***************************************************************************)
\* The length never exceeds the slots of the account, and the slots below it
\* hold records, also between the two writes of push.
BigVecTypeOK ==
    /\ buffer \in BufferLengths
    /\ data \in [Slots -> Record \cup {Blank}]
    /\ vec_len \in 0..max_validators
    /\ pc \in {"idle", "push", "pushed_length", "retain", "retained"}
    /\ \A i \in 0..(vec_len - 1) : data[i] = Blank => pc = "pushed_length" /\ i = vec_len - 1
    /\ {start_index, removals_found, dst_start_index} \subseteq 0..max_validators

\* When the length was already written, there is room for the record: max_validators
\* as Initialize computes it never lets push fail halfway.
PushNeverRefused == pc = "pushed_length" => HasRoom

\* No validator has two records, whatever was added, rewritten and dropped.
VotesDistinct ==
    pc = "idle" => \A i, j \in 0..(vec_len - 1) : data[i].vote = data[j].vote => i = j

\* The records of the list before the cleanup that it must drop, below index i.
Removed(i) == {j \in 0..(i - 1) : ~Keep(saved[1][j])}

\* The cleanup is a filter: a record that is kept moves down by the number of
\* dropped records before it, and as many records as were dropped are missing at
\* the end.  None is lost, doubled or reordered.
RetainIsFilter ==
    pc = "retained" =>
        /\ vec_len = saved[2] - Cardinality(Removed(saved[2]))
        /\ \A i \in 0..(saved[2] - 1) :
               Keep(saved[1][i]) => data[i - Cardinality(Removed(i))] = saved[1][i]
=============================================================================
