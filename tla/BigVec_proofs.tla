--------------------------- MODULE BigVec_proofs ---------------------------
(***************************************************************************)
(* retain filters the list, push is never refused and no validator gets    *)
(* two records, for accounts of any size.  The heart is the invariant of   *)
(* retain's loop, Retaining.                                               *)
(***************************************************************************)
EXTENDS BigVec, FiniteSetTheorems, WellFoundedInduction, TLAPS

\* The first n slots of d hold records of different validators.
Clean(d, n) ==
    /\ \A i \in 0..(n - 1) : d[i] \in Record
    /\ \A i, j \in 0..(n - 1) : d[i].vote = d[j].vote => i = j

\* The vote is in none of the first n slots.
Absent(vote, n) == \A i \in 0..(n - 1) : data[i].vote # vote

\* How far a record at index i of the list before moves down.
Gap(i) == Cardinality(Removed(i))

\* During retain.  The records below dst_start_index are in their final place,
\* those from dst_start_index + removals_found on are where they were, and none
\* of the latter that was looked at is to be dropped.
Retaining ==
    LET dst  == dst_start_index
        rest == dst_start_index + removals_found
    IN  /\ saved[2] = vec_len
        /\ start_index \in 0..vec_len
        /\ removals_found \in 0..vec_len /\ dst \in 0..vec_len
        /\ rest <= start_index
        /\ removals_found = 0 => dst = 0
        /\ \A i \in rest..start_index : Gap(i) = removals_found
        /\ \A i \in rest..(vec_len - 1) : data[i] = saved[1][i]
        /\ \A i \in 0..(rest - 1) :
               Keep(saved[1][i]) =>
                   i - Gap(i) \in 0..(dst - 1) /\ data[i - Gap(i)] = saved[1][i]
        /\ \A p \in 0..(dst - 1) :
               \E i \in 0..(rest - 1) : Keep(saved[1][i]) /\ p = i - Gap(i)

Types ==
    /\ buffer \in Nat /\ buffer \in BufferLengths
    /\ data \in [Slots -> Record \cup {Blank}]
    /\ vec_len \in 0..max_validators
    /\ pc \in {"idle", "push", "pushed_length", "retain", "retained"}
    /\ pc # "retain" /\ pc # "retained"
           => start_index = 0 /\ removals_found = 0 /\ dst_start_index = 0
    /\ start_index \in 0..max_validators
    /\ removals_found \in 0..max_validators
    /\ dst_start_index \in 0..max_validators

\* The inductive invariant.
Sound ==
    /\ Types
    /\ pc \in {"idle", "push", "retained"} => Clean(data, vec_len)
    /\ pc = "push" => vec_len < max_validators /\ element \in Record /\ Absent(element.vote, vec_len)
    /\ pc = "pushed_length" =>
           /\ vec_len >= 1 /\ element \in Record
           /\ Clean(data, vec_len - 1) /\ Absent(element.vote, vec_len - 1)
    /\ pc = "retain" =>
           /\ \A i \in 0..(vec_len - 1) : data[i] \in Record
           /\ Clean(saved[1], vec_len)
           /\ Retaining
    /\ RetainIsFilter

-----------------------------------------------------------------------------
\* Initialize's max_validators is the number of slots of the account.
LEMMA SlotsCount ==
    ASSUME buffer \in Nat
    PROVE  /\ max_validators \in Nat
           /\ Slots = 0..(max_validators - 1)
           /\ \A n \in Nat : n <= max_validators => header_size + n * RECORD_LEN <= buffer \/ n = 0
<1> DEFINE a == buffer - header_size
           q == a \div RECORD_LEN
<1>0. header_size \in Nat /\ RECORD_LEN \in Nat /\ RECORD_LEN # 0
  BY BigVecAssumption DEF header_size
<1>1. CASE buffer < header_size
  <2>1. max_validators = 0
    BY <1>1 DEF max_validators, calculate_max_validators
  <2>2. ASSUME NEW i \in 0..buffer PROVE ~(header_size + (i + 1) * RECORD_LEN <= buffer)
    <3>1. (i + 1) * RECORD_LEN \in Nat
      BY <1>0
    <3> QED
      BY <1>0, <1>1, <3>1
  <2> QED
    BY <2>1, <2>2 DEF Slots
<1>2. CASE ~(buffer < header_size)
  <2>0. a \in Nat
    BY <1>0, <1>2
  <2>1. max_validators = q
    BY <1>2 DEF max_validators, calculate_max_validators
  <2>2. q \in Nat /\ q * RECORD_LEN <= a /\ a < q * RECORD_LEN + RECORD_LEN
    BY <1>0, <2>0
  <2> HIDE DEF q
  <2>3. ASSUME NEW n \in Nat, n <= q PROVE n * RECORD_LEN <= q * RECORD_LEN
    BY <1>0, <2>2, <2>3
  <2>4. ASSUME NEW n \in Nat, n > q PROVE n * RECORD_LEN >= q * RECORD_LEN + RECORD_LEN
    BY <1>0, <2>2, <2>4
  <2>5. ASSUME NEW n \in Nat PROVE n * RECORD_LEN \in Nat /\ n * RECORD_LEN >= n
    BY <1>0
  <2>6. ASSUME NEW n \in Nat, n <= q PROVE header_size + n * RECORD_LEN <= buffer
    BY <1>0, <2>0, <2>2, <2>3, <2>5, <2>6
  <2>7. ASSUME NEW i \in 0..(q - 1) PROVE i \in Slots
    <3>1. i + 1 \in Nat /\ i + 1 <= q /\ i \in Nat
      BY <2>2
    <3>2. header_size + (i + 1) * RECORD_LEN <= buffer
      BY <2>6, <3>1
    <3>3. i \in 0..buffer
      BY <1>0, <2>5, <3>1, <3>2
    <3> QED
      BY <3>2, <3>3 DEF Slots
  <2>8. ASSUME NEW i \in Slots PROVE i \in 0..(q - 1)
    <3>1. i \in Nat /\ i + 1 \in Nat /\ header_size + (i + 1) * RECORD_LEN <= buffer
      BY DEF Slots
    <3>2. ~(i + 1 > q)
      BY <1>0, <2>0, <2>2, <2>4, <2>5, <3>1
    <3> QED
      BY <2>2, <3>1, <3>2
  <2> QED
    BY <2>1, <2>2, <2>6, <2>7, <2>8
<1> QED
  BY <1>1, <1>2

\* find returns nothing only if no record is the validator's.
LEMMA NotFound ==
    ASSUME NEW vote, vec_len \in Nat, find(vote) = {}
    PROVE  Absent(vote, vec_len)
<1> DEFINE T == {i \in 0..(vec_len - 1) : data[i].vote = vote}
<1>1. SUFFICES ASSUME T # {} PROVE FALSE
  BY DEF Absent
<1> DEFINE R == {ss \in Nat \X Nat : ss[1] < ss[2]}
<1>2. PICK x \in T : \A y \in T : ~(<<y, x>> \in R)
  <2>1. IsWellFoundedOn(R, Nat)
    BY NatLessThanWellFounded, Zenon DEF OpToRel
  <2>2. T \subseteq Nat
    OBVIOUS
  <2> HIDE DEF R, T
  <2> QED
    BY <1>1, <2>1, <2>2, WFMin
<1>3. ASSUME NEW y \in T, y < x PROVE FALSE
  <2>1. y \in Nat /\ x \in Nat
    OBVIOUS
  <2>2. <<y, x>> \in R
    BY <1>3, <2>1
  <2> QED
    BY <1>2, <2>2
<1>4. x \in find(vote)
  BY <1>3 DEF find
<1> QED
  BY <1>4

\* How Gap grows along the list.
LEMMA GapStep ==
    ASSUME NEW i \in Nat
    PROVE  /\ Gap(0) = 0
           /\ Gap(i) \in 0..i
           /\ Keep(saved[1][i]) => Gap(i + 1) = Gap(i)
           /\ ~Keep(saved[1][i]) => Gap(i + 1) = Gap(i) + 1
<1>1. Removed(0) = {}
  BY DEF Removed
<1>2. Gap(0) = 0
  BY <1>1, FS_EmptySet DEF Gap
<1>3. IsFiniteSet(0..(i - 1)) /\ Cardinality(0..(i - 1)) = i
  BY FS_Interval
<1>4. Removed(i) \in SUBSET (0..(i - 1))
  BY DEF Removed
<1>5. IsFiniteSet(Removed(i)) /\ Cardinality(Removed(i)) <= i
  BY <1>3, <1>4, FS_Subset
<1>6. Gap(i) \in 0..i
  BY <1>5, FS_CardinalityType DEF Gap
<1>7. CASE Keep(saved[1][i])
  <2>1. Removed(i + 1) = Removed(i)
    BY <1>7 DEF Removed
  <2> QED
    BY <1>2, <1>6, <1>7, <2>1 DEF Gap
<1>8. CASE ~Keep(saved[1][i])
  <2>1. Removed(i + 1) = Removed(i) \cup {i} /\ i \notin Removed(i)
    BY <1>8 DEF Removed
  <2>2. Cardinality(Removed(i) \cup {i}) = Cardinality(Removed(i)) + 1
    BY <1>5, <2>1, FS_AddElement
  <2> QED
    BY <1>2, <1>6, <1>8, <2>1, <2>2 DEF Gap
<1> QED
  BY <1>7, <1>8

-----------------------------------------------------------------------------
\* The list starts empty.
LEMMA InitSound == Init => Sound
<1> SUFFICES ASSUME Init PROVE Sound
  OBVIOUS
<1>1. buffer \in Nat /\ buffer \in BufferLengths
  BY BigVecAssumption DEF Init
<1>2. max_validators \in Nat
  BY <1>1, SlotsCount
<1> QED
  BY <1>1, <1>2 DEF Init, Sound, Types, Clean, RetainIsFilter

\* The buffer, and with it the number of slots, never changes.
LEMMA SameSlots ==
    ASSUME Types, buffer' = buffer
    PROVE  /\ max_validators \in Nat /\ max_validators' = max_validators
           /\ Slots = 0..(max_validators - 1) /\ Slots' = Slots
<1>1. max_validators \in Nat /\ Slots = 0..(max_validators - 1)
  BY SlotsCount DEF Types
<1>2. max_validators' = max_validators /\ Slots' = Slots
  BY DEF max_validators, Slots, calculate_max_validators
<1> QED
  BY <1>1, <1>2

\* AddValidatorToPool looks the validator up and goes on to push.
LEMMA AddSound ==
    ASSUME Sound, NEW vote \in Votes, AddValidatorToPool(vote)
    PROVE  Sound'
<1> USE DEF Sound
<1>1. max_validators \in Nat /\ max_validators' = max_validators /\ Slots' = Slots
  BY SameSlots DEF AddValidatorToPool
<1>2. vec_len < max_validators
  BY <1>1 DEF AddValidatorToPool, Types
<1>3. Absent(vote, vec_len)
  BY <1>1, NotFound DEF AddValidatorToPool, Types
<1>4. Types'
  BY <1>1 DEF AddValidatorToPool, Types, loop
<1>5. Clean(data, vec_len)'
  BY DEF AddValidatorToPool, Clean
<1>6. element' \in Record /\ Absent(element.vote, vec_len)'
  BY <1>3 DEF AddValidatorToPool, Absent, Record
<1> QED
  BY <1>1, <1>2, <1>4, <1>5, <1>6 DEF AddValidatorToPool, RetainIsFilter

\* The first write of push.
LEMMA PushLengthSound ==
    ASSUME Sound, PushLength
    PROVE  Sound'
<1> USE DEF Sound
<1>1. max_validators \in Nat /\ max_validators' = max_validators /\ Slots' = Slots
  BY SameSlots DEF PushLength
<1>2. vec_len \in Nat /\ vec_len < max_validators /\ vec_len' = vec_len + 1 /\ vec_len' - 1 = vec_len
  BY <1>1 DEF PushLength, Types
<1>3. Types'
  BY <1>1, <1>2 DEF PushLength, Types, loop
<1>4. Clean(data, vec_len - 1)' /\ Absent(element.vote, vec_len - 1)'
  BY <1>2 DEF PushLength, Clean, Absent
<1> QED
  BY <1>2, <1>3, <1>4 DEF PushLength, RetainIsFilter

\* The second write of push, which finds room.
LEMMA PushElementSound ==
    ASSUME Sound, PushElement
    PROVE  Sound' /\ HasRoom
<1> USE DEF Sound
<1>1. /\ max_validators \in Nat /\ max_validators' = max_validators
      /\ Slots = 0..(max_validators - 1) /\ Slots' = Slots
  BY SameSlots DEF PushElement
<1>2. vec_len \in Nat /\ vec_len >= 1 /\ vec_len <= max_validators /\ vec_len - 1 \in Slots
  BY <1>1 DEF PushElement, Types
<1>3. HasRoom
  BY <1>2, SlotsCount DEF HasRoom, Types
<1>4. data' = [data EXCEPT ![vec_len - 1] = element] /\ vec_len' = vec_len
  BY <1>3 DEF PushElement
<1>5. Types'
  BY <1>1, <1>4 DEF PushElement, Finish, Types, loop
<1>6. /\ data'[vec_len - 1] = element /\ element \in Record
      /\ \A i \in 0..(vec_len - 2) : data'[i] = data[i] /\ data[i] \in Record
                                     /\ data[i].vote # element.vote
  BY <1>1, <1>2, <1>4 DEF PushElement, Types, Clean, Absent
<1>7. \A i, j \in 0..(vec_len - 2) : data[i].vote = data[j].vote => i = j
  BY <1>2 DEF PushElement, Clean
<1>8. \A i \in 0..(vec_len - 1) : i = vec_len - 1 \/ i \in 0..(vec_len - 2)
  BY <1>2
<1>9. Clean(data, vec_len)'
  BY <1>4, <1>6, <1>7, <1>8 DEF Clean
<1> QED
  BY <1>3, <1>5, <1>9 DEF PushElement, Finish, RetainIsFilter

\* Rewriting records keeps their validators.
LEMMA RewriteSound ==
    ASSUME Sound, pc = "idle", pc' = "idle",
           UNCHANGED <<buffer, vec_len, element, loop, saved>>,
           data' \in [Slots -> Record \cup {Blank}],
           \A i \in 0..(vec_len - 1) : data'[i] \in Record /\ data'[i].vote = data[i].vote
    PROVE  Sound'
<1> USE DEF Sound
<1>1. max_validators' = max_validators /\ Slots' = Slots
  BY SameSlots
<1>2. Types'
  BY <1>1 DEF Types, loop
<1>3. Clean(data, vec_len)'
  BY DEF Clean
<1> QED
  BY <1>2, <1>3 DEF RetainIsFilter

\* UpdateValidatorListBalance's slice.
LEMMA UpdateSliceSound ==
    ASSUME Sound, NEW skip \in Nat, NEW len \in Nat, UpdateSlice(skip, len)
    PROVE  Sound'
<1>1. PICK removed \in [skip..(skip + len - 1) -> BOOLEAN] :
          data' = [i \in Slots |->
                      IF i \in DOMAIN removed
                      THEN [vote |-> data[i].vote, removed |-> removed[i]] ELSE data[i]]
  BY DEF UpdateSlice
<1>2. /\ max_validators \in Nat /\ Slots = 0..(max_validators - 1)
      /\ vec_len \in 0..max_validators
      /\ data \in [Slots -> Record \cup {Blank}]
      /\ \A i \in 0..(vec_len - 1) : data[i] \in Record
      /\ skip + len <= vec_len
  BY SameSlots DEF UpdateSlice, SliceFits, Sound, Types, Clean
<1>3. DOMAIN removed = skip..(skip + len - 1) /\ DOMAIN removed \subseteq 0..(vec_len - 1)
  BY <1>2
<1>4. ASSUME NEW i \in DOMAIN removed
      PROVE  data'[i] \in Record /\ data'[i].vote = data[i].vote
  <2>1. i \in Slots /\ data[i] \in Record /\ removed[i] \in BOOLEAN
    BY <1>2, <1>3
  <2>2. data'[i] = [vote |-> data[i].vote, removed |-> removed[i]]
    BY <1>1, <2>1
  <2> QED
    BY <2>1, <2>2 DEF Record
<1>5. ASSUME NEW i \in Slots, i \notin DOMAIN removed PROVE data'[i] = data[i]
  BY <1>1, <1>5
<1>6. \A i \in 0..(vec_len - 1) : data'[i] \in Record /\ data'[i].vote = data[i].vote
  BY <1>2, <1>4, <1>5
<1>7. \A i \in Slots : data'[i] \in Record \cup {Blank}
  BY <1>2, <1>4, <1>5
<1>8. data' \in [Slots -> Record \cup {Blank}]
  BY <1>1, <1>7
<1> QED
  BY <1>6, <1>8, RewriteSound DEF UpdateSlice

\* A record found with find_mut.
LEMMA UpdateRecordSound ==
    ASSUME Sound, NEW vote \in Votes, UpdateRecord(vote)
    PROVE  Sound'
<1>1. PICK i \in find(vote), removed \in BOOLEAN :
          data' = [data EXCEPT ![i] = [vote |-> vote, removed |-> removed]]
  BY DEF UpdateRecord
<1>2. /\ max_validators \in Nat /\ Slots = 0..(max_validators - 1)
      /\ vec_len \in 0..max_validators
      /\ data \in [Slots -> Record \cup {Blank}]
      /\ \A j \in 0..(vec_len - 1) : data[j] \in Record
  BY SameSlots DEF UpdateRecord, Sound, Types, Clean
<1>3. i \in 0..(vec_len - 1) /\ i \in Slots /\ data[i].vote = vote
  BY <1>2 DEF find
<1>4. [vote |-> vote, removed |-> removed] \in Record
  BY DEF Record
<1>5. data'[i] \in Record /\ data'[i].vote = data[i].vote
  BY <1>1, <1>2, <1>3, <1>4
<1>6. \A j \in Slots : j # i => data'[j] = data[j]
  BY <1>1, <1>2
<1>7. \A j \in 0..(vec_len - 1) : data'[j] \in Record /\ data'[j].vote = data[j].vote
  BY <1>2, <1>5, <1>6
<1>8. data' \in [Slots -> Record \cup {Blank}]
  BY <1>1, <1>2, <1>4
<1> QED
  BY <1>7, <1>8, RewriteSound DEF UpdateRecord

-----------------------------------------------------------------------------
\* The loop of retain starts with nothing dropped.
LEMMA CleanupSound ==
    ASSUME Sound, CleanupRemovedValidatorEntries
    PROVE  Sound'
<1> USE DEF Sound, CleanupRemovedValidatorEntries
<1>1. max_validators' = max_validators /\ Slots' = Slots
  BY SameSlots
<1>2. Types'
  BY <1>1 DEF Types, loop
<1>3. /\ saved'[1] = data /\ saved'[2] = vec_len /\ vec_len' = vec_len /\ data' = data
      /\ start_index' = 0 /\ removals_found' = 0 /\ dst_start_index' = 0
      /\ vec_len \in Nat
  BY SameSlots DEF Types, loop
<1>4. Removed(0)' = {}
  BY DEF Removed
<1>5. Gap(0)' = 0
  BY <1>4, FS_EmptySet DEF Gap
<1>6. Retaining'
  BY <1>3, <1>5 DEF Retaining
<1>7. Clean(saved[1], vec_len)' /\ \A i \in 0..(vec_len' - 1) : data'[i] \in Record
  BY <1>3 DEF Clean
<1> QED
  BY <1>2, <1>6, <1>7 DEF RetainIsFilter

\* What Retaining says of the record the loop looks at.
LEMMA Looking ==
    ASSUME Sound, pc = "retain", start_index < vec_len
    PROVE  /\ start_index \in Nat /\ vec_len \in Nat
           /\ data[start_index] = saved[1][start_index]
           /\ Gap(start_index) = removals_found
<1> QED
  BY SameSlots, SlotsCount DEF Sound, Types, Retaining

\* A record that stays.
LEMMA RetainKeepSound ==
    ASSUME Sound, RetainKeep
    PROVE  Sound'
<1> USE DEF Sound, RetainKeep
<1>1. max_validators \in Nat /\ max_validators' = max_validators /\ Slots' = Slots
  BY SameSlots
<1>2. /\ start_index \in Nat /\ vec_len \in Nat
      /\ data[start_index] = saved[1][start_index]
      /\ Gap(start_index) = removals_found
  BY Looking
<1>3. Gap(start_index + 1) = removals_found
  BY <1>2, GapStep
<1>4. Types'
  BY <1>1, <1>2 DEF Types
<1>5. \A i : Gap(i)' = Gap(i)
  BY DEF Gap, Removed, Keep
<1>6. Retaining'
  <2>1. \A i \in (dst_start_index + removals_found)..(start_index + 1) :
            i = start_index + 1 \/ i \in (dst_start_index + removals_found)..start_index
    BY <1>2 DEF Retaining
  <2> QED
    BY <1>2, <1>3, <1>5, <2>1 DEF Retaining, Keep
<1> QED
  BY <1>4, <1>6 DEF RetainIsFilter, Clean

\* A record that goes: what was kept since the last removal moves down.
LEMMA RetainDropSound ==
    ASSUME Sound, RetainDrop
    PROVE  Sound'
<1> DEFINE s == start_index
           r == removals_found
           d == dst_start_index
           before == saved[1]
<1>1. /\ max_validators \in Nat /\ max_validators' = max_validators
      /\ Slots' = Slots /\ Slots = 0..(max_validators - 1)
  BY SameSlots DEF Sound, RetainDrop
<1>2. s \in Nat /\ vec_len \in Nat /\ s < vec_len /\ data[s] = before[s] /\ Gap(s) = r
  BY Looking DEF RetainDrop
<1>3. /\ s \in 0..vec_len /\ r \in 0..vec_len /\ d \in 0..vec_len
      /\ d + r <= s /\ (r = 0 => d = 0)
      /\ saved[2] = vec_len
      /\ vec_len <= max_validators
      /\ data \in [Slots -> Record \cup {Blank}]
      /\ \A i \in 0..(vec_len - 1) : data[i] \in Record
      /\ Clean(before, vec_len)
  BY <1>1 DEF Sound, RetainDrop, Types, Retaining
<1>4. /\ \A i \in (d + r)..s : Gap(i) = r
      /\ \A i \in (d + r)..(vec_len - 1) : data[i] = before[i]
      /\ \A i \in 0..(d + r - 1) :
             Keep(before[i]) => i - Gap(i) \in 0..(d - 1) /\ data[i - Gap(i)] = before[i]
      /\ \A p \in 0..(d - 1) : \E i \in 0..(d + r - 1) : Keep(before[i]) /\ p = i - Gap(i)
  BY DEF Sound, RetainDrop, Retaining
<1>5. ~Keep(before[s]) /\ Gap(s + 1) = r + 1
  BY <1>2, GapStep DEF RetainDrop
<1>6. /\ start_index' = s + 1 /\ removals_found' = r + 1 /\ dst_start_index' = s - r
      /\ saved' = saved /\ vec_len' = vec_len /\ pc' = "retain" /\ pc = "retain"
      /\ buffer' = buffer
  BY DEF RetainDrop
<1>7. \A i : Gap(i)' = Gap(i)
  BY <1>6 DEF Gap, Removed, Keep
<1>8. ASSUME NEW i \in Slots
      PROVE  data'[i] = IF i \in d..(s - r - 1) THEN data[i + r] ELSE data[i]
  <2>1. CASE r > 0
    BY <2>1 DEF RetainDrop, memmove
  <2>2. CASE ~(r > 0)
    <3>1. r = 0 /\ data' = data /\ i + r = i
      BY <1>1, <1>3, <2>2 DEF RetainDrop
    <3> QED
      BY <3>1
  <2> QED
    BY <2>1, <2>2
<1>9. ASSUME NEW i \in d..(s - r - 1)
      PROVE  i \in Slots /\ i + r \in (d + r)..(s - 1) /\ i + r \in 0..(vec_len - 1) /\ i + r \in Slots
  BY <1>1, <1>2, <1>3
<1>10. data' \in [Slots -> Record \cup {Blank}]
  <2>1. \A i \in Slots : data'[i] \in Record \cup {Blank}
    BY <1>3, <1>8, <1>9
  <2>2. DOMAIN data' = Slots /\ data' = [i \in DOMAIN data' |-> data'[i]]
    BY <1>3 DEF RetainDrop, memmove
  <2> QED
    BY <2>1, <2>2
<1>11. \A i \in 0..(vec_len - 1) : data'[i] \in Record
  <2>1. \A i \in 0..(vec_len - 1) : i \in Slots
    BY <1>1, <1>2, <1>3
  <2> QED
    BY <1>3, <1>8, <1>9, <2>1
<1>12. Types'
  BY <1>1, <1>2, <1>3, <1>6, <1>10 DEF Types, Sound
<1>13. \A i \in (s + 1)..(vec_len - 1) : data'[i] = before[i]
  <2> SUFFICES ASSUME NEW i \in (s + 1)..(vec_len - 1) PROVE data'[i] = before[i]
    OBVIOUS
  <2>1. i \in Slots /\ i \notin d..(s - r - 1) /\ i \in (d + r)..(vec_len - 1)
    BY <1>1, <1>2, <1>3
  <2> QED
    BY <1>4, <1>8, <2>1
<1>14. ASSUME NEW i \in 0..s, Keep(before[i])
       PROVE  i - Gap(i) \in 0..(s - r - 1) /\ data'[i - Gap(i)] = before[i]
  <2>0. i # s
    BY <1>5, <1>14
  <2>1. CASE i \in 0..(d + r - 1)
    <3>1. i - Gap(i) \in 0..(d - 1) /\ data[i - Gap(i)] = before[i]
      BY <1>4, <1>14, <2>1
    <3>2. i - Gap(i) \in Slots /\ i - Gap(i) \notin d..(s - r - 1) /\ i - Gap(i) \in 0..(s - r - 1)
      BY <1>1, <1>2, <1>3, <3>1
    <3> QED
      BY <1>8, <3>1, <3>2
  <2>2. CASE i \notin 0..(d + r - 1)
    <3>1. i \in (d + r)..s /\ i \in (d + r)..(vec_len - 1) /\ i \in (d + r)..(s - 1)
      BY <1>2, <1>3, <2>0, <2>2
    <3>2. Gap(i) = r /\ data[i] = before[i]
      BY <1>4, <3>1
    <3>3. i - r \in d..(s - r - 1) /\ i - r \in 0..(s - r - 1) /\ (i - r) + r = i
      BY <1>2, <1>3, <3>1
    <3>4. data'[i - r] = data[(i - r) + r]
      BY <1>8, <1>9, <3>3
    <3> QED
      BY <3>2, <3>3, <3>4
  <2> QED
    BY <2>1, <2>2
<1>15. ASSUME NEW p \in 0..(s - r - 1)
       PROVE  \E i \in 0..s : Keep(before[i]) /\ p = i - Gap(i)
  <2>1. CASE p \in 0..(d - 1)
    <3>1. PICK i \in 0..(d + r - 1) : Keep(before[i]) /\ p = i - Gap(i)
      BY <1>4, <2>1
    <3>2. i \in 0..s
      BY <1>2, <1>3, <3>1
    <3> QED
      BY <3>1, <3>2
  <2>2. CASE p \notin 0..(d - 1)
    <3>1. /\ p + r \in (d + r)..(s - 1) /\ p + r \in (d + r)..s /\ p + r \in 0..s
          /\ p + r + 1 \in (d + r)..s /\ p + r \in Nat /\ (p + r) - r = p
      BY <1>2, <1>3, <2>2
    <3>2. Gap(p + r) = r /\ Gap(p + r + 1) = r
      BY <1>4, <3>1
    <3>3. Keep(before[p + r])
      BY <1>3, <3>1, <3>2, GapStep
    <3> QED
      BY <3>1, <3>2, <3>3
  <2> QED
    BY <2>1, <2>2
<1>16. Retaining'
  <2>1. (s - r) + (r + 1) = s + 1 /\ (s + 1) - 1 = s
    BY <1>2, <1>3
  <2>2. \A i \in (s + 1)..(s + 1) : Gap(i)' = r + 1
    BY <1>2, <1>5, <1>7
  <2>3. s + 1 \in 0..vec_len /\ r + 1 \in 0..vec_len /\ s - r \in 0..vec_len /\ r + 1 # 0
    BY <1>2, <1>3
  <2>4. /\ \A i \in 0..s : Keep(before[i]) =>
               i - Gap(i)' \in 0..((s - r) - 1) /\ data'[i - Gap(i)'] = before[i]
        /\ \A p \in 0..((s - r) - 1) : \E i \in 0..s : Keep(before[i]) /\ p = i - Gap(i)'
    BY <1>7, <1>14, <1>15
  <2> QED
    BY <1>3, <1>6, <1>13, <2>1, <2>2, <2>3, <2>4 DEF Retaining, Keep
<1> QED
  BY <1>3, <1>6, <1>11, <1>12, <1>16 DEF Sound, RetainIsFilter, Clean

\* The last move completes the filter, and what is left are different records
\* of the list before.
LEMMA RetainEndSound ==
    ASSUME Sound, RetainEnd
    PROVE  Sound'
<1> DEFINE n == vec_len
           r == removals_found
           d == dst_start_index
           before == saved[1]
<1>1. /\ max_validators \in Nat /\ max_validators' = max_validators
      /\ Slots' = Slots /\ Slots = 0..(max_validators - 1)
  BY SameSlots DEF Sound, RetainEnd
<1>2. /\ n \in Nat /\ r \in 0..n /\ d \in 0..n /\ n <= max_validators
      /\ d + r <= n /\ (r = 0 => d = 0)
      /\ saved[2] = n
      /\ data \in [Slots -> Record \cup {Blank}]
      /\ \A i \in 0..(n - 1) : data[i] \in Record
      /\ Clean(before, n)
  BY <1>1 DEF Sound, RetainEnd, Types, Retaining
<1>3. /\ \A i \in (d + r)..n : Gap(i) = r
      /\ \A i \in (d + r)..(n - 1) : data[i] = before[i]
      /\ \A i \in 0..(d + r - 1) :
             Keep(before[i]) => i - Gap(i) \in 0..(d - 1) /\ data[i - Gap(i)] = before[i]
      /\ \A p \in 0..(d - 1) : \E i \in 0..(d + r - 1) : Keep(before[i]) /\ p = i - Gap(i)
  BY DEF Sound, RetainEnd, Retaining
<1>4. /\ vec_len' = n - r /\ saved' = saved /\ pc' = "retained" /\ pc = "retain"
      /\ buffer' = buffer /\ element' = element
      /\ start_index' = start_index /\ removals_found' = r /\ dst_start_index' = d
  BY DEF RetainEnd, loop
<1>5. \A i : Gap(i)' = Gap(i)
  BY <1>4 DEF Gap, Removed, Keep
<1>6. ASSUME NEW i \in Slots
      PROVE  data'[i] = IF i \in d..(n - r - 1) THEN data[i + r] ELSE data[i]
  <2>1. CASE r > 0
    BY <2>1 DEF RetainEnd, memmove
  <2>2. CASE ~(r > 0)
    <3>1. r = 0 /\ data' = data /\ i + r = i
      BY <1>1, <1>2, <2>2 DEF RetainEnd
    <3> QED
      BY <3>1
  <2> QED
    BY <2>1, <2>2
<1>7. ASSUME NEW i \in d..(n - r - 1)
      PROVE  i \in Slots /\ i + r \in (d + r)..(n - 1) /\ i + r \in 0..(n - 1) /\ i + r \in Slots
  BY <1>1, <1>2
<1>8. data' \in [Slots -> Record \cup {Blank}]
  <2>1. \A i \in Slots : data'[i] \in Record \cup {Blank}
    BY <1>2, <1>6, <1>7
  <2>2. DOMAIN data' = Slots /\ data' = [i \in DOMAIN data' |-> data'[i]]
    BY <1>2 DEF RetainEnd, memmove
  <2> QED
    BY <2>1, <2>2
<1>9. Types'
  BY <1>1, <1>2, <1>4, <1>8 DEF Types, Sound
<1>10. ASSUME NEW i \in 0..(n - 1), Keep(before[i])
       PROVE  i - Gap(i) \in 0..(n - r - 1) /\ data'[i - Gap(i)] = before[i]
  <2>1. CASE i \in 0..(d + r - 1)
    <3>1. i - Gap(i) \in 0..(d - 1) /\ data[i - Gap(i)] = before[i]
      BY <1>3, <1>10, <2>1
    <3>2. i - Gap(i) \in Slots /\ i - Gap(i) \notin d..(n - r - 1) /\ i - Gap(i) \in 0..(n - r - 1)
      BY <1>1, <1>2, <3>1
    <3> QED
      BY <1>6, <3>1, <3>2
  <2>2. CASE i \notin 0..(d + r - 1)
    <3>1. i \in (d + r)..n /\ i \in (d + r)..(n - 1)
      BY <1>2, <2>2
    <3>2. Gap(i) = r /\ data[i] = before[i]
      BY <1>3, <3>1
    <3>3. i - r \in d..(n - r - 1) /\ i - r \in 0..(n - r - 1) /\ (i - r) + r = i
      BY <1>2, <3>1
    <3>4. data'[i - r] = data[(i - r) + r]
      BY <1>6, <1>7, <3>3
    <3> QED
      BY <3>2, <3>3, <3>4
  <2> QED
    BY <2>1, <2>2
<1>11. ASSUME NEW p \in 0..(n - r - 1)
       PROVE  \E i \in 0..(n - 1) : Keep(before[i]) /\ p = i - Gap(i) /\ data'[p] = before[i]
  <2>1. CASE p \in 0..(d - 1)
    <3>1. PICK i \in 0..(d + r - 1) : Keep(before[i]) /\ p = i - Gap(i)
      BY <1>3, <2>1
    <3>2. i \in 0..(n - 1)
      BY <1>2, <3>1
    <3> QED
      BY <1>10, <3>1, <3>2
  <2>2. CASE p \notin 0..(d - 1)
    <3>1. /\ p + r \in (d + r)..n /\ p + r \in 0..(n - 1)
          /\ p + r + 1 \in (d + r)..n /\ p + r \in Nat /\ (p + r) - r = p
      BY <1>2, <2>2
    <3>2. Gap(p + r) = r /\ Gap(p + r + 1) = r
      BY <1>3, <3>1
    <3>3. Keep(before[p + r])
      BY <1>2, <3>1, <3>2, GapStep
    <3> QED
      BY <1>10, <3>1, <3>2, <3>3
  <2> QED
    BY <2>1, <2>2
<1>12. Clean(data, vec_len)'
  <2>1. ASSUME NEW p \in 0..(n - r - 1) PROVE data'[p] \in Record
    BY <1>2, <1>11 DEF Clean
  <2>2. ASSUME NEW p \in 0..(n - r - 1), NEW q \in 0..(n - r - 1), data'[p].vote = data'[q].vote
        PROVE  p = q
    <3>1. PICK i \in 0..(n - 1) : p = i - Gap(i) /\ data'[p] = before[i]
      BY <1>11
    <3>2. PICK j \in 0..(n - 1) : q = j - Gap(j) /\ data'[q] = before[j]
      BY <1>11
    <3>3. i = j
      BY <1>2, <2>2, <3>1, <3>2 DEF Clean
    <3> QED
      BY <3>1, <3>2, <3>3
  <2> QED
    BY <1>4, <2>1, <2>2 DEF Clean
<1>13. RetainIsFilter'
  <2>1. Gap(n) = r
    BY <1>2, <1>3
  <2>2. \A i \in 0..(n - 1) : Keep(before[i]) => data'[i - Gap(i)] = before[i]
    BY <1>10
  <2> QED
    BY <1>2, <1>4, <1>5, <2>1, <2>2 DEF RetainIsFilter, Gap, Keep
<1> QED
  BY <1>4, <1>9, <1>12, <1>13 DEF Sound

\* The cleanup returns.
LEMMA ReturnSound ==
    ASSUME Sound, Return
    PROVE  Sound'
<1> USE DEF Sound, Return, Finish
<1>1. max_validators \in Nat /\ max_validators' = max_validators /\ Slots' = Slots
  BY SameSlots
<1>2. Types'
  BY <1>1 DEF Types
<1> QED
  BY <1>2 DEF Clean, RetainIsFilter

\* The invariant is inductive.
LEMMA NextSound == Sound /\ [Next]_vars => Sound'
<1> SUFFICES ASSUME Sound, [Next]_vars PROVE Sound'
  OBVIOUS
<1>1. CASE UNCHANGED vars
  <2>1. /\ buffer' = buffer /\ data' = data /\ vec_len' = vec_len /\ pc' = pc /\ element' = element
        /\ start_index' = start_index /\ removals_found' = removals_found
        /\ dst_start_index' = dst_start_index /\ saved' = saved
    BY <1>1 DEF vars, loop
  <2>2. max_validators' = max_validators /\ Slots' = Slots
    BY <2>1 DEF max_validators, calculate_max_validators, Slots
  <2>3. \A i : Removed(i)' = Removed(i) /\ Gap(i)' = Gap(i)
    BY <2>1 DEF Removed, Gap, Keep
  <2>4. Types' /\ (Retaining => Retaining') /\ RetainIsFilter'
    BY <2>1, <2>2, <2>3 DEF Sound, Types, Retaining, RetainIsFilter, Keep
  <2>5. /\ Clean(data, vec_len)' = Clean(data, vec_len)
        /\ Clean(data, vec_len - 1)' = Clean(data, vec_len - 1)
        /\ Clean(saved[1], vec_len)' = Clean(saved[1], vec_len)
        /\ Absent(element.vote, vec_len)' = Absent(element.vote, vec_len)
        /\ Absent(element.vote, vec_len - 1)' = Absent(element.vote, vec_len - 1)
    BY <2>1 DEF Clean, Absent
  <2> QED
    BY <2>1, <2>2, <2>4, <2>5 DEF Sound
<1>2. CASE \E vote \in Votes : AddValidatorToPool(vote) \/ UpdateRecord(vote)
  BY <1>2, AddSound, UpdateRecordSound
<1>3. CASE \E skip \in 0..vec_len, len \in 1..vec_len : UpdateSlice(skip, len)
  BY <1>3, UpdateSliceSound
<1>4. CASE PushLength \/ PushElement
  BY <1>4, PushLengthSound, PushElementSound
<1>5. CASE CleanupRemovedValidatorEntries \/ RetainKeep \/ RetainDrop \/ RetainEnd \/ Return
  BY <1>5, CleanupSound, RetainKeepSound, RetainDropSound, RetainEndSound, ReturnSound
<1> QED
  BY <1>1, <1>2, <1>3, <1>4, <1>5 DEF Next

\* Sound holds in every state.
THEOREM AlwaysSound == Spec => []Sound
BY InitSound, NextSound, PTL DEF Spec

\* The length stays within the account and the slots below it hold records.
THEOREM ListTypes == Spec => []BigVecTypeOK
<1>1. Sound => BigVecTypeOK
  <2> SUFFICES ASSUME Sound PROVE BigVecTypeOK
    OBVIOUS
  <2>1. max_validators \in Nat
    BY SlotsCount DEF Sound, Types
  <2>2. ASSUME NEW i \in 0..(vec_len - 1), data[i] = Blank
        PROVE  pc = "pushed_length" /\ i = vec_len - 1
    BY <2>1, <2>2, BlankAssumption DEF Sound, Types, Clean
  <2> QED
    BY <2>1, <2>2 DEF Sound, Types, BigVecTypeOK
<1> QED
  BY <1>1, AlwaysSound, PTL

\* push, which writes the length before it looks for room, always finds room.
THEOREM PushAlwaysFits == Spec => []PushNeverRefused
<1>1. Sound => PushNeverRefused
  <2> SUFFICES ASSUME Sound, pc = "pushed_length" PROVE HasRoom
    BY DEF PushNeverRefused
  <2>1. vec_len \in Nat /\ vec_len >= 1 /\ vec_len <= max_validators
    BY SlotsCount DEF Sound, Types
  <2> QED
    BY <2>1, SlotsCount DEF HasRoom, Sound, Types
<1> QED
  BY <1>1, AlwaysSound, PTL

\* No validator ever has two records.
THEOREM OneRecordEach == Spec => []VotesDistinct
<1>1. Sound => VotesDistinct
  BY DEF Sound, Clean, VotesDistinct
<1> QED
  BY <1>1, AlwaysSound, PTL

\* retain computes the filter of the list, in place.
THEOREM RetainFilters == Spec => []RetainIsFilter
<1>1. Sound => RetainIsFilter
  BY DEF Sound
<1> QED
  BY <1>1, AlwaysSound, PTL
=============================================================================
