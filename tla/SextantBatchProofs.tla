------------------------- MODULE SextantBatchProofs -------------------------
(***************************************************************************)
(* Proofs about SextantBatch, for any number of queries, any number of     *)
(* results of each and any chunk size: the results are handed out in       *)
(* order, each under the number of its query.                              *)
(***************************************************************************)
EXTENDS SextantBatch, SequenceTheorems, TLAPS

USE BatchAssumption

(* The running totals end at what is packed.                               *)
TotalsInv ==
    /\ \A q \in DOMAIN n_per_query : n_per_query[q] <= Len(row_ids)
    /\ n_per_query = <<>> => row_ids = <<>>

(* A result lies where its query's part of the packed results is: before   *)
(* the total of its query, and not before that of an earlier one.          *)
Lies(r, q) ==
    /\ q \in DOMAIN n_per_query
    /\ r < n_per_query[q]
    /\ \A p \in 1 .. q - 1 : n_per_query[p] <= r

PlaceInv == \A r \in 0 .. Len(row_ids) - 1 : Lies(r, row_ids[r + 1][1])

IInv == BatchTypeOK /\ TotalsInv /\ PlaceInv /\ BatchNumbered

(* What counting the totals finds is where the result lies.                *)
LEMMA QueryAtLies ==
    ASSUME BatchTypeOK, AllPacked,
           NEW r \in Nat, NEW q \in 1 .. MaxQueries, Lies(r, q)
    PROVE  QueryAt(r) = q
<1> DEFINE Found(p) == /\ p = n_queries \/ n_per_query[p] > r
                       /\ \A o \in 1 .. p - 1 : n_per_query[o] <= r
<1>1. DOMAIN n_per_query = 1 .. n_queries /\ n_queries \in Nat
    BY DEF BatchTypeOK, AllPacked
<1>2. \A p \in 1 .. n_queries : n_per_query[p] \in Nat
    BY <1>1 DEF BatchTypeOK
<1>3. q \in 1 .. n_queries /\ Found(q)
    BY <1>1, <1>2 DEF Lies
<1>4. ASSUME NEW p \in 1 .. n_queries, Found(p) PROVE p = q
    <2>1. CASE p < q
        <3>1. p \in 1 .. q - 1 /\ p # n_queries
            BY <1>1, <1>3, <2>1
        <3>2. n_per_query[p] <= r /\ n_per_query[p] > r
            BY <1>4, <3>1 DEF Lies
        <3> QED
            BY <1>2, <3>2
    <2>2. CASE p > q
        <3>1. q \in 1 .. p - 1
            BY <1>1, <2>2
        <3>2. n_per_query[q] <= r /\ r < n_per_query[q]
            BY <1>4, <3>1 DEF Lies
        <3> QED
            BY <1>2, <1>3, <3>2
    <2> QED
        BY <1>1, <1>3, <2>1, <2>2
<1>5. QueryAt(r) = CHOOSE p \in 1 .. n_queries : Found(p)
    BY DEF QueryAt
<1> HIDE DEF Found
<1> QED
    BY <1>3, <1>4, <1>5

(* A batch begins with nothing packed and nothing handed out.              *)
LEMMA InitHolds == BatchInit => IInv
BY DEF BatchInit, IInv, BatchTypeOK, TotalsInv, PlaceInv, BatchNumbered

(* So does every further one.                                              *)
LEMMA NewBatchKeeps ==
    ASSUME IInv, NEW n \in 1 .. MaxQueries, NewBatch(n)
    PROVE  IInv'
BY DEF NewBatch, IInv, BatchTypeOK, TotalsInv, PlaceInv, BatchNumbered

(* Packing puts the new results behind the others and their total behind   *)
(* the other totals; what was there stays where it was.                    *)
LEMMA PackKeeps ==
    ASSUME IInv, NEW n \in 0 .. MaxAnswers, Pack(n)
    PROVE  IInv'
<1> DEFINE query   == Len(n_per_query) + 1
           results == [i \in 1 .. n |-> <<query, i>>]
<1>1. /\ row_ids \in Seq(Results) /\ n_per_query \in Seq(Nat)
      /\ n_queries \in 1 .. MaxQueries /\ Len(n_per_query) < n_queries
    BY DEF IInv, BatchTypeOK, Pack, AllPacked
<1>0. query \in Nat /\ query >= 1 /\ Len(row_ids) \in Nat /\ n \in Nat
    BY <1>1
<1>2. results \in Seq(Results) /\ Len(results) = n
    <2>1. \A i \in 1 .. n : <<query, i>> \in Results
        BY <1>1 DEF Results
    <2> QED
        BY <2>1
<1>3. /\ row_ids' = row_ids \o results
      /\ row_ids' \in Seq(Results)
      /\ Len(row_ids') = Len(row_ids) + n
      /\ \A i \in 1 .. Len(row_ids) : row_ids'[i] = row_ids[i]
      /\ \A i \in Len(row_ids) + 1 .. Len(row_ids) + n : row_ids'[i] = results[i - Len(row_ids)]
    BY <1>1, <1>2 DEF Pack
<1>4. /\ n_per_query' \in Seq(Nat)
      /\ DOMAIN n_per_query = 1 .. query - 1 /\ DOMAIN n_per_query' = 1 .. query
      /\ Len(n_per_query') = query
      /\ \A q \in 1 .. query - 1 : /\ n_per_query'[q] = n_per_query[q]
                                   /\ n_per_query[q] \in Nat
                                   /\ n_per_query[q] <= Len(row_ids)
      /\ n_per_query'[query] = Len(row_ids) + n
    BY <1>1 DEF Pack, IInv, TotalsInv
<1>5. UNCHANGED <<n_queries, offset, output>>
    BY DEF Pack
<1>6. BatchTypeOK'
    BY <1>1, <1>3, <1>4, <1>5 DEF IInv, BatchTypeOK
<1> HIDE DEF query, results
<1>7. TotalsInv'
    <2>1. n_per_query' # <<>>
        BY <1>0, <1>4
    <2>2. \A q \in DOMAIN n_per_query' : n_per_query'[q] <= Len(row_ids')
        <3> SUFFICES ASSUME NEW q \in 1 .. query PROVE n_per_query'[q] <= Len(row_ids) + n
            BY <1>3, <1>4
        <3>1. CASE q = query
            BY <1>0, <1>4, <3>1
        <3>2. CASE q \in 1 .. query - 1
            BY <1>0, <1>4, <3>2
        <3> QED
            BY <1>0, <3>1, <3>2
    <2> QED
        BY <2>1, <2>2 DEF TotalsInv
<1>8. PlaceInv'
    <2> SUFFICES ASSUME NEW r \in 0 .. Len(row_ids') - 1
                 PROVE  /\ row_ids'[r + 1][1] \in DOMAIN n_per_query'
                        /\ r < n_per_query'[row_ids'[r + 1][1]]
                        /\ \A p \in 1 .. row_ids'[r + 1][1] - 1 : n_per_query'[p] <= r
        BY DEF PlaceInv, Lies
    <2>1. CASE r < Len(row_ids)
        <3>1. row_ids'[r + 1] = row_ids[r + 1] /\ r \in 0 .. Len(row_ids) - 1
            BY <1>1, <1>3, <2>1
        <3>2. Lies(r, row_ids[r + 1][1])
            BY <3>1 DEF IInv, PlaceInv
        <3>3. /\ row_ids[r + 1][1] \in 1 .. query - 1
              /\ r < n_per_query[row_ids[r + 1][1]]
              /\ \A p \in 1 .. row_ids[r + 1][1] - 1 : n_per_query[p] <= r
            BY <1>4, <3>2 DEF Lies
        <3>4. \A p \in 1 .. row_ids[r + 1][1] : p \in 1 .. query - 1
            BY <1>0, <3>3
        <3>5. \A p \in 1 .. row_ids[r + 1][1] : n_per_query'[p] = n_per_query[p]
            BY <1>4, <3>4
        <3>6. row_ids[r + 1][1] \in 1 .. row_ids[r + 1][1]
            BY <1>0, <3>3
        <3>7. row_ids[r + 1][1] \in DOMAIN n_per_query'
            BY <1>0, <1>4, <3>3
        <3>8. \A p \in 1 .. row_ids[r + 1][1] - 1 : n_per_query'[p] <= r
            BY <1>0, <3>3, <3>5
        <3> QED
            BY <3>1, <3>3, <3>5, <3>6, <3>7, <3>8
    <2>2. CASE r >= Len(row_ids)
        <3>1. r + 1 \in Len(row_ids) + 1 .. Len(row_ids) + n
            BY <1>1, <1>3, <2>2
        <3>2. row_ids'[r + 1][1] = query
            BY <1>0, <1>3, <3>1 DEF results
        <3>3. \A p \in 1 .. query - 1 : n_per_query'[p] <= r
            BY <1>0, <1>4, <2>2
        <3>4. r < n_per_query'[query] /\ query \in DOMAIN n_per_query'
            BY <1>0, <1>3, <1>4
        <3> QED
            BY <3>2, <3>3, <3>4
    <2> QED
        BY <1>1, <1>3, <2>1, <2>2
<1>9. BatchNumbered'
    BY <1>1, <1>3, <1>5 DEF IInv, BatchNumbered, BatchTypeOK
<1> QED
    BY <1>6, <1>7, <1>8, <1>9 DEF IInv

(* A chunk continues where the last one ended, each of its rows under the  *)
(* number of the query at its position.                                    *)
LEMMA EmitKeeps ==
    ASSUME IInv, Emit
    PROVE  IInv'
<1> DEFINE Out   == (1 .. MaxQueries) \X Results
           count == ChunkCount
           chunk == [i \in 1 .. count |-> <<QueryAt(offset + i - 1), row_ids[offset + i]>>]
<1>1. /\ row_ids \in Seq(Results) /\ offset \in 0 .. Len(row_ids) /\ output \in Seq(Out)
      /\ Len(output) = offset
    BY DEF IInv, BatchTypeOK, BatchNumbered
<1>2. count \in Nat /\ offset + count <= Len(row_ids)
    BY <1>1 DEF ChunkCount
<1>3. \A i \in 1 .. count : /\ chunk[i] = <<row_ids[offset + i][1], row_ids[offset + i]>>
                            /\ chunk[i] \in Out
    <2> SUFFICES ASSUME NEW i \in 1 .. count
                 PROVE  /\ chunk[i] = <<row_ids[offset + i][1], row_ids[offset + i]>>
                        /\ chunk[i] \in Out
        OBVIOUS
    <2>1. offset + i - 1 \in 0 .. Len(row_ids) - 1 /\ offset + i \in 1 .. Len(row_ids)
        BY <1>1, <1>2
    <2>2. row_ids[offset + i] \in Results
        BY <1>1, <2>1
    <2>3. Lies(offset + i - 1, row_ids[offset + i][1])
        BY <1>1, <2>1 DEF IInv, PlaceInv
    <2>4. QueryAt(offset + i - 1) = row_ids[offset + i][1]
        BY <2>1, <2>2, <2>3, QueryAtLies DEF IInv, Emit, Results
    <2> QED
        BY <2>2, <2>4 DEF Results
<1>4. chunk \in Seq(Out) /\ Len(chunk) = count
    BY <1>2, <1>3
<1>5. /\ output' = output \o chunk /\ output' \in Seq(Out)
      /\ Len(output') = offset + count
      /\ \A i \in 1 .. offset : output'[i] = output[i]
      /\ \A i \in offset + 1 .. offset + count : output'[i] = chunk[i - offset]
    <2>1. output' = output \o chunk
        BY DEF Emit
    <2> HIDE DEF Out, chunk, count
    <2>2. /\ output \o chunk \in Seq(Out)
          /\ Len(output \o chunk) = Len(output) + Len(chunk)
          /\ \A i \in 1 .. Len(output) + Len(chunk) : (output \o chunk)[i] =
                IF i <= Len(output) THEN output[i] ELSE chunk[i - Len(output)]
        BY <1>1, <1>4, ConcatProperties
    <2> QED
        BY <1>1, <1>2, <1>4, <2>1, <2>2
<1>6. offset' = offset + count /\ UNCHANGED <<n_queries, n_per_query, row_ids>>
    BY DEF Emit
<1>7. BatchTypeOK'
    <2>1. offset' \in 0 .. Len(row_ids')
        BY <1>1, <1>2, <1>6
    <2> QED
        BY <1>5, <1>6, <2>1 DEF IInv, BatchTypeOK
<1>8. ASSUME NEW i \in 1 .. offset + count
      PROVE  output'[i] = <<row_ids[i][1], row_ids[i]>>
    <2>1. CASE i \in 1 .. offset
        <3>1. i \in DOMAIN output
            BY <1>1, <2>1
        <3> QED
            BY <1>5, <2>1, <3>1 DEF IInv, BatchNumbered
    <2>2. CASE i \in offset + 1 .. offset + count
        <3>1. i - offset \in 1 .. count /\ offset + (i - offset) = i
            BY <1>1, <1>2, <2>2
        <3> QED
            BY <1>3, <1>5, <2>2, <3>1
    <2> QED
        BY <1>1, <1>2, <1>8, <2>1, <2>2
<1>9. BatchNumbered'
    <2>1. DOMAIN output' = 1 .. offset + count
        BY <1>1, <1>2, <1>5
    <2> HIDE DEF count
    <2> QED
        BY <1>5, <1>6, <1>8, <2>1 DEF BatchNumbered
<1> QED
    BY <1>6, <1>7, <1>9 DEF IInv, TotalsInv, PlaceInv, Lies

(* The invariant holds of every reachable state of a batch.                *)
LEMMA BatchInvariance == BatchSpec => []IInv
<1>1. IInv /\ [BatchNext]_batch => IInv'
    <2> SUFFICES ASSUME IInv, [BatchNext]_batch PROVE IInv'
        OBVIOUS
    <2>1. ASSUME NEW n \in 0 .. MaxAnswers, Pack(n) PROVE IInv'
        BY <2>1, PackKeeps
    <2>2. CASE Emit
        BY <2>2, EmitKeeps
    <2>3. ASSUME NEW n \in 1 .. MaxQueries, NewBatch(n) PROVE IInv'
        BY <2>3, NewBatchKeeps
    <2>4. CASE UNCHANGED batch
        BY <2>4 DEF batch, IInv, BatchTypeOK, TotalsInv, PlaceInv, Lies, BatchNumbered
    <2> QED
        BY <2>1, <2>2, <2>3, <2>4 DEF BatchNext
<1> QED
    BY <1>1, InitHolds, PTL DEF BatchSpec

(* The packed results, their totals and what has been handed out keep      *)
(* their types, and the offset stays within the results.                   *)
THEOREM BatchTypeCorrect == BatchSpec => []BatchTypeOK
BY BatchInvariance, PTL DEF IInv

(* sextant_query_batch hands its results out in order, none twice, each    *)
(* under the number of the query it answers, for any batch and chunk size. *)
THEOREM RowsNumbered == BatchSpec => []BatchNumbered
BY BatchInvariance, PTL DEF IInv
=============================================================================
