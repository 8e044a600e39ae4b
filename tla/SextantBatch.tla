---------------------------- MODULE SextantBatch ----------------------------
(***************************************************************************)
(* What sextant_query_batch does with the answers of its queries: it packs *)
(* them one behind the other, keeps how many each query had, and hands     *)
(* them out in chunks, each row with the number of its query, which it     *)
(* finds again from the row's position.  sextant_query is a batch of one.  *)
(* A result is named by its query and its rank in that query's answer.     *)
(***************************************************************************)
EXTENDS Naturals, Sequences

CONSTANTS MaxQueries,  \* bound: queries of a batch
          MaxAnswers,  \* bound: results of a query (k)
          BatchSize    \* STANDARD_VECTOR_SIZE

ASSUME BatchAssumption ==
    /\ MaxQueries \in Nat \ {0} /\ MaxAnswers \in Nat
    /\ BatchSize \in Nat \ {0}

VARIABLES n_queries,    \* queries of the batch
          n_per_query,  \* results of each so far, as running totals
          row_ids,      \* the packed results, <<query, rank>>
          offset,       \* how many have been handed out
          output        \* what has been, <<query_index, result>>

batch == <<n_queries, n_per_query, row_ids, offset, output>>

Results == (1 .. MaxQueries) \X (1 .. MaxAnswers)

BatchTypeOK ==
    /\ n_queries \in 1 .. MaxQueries
    /\ n_per_query \in Seq(Nat) /\ Len(n_per_query) <= n_queries
    /\ row_ids \in Seq(Results)
    /\ offset \in 0 .. Len(row_ids)
    /\ output \in Seq((1 .. MaxQueries) \X Results)

NewBatch(n) ==
    /\ n_queries' = n
    /\ n_per_query' = <<>> /\ row_ids' = <<>>
    /\ offset' = 0 /\ output' = <<>>

BatchInit ==
    /\ n_queries = 1
    /\ n_per_query = <<>> /\ row_ids = <<>>
    /\ offset = 0 /\ output = <<>>

AllPacked  == Len(n_per_query) = n_queries
HandedOut  == AllPacked /\ offset = Len(row_ids)

(* The n results of the next query.                                        *)
Pack(n) ==
    /\ ~AllPacked
    /\ row_ids' = row_ids \o [i \in 1 .. n |-> <<Len(n_per_query) + 1, i>>]
    /\ n_per_query' = Append(n_per_query, Len(row_ids) + n)
    /\ UNCHANGED <<n_queries, offset, output>>

(* The query of the result at a position (from 0): the first that ends     *)
(* past it, or the last one.                                               *)
QueryAtLate(r) ==
    CHOOSE q \in 1 .. n_queries :
        /\ q = n_queries \/ n_per_query[q] >= r
        /\ \A p \in 1 .. q - 1 : n_per_query[p] < r
QueryAt(r) ==
    CHOOSE q \in 1 .. n_queries :
        /\ q = n_queries \/ n_per_query[q] > r
        /\ \A p \in 1 .. q - 1 : n_per_query[p] <= r

ChunkCount == IF Len(row_ids) - offset < BatchSize THEN Len(row_ids) - offset ELSE BatchSize

Emit ==
    /\ AllPacked /\ ~HandedOut
    /\ output' = output \o [i \in 1 .. ChunkCount |->
                               <<QueryAt(offset + i - 1), row_ids[offset + i]>>]
    /\ offset' = offset + ChunkCount
    /\ UNCHANGED <<n_queries, n_per_query, row_ids>>

BatchNext ==
    \/ \E n \in 0 .. MaxAnswers : Pack(n)
    \/ Emit
    \/ /\ HandedOut \/ n_per_query = <<>>
       /\ \E n \in 1 .. MaxQueries : NewBatch(n)

BatchSpec == BatchInit /\ [][BatchNext]_batch

(* Results are handed out in order, none twice and none left out, each     *)
(* under the number of the query it answers -- whatever chunk it falls     *)
(* into and however many queries before it had no result.                  *)
BatchNumbered ==
    /\ Len(output) = offset
    /\ \A i \in DOMAIN output : output[i] = <<row_ids[i][1], row_ids[i]>>
=============================================================================
