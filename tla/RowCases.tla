------------------------------ MODULE RowCases ------------------------------
(***************************************************************************)
(* The users of a RowContainer: the marshaller's on_init ("any"), which may *)
(* store nulls, and the drivers' loops over rows, varchar blocks and        *)
(* aggregates.  A driver makes one container, goes over its rows once to    *)
(* fill it and, in some cases, once more to use what it filled.             *)
(***************************************************************************)
EXTENDS RowContainer

CONSTANTS
    Cases,          \* the drivers' cases that are run
    CaseLayout,     \* four varchars in the code
    CaseStrings,
    NUM_ROWS,       \* NUM_ROWS, NUM_OPS or total_rows, 10^6 and more
    NUM_KEYS,       \* rows bench_accumulate adds the values to
    Values          \* Values[i], the aggregate of the i-th row

ASSUME CaseAssumption ==
    /\ CaseLayout \in Layouts
    /\ CaseStrings \subseteq Strings
    /\ NUM_ROWS \in 1 .. MaxRows /\ NUM_KEYS \in 1 .. NUM_ROWS
    /\ Values \in Seq(Nat) /\ Len(Values) >= MaxRows

VARIABLES
    case,           \* "any" or one of Cases
    data,           \* str_cols: the strings of each row of a driver
    pass,           \* "fill", "use" or "done"
    row_idx,        \* the row the loop is at
    blocks,         \* arena_blocks: addresses of varchar blocks without a row
    aggs,           \* the aggregates, by the address of their row
    total           \* match_count, or the sum of the values used so far

caseVars == <<case, data, pass, row_idx, blocks, aggs, total>>
rowVars == <<vars, caseVars>>

CaseInit ==
    /\ Init
    /\ pass = "fill" /\ row_idx = 1
    /\ blocks = <<>> /\ aggs = <<>> /\ total = 0
    /\ \/ case = "any" /\ data = <<>>
       \/ /\ case \in Cases
          /\ key_sizes = CaseLayout
          /\ data \in [1 .. NUM_ROWS -> Varchars(CaseStrings)]

-----------------------------------------------------------------------------
AddressOf(r) == <<r.chunk, r.at>>

(* store_value at agg_state_offset of a row. *)
Stored(r, v) ==
    [a \in DOMAIN aggs \cup {AddressOf(r)} |-> IF a = AddressOf(r) THEN v ELSE aggs[a]]

(* NUM_KEYS rows are made by bench_accumulate, one per row of input else. *)
FillEnd == IF case = "accumulate" THEN NUM_KEYS ELSE NUM_ROWS
Uses == case \in {"compare_only", "compare_varchar", "store_value", "accumulate"}

Advance(end, next) ==
    IF row_idx < end THEN row_idx' = row_idx + 1 /\ pass' = pass ELSE row_idx' = 1 /\ pass' = next
Filling == pass = "fill" /\ Advance(FillEnd, IF Uses THEN "use" ELSE "done")

AnyRow(values) ==
    /\ case = "any"
    /\ StoreRow(values)
    /\ aggs' = Stored(rows'[Len(rows')], Values[Len(rows')])
    /\ total' = total + Values[Len(rows')]
    /\ UNCHANGED <<case, data, pass, row_idx, blocks>>

(* run_serialize_only: row, varchar block, slot and aggregate. *)
SerializeOnly ==
    /\ case = "serialize_only" /\ Filling
    /\ StoreRow(data[row_idx])
    /\ aggs' = Stored(rows'[row_idx], Values[row_idx])
    /\ total' = total + Values[row_idx]
    /\ UNCHANGED <<case, data, blocks>>

(* The first loop of run_compare_only. *)
RowForCompare ==
    /\ case = "compare_only" /\ Filling
    /\ StoreRow(data[row_idx])
    /\ blocks' = Append(blocks, rows'[row_idx].slot)
    /\ UNCHANGED <<case, data, aggs, total>>

(* bench_serialize and the first loop of bench_compare_varchar: no rows. *)
SerializeBlock ==
    /\ case \in {"serialize", "compare_varchar"} /\ Filling
    /\ LET size == TotalSize(data[row_idx]) IN
         /\ blocks' = Append(blocks, Placed(size))
         /\ BecomeArena(Allocated(Current, size))
         /\ mem' = WriteBlock(mem, Placed(size), data[row_idx])
    /\ UNCHANGED <<key_sizes, row_blocks, batch_remaining, rows, stored, case, data, aggs, total>>

(* Rows without keys; bench_accumulate sets their aggregates to 0. *)
NewRow ==
    /\ case \in {"new_row", "store_value", "accumulate"} /\ Filling
    /\ StoreRow(<<>>)
    /\ aggs' = IF case = "accumulate" THEN Stored(rows'[row_idx], 0) ELSE aggs
    /\ UNCHANGED <<case, data, blocks, total>>

Using == pass = "use" /\ Advance(NUM_ROWS, "done")

(* The columns of one block against those of its row of input, from entry *)
(* to entry by compute_varchar_serialized_size.                            *)
AllMatch(block, values) ==
    LET found == WalkBlock(mem, block, [v \in DOMAIN values |-> FALSE]) IN
    \A v \in DOMAIN values : CompareFromRow(found[v], values[v])

Compare ==
    /\ case \in {"compare_only", "compare_varchar"} /\ Using
    /\ total' = total + (IF AllMatch(blocks[row_idx], data[row_idx]) THEN 1 ELSE 0)
    /\ UNCHANGED <<vars, case, data, blocks, aggs>>

StoreValue ==
    /\ case = "store_value" /\ Using
    /\ aggs' = Stored(rows[row_idx], Values[row_idx])
    /\ total' = total + Values[row_idx]
    /\ UNCHANGED <<vars, case, data, blocks>>

(* rows[i % num_keys], i counting from 0 *)
Accumulate ==
    /\ case = "accumulate" /\ Using
    /\ LET r == rows[((row_idx - 1) % NUM_KEYS) + 1] IN aggs' = Stored(r, aggs[AddressOf(r)] + Values[row_idx])
    /\ total' = total + Values[row_idx]
    /\ UNCHANGED <<vars, case, data, blocks>>

CaseStep ==
    \/ SerializeOnly \/ RowForCompare \/ SerializeBlock \/ NewRow
    \/ Compare \/ StoreValue \/ Accumulate

CaseNext ==
    \/ \E values \in Varchars(Strings \cup {None}) : AnyRow(values)
    \/ CaseStep

CaseSpec == CaseInit /\ [][CaseNext]_rowVars

(* What agg_i64_checksum adds up; the block behind the rows is zero. *)
Checksum ==
    LET read == ChecksumRows
        value == [n \in DOMAIN read |->
                    IF AddressOf(read[n]) \in DOMAIN aggs THEN aggs[AddressOf(read[n])] ELSE 0]
    IN SumTo(value, Len(read))
-----------------------------------------------------------------------------
(* Properties. *)

AggregatesRight ==
    /\ Checksum = total
    /\ case \in {"any", "serialize_only"} =>
          \A n \in DOMAIN rows : aggs[AddressOf(rows[n])] = Values[n]
ComparisonsMatch ==
    total = CASE pass = "fill" -> 0 [] pass = "use" -> row_idx - 1 [] OTHER -> NUM_ROWS

(***************************************************************************)
(* What a case adds up is right.  A value stored in or added to a row stays *)
(* in the row's own aggregate, and the checksum's walk over the blocks      *)
(* finds it, whatever blocks, rows and varchars came after it; a comparison *)
(* finds every string that was serialized, in an arena it shares with rows. *)
(***************************************************************************)
ResultsRight ==
    IF case \in {"compare_only", "compare_varchar"} THEN ComparisonsMatch ELSE AggregatesRight
=============================================================================
