----------------------------- MODULE Difficulty -----------------------------
(***************************************************************************)
(* The 256-bit arithmetic and the retarget rule of core/consensus.rs.      *)
(*                                                                         *)
(* A U256 is four limbs, the least significant first, of LimbBits bits     *)
(* instead of 64.  The loops of the code are functions of the limb or bit; *)
(* the arithmetic wraps where the code's wraps.  One machine draws two     *)
(* operands and checks every operation on them.  The other one is a chain  *)
(* of headers that starts with the target of genesis, all ones, and is     *)
(* extended by any header the rules for timestamp and target accept; it    *)
(* keeps the headers of the last RETARGET_INTERVAL blocks.                 *)
(***************************************************************************)
EXTENDS Integers, Sequences, SequencesExt

CONSTANTS
    LimbBits,                  \* 64
    RETARGET_INTERVAL,         \* 2016
    MEDIAN_TIME_WINDOW,        \* 11
    TARGET_BLOCK_TIME,         \* 600
    MAX_TARGET_CHANGE_FACTOR,  \* 4
    Operands,                  \* values of the second operand
    MaxHeaders,                \* bound on the chain
    MaxTimestamp               \* bound on timestamps

ASSUME DifficultyBounds ==
    /\ LimbBits \in Nat \ {0} /\ RETARGET_INTERVAL \in Nat \ {0, 1}
    /\ MEDIAN_TIME_WINDOW \in 1 .. RETARGET_INTERVAL
    /\ TARGET_BLOCK_TIME \in Nat \ {0} /\ MAX_TARGET_CHANGE_FACTOR \in Nat \ {0}

VARIABLES
    operands,    \* two numbers, or none
    headers,     \* the last headers of the chain: timestamp and target
    height       \* the index of the next block

difficulty_vars == <<operands, headers, height>>

Base == 2 ^ LimbBits
Zero == [i \in 0 .. 3 |-> 0]
MaxU256 == [i \in 0 .. 3 |-> Base - 1]

\* u256_from_bytes and u256_to_bytes: limbs and the number they stand for.
U256(n) == [i \in 0 .. 3 |-> (n \div Base ^ i) % Base]
Number(v) == v[0] + Base * v[1] + Base ^ 2 * v[2] + Base ^ 3 * v[3]

\* Mutant: the least significant limb decides first.
GtFromBelow(a, b) ==
    \E i \in 0 .. 3 : a[i] > b[i] /\ \A j \in 0 .. i - 1 : a[j] = b[j]

u256_gt(a, b) == \E i \in 0 .. 3 : a[i] > b[i] /\ \A j \in i + 1 .. 3 : a[j] = b[j]
u256_le(a, b) == ~u256_gt(a, b)
u256_min(a, b) == IF u256_gt(a, b) THEN b ELSE a
u256_max(a, b) == IF u256_gt(b, a) THEN b ELSE a

\* Carries and borrows run from the least significant limb up.
u256_add(a, b) ==
    LET carry[i \in 0 .. 3] ==
            IF i = 0 THEN 0 ELSE (a[i - 1] + b[i - 1] + carry[i - 1]) \div Base
    IN  [i \in 0 .. 3 |-> (a[i] + b[i] + carry[i]) % Base]

\* Mutant: a carry does not carry on.
MulRowDropsCarry(r, a, b, i) ==
    LET add == [k \in i .. 7 |-> IF k - i > 3 THEN 0 ELSE a[i] * b[k - i]]
    IN  [k \in 0 .. 7 |->
            IF k < i THEN r[k]
            ELSE IF k = i THEN (r[k] + add[k]) % Base
            ELSE (r[k] + add[k] + (r[k - 1] + add[k - 1]) \div Base) % Base]

\* One row of the schoolbook product, a[i] * b added to r from column i on.
MulRow(r, a, b, i) ==
    LET add == [k \in i .. 7 |-> IF k - i > 3 THEN 0 ELSE a[i] * b[k - i]]
        carry[k \in i .. 7] ==
            IF k = i THEN 0 ELSE (r[k - 1] + add[k - 1] + carry[k - 1]) \div Base
    IN  [k \in 0 .. 7 |-> IF k < i THEN r[k] ELSE (r[k] + add[k] + carry[k]) % Base]

\* Eight limbs, of which the lower four are kept.
u256_mul(a, b) ==
    LET row0 == MulRow([k \in 0 .. 7 |-> 0], a, b, 0)
        row1 == MulRow(row0, a, b, 1)
        row2 == MulRow(row1, a, b, 2)
        row3 == MulRow(row2, a, b, 3)
    IN  [i \in 0 .. 3 |-> row3[i]]

u256_shl1(v) ==
    [r |-> [i \in 0 .. 3 |-> (2 * v[i] + (IF i = 0 THEN 0 ELSE (2 * v[i - 1]) \div Base)) % Base],
     carry |-> (2 * v[3]) \div Base]

u256_sub_assign(a, b) ==
    LET borrow[i \in 0 .. 3] ==
            IF i > 0 /\ a[i - 1] - b[i - 1] - borrow[i - 1] < 0 THEN 1 ELSE 0
    IN  [i \in 0 .. 3 |-> (a[i] - b[i] - borrow[i]) % Base]

BitOf(v, bit) == (v[bit \div LimbBits] \div 2 ^ (bit % LimbBits)) % 2

\* One bit of the long division: shift, bring down, subtract if it fits.
DivideBit(b, a, acc, bit) ==
    LET shl == u256_shl1(acc.remainder)
        shifted == [shl.r EXCEPT ![0] = @ + BitOf(a, bit)]
    IN  IF shl.carry = 1 \/ ~u256_gt(b, shifted)
        THEN [remainder |-> u256_sub_assign(shifted, b),
              quotient |-> [acc.quotient EXCEPT ![bit \div LimbBits] = @ + 2 ^ (bit % LimbBits)]]
        ELSE [acc EXCEPT !.remainder = shifted]

u256_div(a, b) ==
    LET step[n \in 0 .. 4 * LimbBits] ==
            IF n = 0 THEN [remainder |-> Zero, quotient |-> Zero]
            ELSE DivideBit(b, a, step[n - 1], 4 * LimbBits - n)
    IN  IF b = Zero \/ u256_gt(b, a) THEN Zero ELSE step[4 * LimbBits].quotient

u256_mul_sat(a, b) ==
    LET product == u256_mul(a, b)
    IN  IF a = Zero \/ b = Zero THEN Zero
        ELSE IF u256_div(product, b) = a THEN product ELSE MaxU256

work_from_target(target) ==
    IF target = Zero THEN Zero ELSE u256_div(MaxU256, target)

-----------------------------------------------------------------------------
(* The retarget rule *)

Sub(a, b) == IF a > b THEN a - b ELSE 0    \* saturating_sub
ExpectedTime == TARGET_BLOCK_TIME * (RETARGET_INTERVAL - 1)
ActualTime(chain) ==
    Sub(Last(chain).timestamp, chain[Len(chain) - RETARGET_INTERVAL + 1].timestamp)

Ceiling(prev) == u256_mul_sat(prev, U256(MAX_TARGET_CHANGE_FACTOR))
Floor(prev) == u256_div(prev, U256(MAX_TARGET_CHANGE_FACTOR))

\* The early returns, then the product, which may wrap.
compute_target(prev_blocks) ==
    LET prev == Last(prev_blocks).target
        actual == ActualTime(prev_blocks)
        scaled == u256_div(u256_mul(prev, U256(actual)), U256(ExpectedTime))
    IN  IF Len(prev_blocks) < RETARGET_INTERVAL THEN prev
        ELSE IF actual >= ExpectedTime * MAX_TARGET_CHANGE_FACTOR THEN Ceiling(prev)
        ELSE IF actual * MAX_TARGET_CHANGE_FACTOR <= ExpectedTime THEN Floor(prev)
        ELSE u256_min(u256_max(scaled, Floor(prev)), Ceiling(prev))

\* mine_block_inner and validate_target: the target of the block at index.
ExpectedTarget(chain, index) ==
    IF index % RETARGET_INTERVAL = 0 THEN compute_target(chain) ELSE Last(chain).target

median_time_past(chain) ==
    LET window == SubSeq(chain, Max({1, Len(chain) - MEDIAN_TIME_WINDOW + 1}), Len(chain))
    IN  SortSeq([i \in DOMAIN window |-> window[i].timestamp], <)[Len(window) \div 2 + 1]

GenesisHeaders ==
    /\ headers = <<[timestamp |-> 0, target |-> MaxU256]>>
    /\ height = 1

U256Init ==
    /\ operands \in {U256(n) : n \in 0 .. Base ^ 4 - 1} \X {U256(n) : n \in Operands}
    /\ GenesisHeaders

DifficultyInit == operands = <<>> /\ GenesisHeaders

\* Mining, or accepting, the header at height.
AppendHeader ==
    /\ height <= MaxHeaders
    /\ \E target \in {ExpectedTarget(headers, height)}, timestamp \in 1 .. MaxTimestamp :
          /\ timestamp > median_time_past(headers)
          /\ LET all == Append(headers, [timestamp |-> timestamp, target |-> target])
             IN  headers' = IF Len(all) > RETARGET_INTERVAL THEN Tail(all) ELSE all
    /\ height' = height + 1
    /\ UNCHANGED operands

DifficultyNext == AppendHeader

-----------------------------------------------------------------------------
\* Every operation on limbs, with its carries, borrows and wrapping, computes
\* what it should on all operands: sum and product modulo 2^256, the truncated
\* quotient (0 for a zero divisor), the saturated product, the order, and the
\* work of a target.
U256Exact ==
    operands # <<>> =>
    LET a == operands[1]
        b == operands[2]
        x == Number(a)
        y == Number(b)
        top == Base ^ 4
    IN  /\ u256_add(a, b) = U256((x + y) % top)
        /\ u256_mul(a, b) = U256((x * y) % top)
        /\ u256_div(a, b) = U256(IF y = 0 THEN 0 ELSE x \div y)
        /\ u256_mul_sat(a, b) = U256(IF x * y < top THEN x * y ELSE top - 1)
        /\ u256_gt(a, b) <=> x > y
        /\ u256_le(a, b) <=> x <= y
        /\ Number(u256_min(a, b)) <= Number(u256_max(a, b))
        /\ {u256_min(a, b), u256_max(a, b)} = {a, b}
        /\ work_from_target(a) = U256(IF x = 0 THEN 0 ELSE (top - 1) \div x)

Retarget == headers' # headers /\ height % RETARGET_INTERVAL = 0
Before == Number(Last(headers).target)
After == Number(Last(headers').target)

\* The target moves at the retarget heights only and by at most the factor in
\* each direction, whatever the timestamps are (the median rule lets them run
\* backwards) and however close the target is to 0 or to its maximum.
RetargetBounded ==
    [][ headers' # headers =>
          IF Retarget
          THEN /\ After >= Before \div MAX_TARGET_CHANGE_FACTOR
               /\ After <= Before * MAX_TARGET_CHANGE_FACTOR
          ELSE After = Before ]_difficulty_vars

\* Where the product of target and time fits into 256 bits the new target is
\* the old one scaled by actual over expected time, within the factor.
RetargetExact ==
    [][ (Retarget /\ Before * ActualTime(headers) < Base ^ 4) =>
          LET scaled == (Before * ActualTime(headers)) \div ExpectedTime
              floor == Before \div MAX_TARGET_CHANGE_FACTOR
              ceiling == Min({Before * MAX_TARGET_CHANGE_FACTOR, Base ^ 4 - 1})
          IN  After = Min({Max({scaled, floor}), ceiling}) ]_difficulty_vars

=============================================================================
