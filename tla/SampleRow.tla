----------------------------- MODULE SampleRow ------------------------------
(***************************************************************************)
(* ops/sampler.cu for one row of logits: the block that prepares its tiles *)
(* (prepare_logits) and the block that samples it (sample_rows), step by   *)
(* step between the block's barriers.  Rows share nothing, so one row      *)
(* stands for a batch.                                                     *)
(*                                                                         *)
(* A bf16 logit is a sign-magnitude bit pattern of two base-Base digits;   *)
(* its value is an integer.  A weight is an integer with 1.0f = One, and   *)
(* expf halves per unit of distance.  top_p is counted in units of         *)
(* 1/TopPOne; narrowing the frontend's double to a float loses what lies   *)
(* below FloatStep units.  fp32 rounding is not modelled, except where the *)
(* code provides for it: a draw may fall into a gap of the CDF.            *)
(***************************************************************************)
EXTENDS Integers, FiniteSets, FiniteSetsExt

CONSTANTS
    VocabSize,      \* the row's length
    TileSize,       \* kTileSize: logits per block of prepare_logits
    NumThreads,     \* kNumThreads of sample_rows
    Vec,            \* consecutive logits a thread loads at once (4 in the code)
    Base,           \* values of a radix digit (256 in the code)
    Patterns,       \* the bf16 bit patterns a logit takes
    One,            \* the weight 1.0f, a power of two
    TopKs,          \* values of top_k
    TopPOne,        \* top_p = 1.0, in units
    TopPs,          \* values of the request's top_p, in units
    FloatStep       \* units below which a float cannot tell top_p from 0

ASSUME SampleRowAssumption ==
    /\ VocabSize \in Nat \ {0} /\ TileSize \in Nat \ {0}
    /\ NumThreads \in Nat \ {0} /\ Vec \in Nat \ {0}
    /\ Base \in Nat \ {0} /\ Base % 2 = 0
    /\ Patterns \subseteq 0 .. Base * Base - 1
    /\ One \in Nat \ {0} /\ TopPOne \in Nat \ {0} /\ FloatStep \in Nat \ {0}
    /\ TopKs \subseteq Nat
    /\ TopPs \subseteq 1 .. TopPOne     \* server.py: gt=0, le=1

Tokens  == 0 .. VocabSize - 1
Threads == 0 .. NumThreads - 1
Digits  == 0 .. Base - 1
Tiles   == 0 .. (VocabSize + TileSize - 1) \div TileSize - 1
NoToken == -1

VARIABLES
    pc,          \* the step the row's block is at
    logits,      \* the row, as bit patterns
    param,       \* the row's SampleParams
    ranges,      \* per tile, the token of its largest logit
    histograms,  \* per tile, how many of its keys have each high digit
    cutoff,      \* the least value top_k keeps
    row,         \* the workspace: unnormalised weights
    low, high,   \* the weights top_p rejection has narrowed the cutoff to
    threadMass,  \* weight each thread still offers to the draw
    target,      \* target_mass, in weight * TopPOne
    candidate,   \* the token drawn in this round
    output       \* the sampled token

vars == <<pc, logits, param, ranges, histograms, cutoff, row, low, high,
          threadMass, target, candidate, output>>

(***************************************************************************)
(* Values, keys and weights.                                               *)
(***************************************************************************)
SignBit == (Base * Base) \div 2
Value(bits) == IF bits >= SignBit THEN SignBit - bits ELSE bits
LowestValue == -SignBit         \* stands for -inf

\* bf16_key: unsigned keys ordered as the values are, with -0 and +0 equal.
Key(bits) ==
    LET canonical == IF Value(bits) = 0 THEN 0 ELSE bits
    IN  IF canonical >= SignBit THEN Base * Base - 1 - canonical
                                ELSE canonical + SignBit

\* The inverse, by which a cutoff is read back.
KeyValue(key) ==
    Value(IF key >= SignBit THEN key - SignBit ELSE Base * Base - 1 - key)

Exp(distance) ==
    LET half[d \in 0 .. distance] == IF d = 0 THEN One ELSE half[d - 1] \div 2
    IN  half[distance]

Sum(f, S) == MapThenSumSet(LAMBDA i : f[i], S)

\* The float the engine core unpacks the request's top_p into.
Stored(topP) == topP - (topP % FloatStep)

(***************************************************************************)
(* prepare_logits.  MergeRange keeps the larger value and, among equals,   *)
(* the lower index; merging tiles and merging threads is the same choice.  *)
(***************************************************************************)
MergeRange(S) ==
    CHOOSE i \in S : \A j \in S :
        \/ Value(logits[i]) > Value(logits[j])
        \/ Value(logits[i]) = Value(logits[j]) /\ i <= j

UsesTopK == param.temperature # 0 /\ param.topK > 1 /\ param.topK < VocabSize

Tile(t) == {i \in Tokens : i \div TileSize = t}

\* The block's histogram of the high digits in its tile.
TileHistogram(t) ==
    [d \in Digits |-> Cardinality({i \in Tile(t) : Key(logits[i]) \div Base = d})]

PrepareLogits ==
    /\ pc = "prepare"
    /\ ranges' = [t \in Tiles |-> MergeRange(Tile(t))]
    /\ histograms' = IF UsesTopK THEN [t \in Tiles |-> TileHistogram(t)]
                                 ELSE histograms
    /\ pc' = "select"
    /\ UNCHANGED <<logits, param, cutoff, row, low, high, threadMass, target,
                   candidate, output>>

Best == MergeRange({ranges[t] : t \in Tiles})

(***************************************************************************)
(* sample_rows up to the weights: the greedy row, and the top-k cutoff in  *)
(* two radix passes over the keys.                                         *)
(***************************************************************************)
Above(histogram, d) == Sum(histogram, d + 1 .. Base - 1)

\* select_digit: the digit of the k-th largest, and the rank left inside it.
SelectDigit(histogram, k) ==
    CHOOSE d \in Digits : /\ Above(histogram, d) < k
                          /\ k <= Above(histogram, d) + histogram[d]
RankInDigit(histogram, k) == k - Above(histogram, SelectDigit(histogram, k))

\* A slip: the low digits of all keys counted, not of those that tie above.
TopKCutoff_AllKeys ==
    LET count == [d \in Digits |->
                    Sum([t \in Tiles |-> histograms[t][d]], Tiles)]
        upper == SelectDigit(count, param.topK)
        k     == RankInDigit(count, param.topK)
        histogram == [d \in Digits |-> Cardinality(
                        {i \in Tokens : Key(logits[i]) % Base = d})]
    IN  KeyValue(upper * Base + SelectDigit(histogram, k))

TopKCutoff ==
    LET count == [d \in Digits |->
                    Sum([t \in Tiles |-> histograms[t][d]], Tiles)]
        upper == SelectDigit(count, param.topK)
        k     == RankInDigit(count, param.topK)
        histogram == [d \in Digits |-> Cardinality(
                        {i \in Tokens : /\ Key(logits[i]) \div Base = upper
                                        /\ Key(logits[i]) % Base = d})]
    IN  KeyValue(upper * Base + SelectDigit(histogram, k))

GreedyRow ==
    /\ pc = "select" /\ param.temperature = 0
    /\ output' = Best
    /\ pc' = "done"
    /\ UNCHANGED <<logits, param, ranges, histograms, cutoff, row, low, high,
                   threadMass, target, candidate>>

SelectCutoff ==
    /\ pc = "select" /\ param.temperature # 0
    /\ cutoff' = CASE param.topK = 1 -> Value(logits[Best])
                   [] param.topK > 1 /\ param.topK < VocabSize -> TopKCutoff
                   [] OTHER -> LowestValue
    /\ pc' = "weigh"
    /\ UNCHANGED <<logits, param, ranges, histograms, row, low, high,
                   threadMass, target, candidate, output>>

Weight(i) ==
    LET largest == Value(logits[Best])
    IN  CASE Value(logits[i]) = largest -> One
          [] /\ Value(logits[i]) # largest
             /\ Value(logits[i]) >= cutoff -> Exp(largest - Value(logits[i]))
          [] OTHER -> 0

\* The tokens thread t loads: every NumThreads-th group of Vec.
Mine(t) == {i \in Tokens : (i \div Vec) % NumThreads = t}

MassAbove(weights, bound, S) == Sum(weights, {i \in S : weights[i] > bound})

WeighRow ==
    /\ pc = "weigh"
    /\ row' = [i \in Tokens |-> Weight(i)]
    /\ threadMass' = [t \in Threads |-> Sum(row', Mine(t))]
    /\ low' = 0 /\ high' = One
    /\ target' = Stored(param.topP) * Sum(row', Tokens)
    /\ pc' = "draw"
    /\ UNCHANGED <<logits, param, ranges, histograms, cutoff, candidate, output>>

(***************************************************************************)
(* The draw: a uniform number falls into one thread's share of the total   *)
(* mass, then that thread's groups are dealt out again over the block, one *)
(* group a thread and pass, and the number falls into one token's share.   *)
(***************************************************************************)
Total == Sum(threadMass, Threads)
Prefix(t) == Sum(threadMass, 0 .. t - 1)

Buckets(u) == {t \in Threads : Prefix(t) <= u /\ u < Prefix(t) + threadMass[t]}

\* A slip: groups dealt out one vector apart instead of one round apart.
Group_Adjacent(b, n) == b + n

\* The n-th group of Vec tokens dealt out of bucket b: thread n % NumThreads
\* takes it, in pass n \div NumThreads.
Group(b, n) ==
    b + (n % NumThreads) * NumThreads
      + (n \div NumThreads) * NumThreads * NumThreads

Live == {i \in Tokens : row[i] > low}
Groups == 0 .. VocabSize \div Vec

\* Mass of what is dealt before token i of bucket b's n-th group.
Before(b, n, i) ==
    LET earlier == {Group(b, m) : m \in 0 .. n - 1}
    IN  Sum(row, {j \in Live :
                   \/ (j \div Vec) \in earlier
                   \/ (j \div Vec) = Group(b, n) /\ j < i})

Hits(b, u) ==
    {i \in Live : \E n \in Groups :
        /\ (i \div Vec) = Group(b, n)
        /\ LET remaining == u - Prefix(b) - Before(b, n, i)
           IN  remaining >= 0 /\ remaining < row[i]}

Drawn(u) == UNION {Hits(b, u) : b \in Buckets(u)}

\* One draw; an empty one is the gap the code fills with the argmax, whether
\* it comes from rounding or from there being no mass left to draw from.
DrawToken ==
    /\ pc = "draw"
    /\ \/ \E hits \in {Drawn(u) : u \in 0 .. Total - 1} :
            hits # {} /\ candidate' = Min(hits)
       \/ candidate' = Best
    /\ pc' = "judge"
    /\ UNCHANGED <<logits, param, ranges, histograms, cutoff, row, low, high,
                   threadMass, target, output>>

(***************************************************************************)
(* Top-p rejection: the candidate stands when the strictly heavier tokens  *)
(* do not reach the target; otherwise the cutoff rises to the candidate or *)
(* to the midpoint above it, whichever the target still allows.            *)
(***************************************************************************)
Pivot == row[candidate]
Midpoint == (Pivot + high) \div 2
Reaches(mass) == mass * TopPOne >= target
\* A slip: the candidate judged by the mass it is part of.
Accepted_Inclusive ==
    \/ Stored(param.topP) = TopPOne
    \/ ~Reaches(MassAbove(row, Pivot - 1, Tokens))

Accepted ==
    \/ Stored(param.topP) = TopPOne
    \/ ~Reaches(MassAbove(row, Pivot, Tokens))

ReturnToken ==
    /\ pc = "judge" /\ Accepted
    /\ output' = candidate
    /\ pc' = "done"
    /\ UNCHANGED <<logits, param, ranges, histograms, cutoff, row, low, high,
                   threadMass, target, candidate>>

\* A slip: the midpoint taken for the safe bound.
NarrowToPivot_Midpoint ==
    /\ pc = "judge" /\ ~Accepted
    /\ ~Reaches(MassAbove(row, Midpoint, Tokens))
    /\ low' = Midpoint /\ high' = Midpoint
    /\ threadMass' = [t \in Threads |-> MassAbove(row, Midpoint, Mine(t))]
    /\ candidate' = NoToken
    /\ pc' = "draw"
    /\ UNCHANGED <<logits, param, ranges, histograms, cutoff, row, target, output>>

NarrowToPivot ==
    /\ pc = "judge" /\ ~Accepted
    /\ ~Reaches(MassAbove(row, Midpoint, Tokens))
    /\ low' = Pivot /\ high' = Midpoint
    /\ threadMass' = [t \in Threads |-> MassAbove(row, Pivot, Mine(t))]
    /\ candidate' = NoToken
    /\ pc' = "draw"
    /\ UNCHANGED <<logits, param, ranges, histograms, cutoff, row, target, output>>

RaiseToMidpoint ==
    /\ pc = "judge" /\ ~Accepted
    /\ Reaches(MassAbove(row, Midpoint, Tokens))
    /\ low' = Midpoint
    /\ threadMass' = [t \in Threads |-> MassAbove(row, Midpoint, Mine(t))]
    /\ candidate' = NoToken
    /\ pc' = "draw"
    /\ UNCHANGED <<logits, param, ranges, histograms, cutoff, row, high, target,
                   output>>

(***************************************************************************)
(* The specification.  The workspace still holds the previous batch's      *)
(* counts when a row starts.  A done row stutters.                         *)
(***************************************************************************)
Init ==
    /\ pc = "prepare"
    /\ logits \in [Tokens -> Patterns]
    /\ param \in [temperature : {0, 1}, topK : TopKs, topP : TopPs]
    /\ ranges = [t \in Tiles |-> 0]
    /\ histograms = [t \in Tiles |-> [d \in Digits |-> VocabSize]]
    /\ cutoff = LowestValue
    /\ row = [i \in Tokens |-> 0]
    /\ low = 0 /\ high = One
    /\ threadMass = [t \in Threads |-> 0]
    /\ target = 0
    /\ candidate = NoToken
    /\ output = NoToken

Next ==
    \/ PrepareLogits
    \/ GreedyRow
    \/ SelectCutoff
    \/ WeighRow
    \/ DrawToken
    \/ ReturnToken
    \/ NarrowToPivot
    \/ RaiseToMidpoint

\* A launched kernel runs on until it returns.
Spec == Init /\ [][Next]_vars /\ WF_vars(Next)

-----------------------------------------------------------------------------
\* Tokens whose logit fewer than top_k logits exceed: boundary ties stay.
KeptByTopK ==
    {i \in Tokens : \/ param.topK = 0
                    \/ Cardinality({j \in Tokens :
                         Value(logits[j]) > Value(logits[i])}) < param.topK}

\* The two radix passes find the exact top-k cutoff, ties at the boundary
\* retained (the comment at sampler.cu:214): a token outside the top k never
\* has weight, and one inside has the weight of its logit.
TopKIsExact ==
    pc \in {"draw", "judge"} =>
        \A i \in Tokens :
            row[i] = IF i \in KeptByTopK
                     THEN Exp(Max({Value(logits[j]) : j \in Tokens})
                                - Value(logits[i]))
                     ELSE 0

\* However the row is split over threads, groups and passes, a draw returns
\* each token still above the cutoff for exactly its weight's share of the
\* numbers, and no other token for any.
DrawIsProportional ==
    pc = "draw" =>
        LET drawn == [u \in 0 .. Total - 1 |-> Drawn(u)]
        IN  \A i \in Tokens :
                Cardinality({u \in DOMAIN drawn : i \in drawn[u]})
                    = IF row[i] > low THEN row[i] ELSE 0

\* The tokens top_p keeps: what is strictly heavier has not reached top_p.
Nucleus ==
    {i \in Tokens : /\ row[i] > 0
                    /\ MassAbove(row, row[i], Tokens) * TopPOne
                         < Stored(param.topP) * Sum(row, Tokens)}

\* Rejection narrows the draw without ever excluding a token of the nucleus,
\* and what it returns is in the nucleus (the largest logit when greedy).
NucleusIsSampled ==
    /\ pc \in {"draw", "judge"} => \A i \in Nucleus : row[i] > low
    /\ pc = "done" =>
         IF param.temperature = 0
         THEN \A j \in Tokens : Value(logits[j]) <= Value(logits[output])
         ELSE output \in Nucleus

\* Every row is sampled, whatever the draws: the rejection loop of
\* sampler.cu:296 ends.
RowIsSampled == <>(pc = "done")

=============================================================================
