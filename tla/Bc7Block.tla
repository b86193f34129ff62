------------------------------- MODULE Bc7Block -------------------------------
(***************************************************************************)
(* The search of src/src/bc7_pure.rs for the best encoding of a block, in  *)
(* a group of up to four whose partitions are estimated together.  What    *)
(* floating point finds is an input: where the search puts the endpoints   *)
(* (`ends`, offsets from the extremes of the pixels, one pair a call) and  *)
(* what the decision tree says of a block with alpha (`hint`).  All that   *)
(* is done with them is the code's.                                        *)
(***************************************************************************)
EXTENDS Bc7

CONSTANT Groups     \* [blocks, slow, perceptual, ends, hint]
VARIABLES group,    \* the group being compressed
          plans,    \* per block, the partitions to try, by mode
          lane,     \* the block at hand
          tries,    \* what is left to try for it
          best,     \* opt_results, with best_err
          out       \* the blocks packed
vars == <<group, plans, lane, tries, best, out>>

\* Params::slow and Params::basic: no profile lists more than four partitions,
\* has an uber level above 1 or packs in mode 6 alone.
Basic == ~group.slow
MaxPartitions(mode) ==
  IF mode = 0 THEN 16 ELSE IF Basic /\ ~group.perceptual /\ mode \in {1, 2, 3, 7} THEN 32 ELSE 64
OpaqueModes ==
  IF ~Basic THEN 0..6 ELSE IF group.perceptual THEN {1, 6} ELSE {0, 1, 3, 4, 5, 6}
MaxMode7    == IF Basic THEN 1 ELSE 2
PBitSearch  == ~Basic
Calls       == IF Basic THEN 5 ELSE 2     \* the first, a refinement, three of uber level 1
MetricWeights == IF group.perceptual THEN <<128, 64, 16, 256>> ELSE <<1, 1, 1, 1>>

\* Of the modes for alpha, a confident decision tree leaves only one.
AlphaModes ==
  LET h == group.hint IN
  IF h.mode = 5 /\ h.conf >= 9000 THEN {5}
  ELSE IF h.mode = 6 /\ h.conf >= 9000 /\ h.var >= 200 /\ h.range >= 16 THEN {6}
  ELSE {4, 5, 6, 7}

-----------------------------------------------------------------------------
(* The estimates: for a mode the partition that is cheapest, the first of  *)
(* a tie, or the cheapest few.  Subsets are added up only until a          *)
(* partition is no longer of use.                                          *)
Channel(pixels, c) == {pixels[i][c] : i \in DOMAIN pixels}
Clamp(v, lo, hi) == IF v < lo THEN lo ELSE IF v > hi THEN hi ELSE v
\* What a subset would cost: its pixels against evenly spaced colours between
\* the corners of the box they span, by projection.  A box of no size divides
\* by nothing, and what is not a number counts as 0.  The error is in 1/steps^2
\* until it is summed.
SubsetError(mode, pixels) ==
  LET steps   == 2^At(ColorIndexBitcount, mode) - 1
      counted == IF mode = 7 THEN 1..4 ELSE 1..3
      weigh(c) == IF mode = 7 /\ group.perceptual THEN 1 ELSE MetricWeights[c]
      lo      == Colour(LAMBDA c : Min(Channel(pixels, c)))
      dir     == Colour(LAMBDA c : Max(Channel(pixels, c)) - lo[c])
      size    == MapThenSumSet(LAMBDA c : Square(dir[c]), counted)
      near(x) == Clamp((2 * steps * MapThenSumSet(LAMBDA c : dir[c] * (x[c] - lo[c]), counted) + size) \div (2 * size), 0, steps)
      off(x)  == LET k == near(x) IN MapThenSumSet(LAMBDA c : weigh(c) * Square(dir[c] * k + steps * (lo[c] - x[c])), counted)
  IN IF pixels = << >> \/ size = 0 THEN 0 ELSE MapThenSumSet(LAMBDA i : off(pixels[i]), DOMAIN pixels) \div Square(steps)
Cost(mode, l, partition, subset) ==
  LET of == PixelsOf(At(NumSubsets, mode), partition, subset)
  IN SubsetError(mode, Row(Len(of), LAMBDA i : group.blocks[l][of[i]]))
Checkerboard == 34
Threshold    == 4

\* The cost of a partition, or what it had come to when it passed the limit.
CostUpTo(mode, l, partition, limit) ==
  FoldLeft(LAMBDA sum, k : IF Less(sum, limit) THEN sum + Cost(mode, l, partition, k) ELSE sum,
           0, Row(At(NumSubsets, mode), LAMBDA k : k - 1))

Entered(e, partition, sum) == IF Less(sum, e.err) THEN [err |-> sum, part |-> partition, retired |-> sum = 0] ELSE e
Retired(mode, e, partition) ==
  [e EXCEPT !.retired = @ \/ (At(NumSubsets, mode) = 2 /\ partition = Checkerboard /\ e.part # Checkerboard)]
EstimatePartition(mode, l) ==
  FoldLong(LAMBDA e, partition :
             IF e.retired THEN e
             ELSE Retired(mode, Entered(e, partition, CostUpTo(mode, l, partition, e.err)), partition),
           [err |-> Unknown, part |-> 0, retired |-> FALSE], Row(MaxPartitions(mode), LAMBDA i : i - 1)).part

\* One partition entered in a lane's list, which holds the cheapest `max`.
FirstOf(list, n) == SubSeq(list, 1, IF Len(list) > n THEN n ELSE Len(list))
Limit(e, max) == IF Len(e.list) = max THEN e.list[max].err ELSE Unknown
Place(e, sum) == CHOOSE i \in 1..(Len(e.list) + 1) :
                   /\ i = Len(e.list) + 1 \/ sum < e.list[i].err
                   /\ \A j \in 1..(i - 1) : e.list[j].err <= sum
Put(e, partition, max, sum, at) ==
  [list |-> FirstOf(SubSeq(e.list, 1, at - 1) \o <<[index |-> partition, err |-> sum]>> \o SubSeq(e.list, at, Len(e.list)), max),
   at |-> at - 1]
Enter(e, partition, max, sum) ==
  IF Less(sum, Limit(e, max)) THEN Put(e, partition, max, sum, Place(e, sum)) ELSE [e EXCEPT !.at = Len(e.list)]
Insert(mode, e, l, partition, max) == Enter(e, partition, max, CostUpTo(mode, l, partition, Limit(e, max)))

Widened(subsets, wanted) == IF subsets = 2 /\ wanted < Threshold THEN Threshold ELSE wanted
Taken(e, wanted) == FirstOf(e.list, wanted)
NoList == [list |-> << >>, at |-> 0]

\* The scalar code goes over the partitions with all blocks of the group side
\* by side, and stops after the checkerboard when it was of no use to any.
Longest(mode, wanted) == Widened(At(NumSubsets, mode), wanted)
Seen(mode, lanes, partition, next) ==
  [of |-> next, stop |-> At(NumSubsets, mode) = 2 /\ partition = Checkerboard /\ \A l \in lanes : next[l].at >= Threshold]
Best(lanes, wanted, last) == [l \in lanes |-> Taken(last.of[l], wanted)]
EstimateList(mode, lanes, wanted) ==
  Best(lanes, wanted,
       FoldLong(LAMBDA g, partition :
                  IF g.stop THEN g
                  ELSE Seen(mode, lanes, partition,
                            [l \in DOMAIN g.of |->
                               IF l \notin lanes THEN NoList
                               ELSE Insert(mode, g.of[l], l, partition, Longest(mode, wanted))] \o << >>),
                [of |-> Row(Len(group.blocks), LAMBDA l : NoList), stop |-> FALSE],
                Row(MaxPartitions(mode), LAMBDA i : i - 1)))

\* The vector code takes a block at a time, up to the checkerboard and, unless
\* it was of no use to any, on to the end.
Halves(mode) == At(NumSubsets, mode) = 2 /\ Checkerboard < MaxPartitions(mode)
Half(mode) == IF Halves(mode) THEN Checkerboard + 1 ELSE MaxPartitions(mode)
Span(mode, e, l, from, to, max) == FoldLong(LAMBDA f, i : Insert(mode, f, l, i, max), e, Row(to - from, LAMBDA i : from + i - 1))
Stops(mode, lanes, first) == Halves(mode) /\ \A l \in lanes : first[l].at >= Threshold
Rest(mode, lanes, wanted, first) ==
  [l \in lanes |-> Taken(IF Stops(mode, lanes, first) THEN first[l]
                          ELSE Span(mode, first[l], l, Half(mode), MaxPartitions(mode), Longest(mode, wanted)), wanted)]
EstimateListVector(mode, lanes, wanted) ==
  Rest(mode, lanes, wanted, [l \in lanes |-> Span(mode, NoList, l, 0, Half(mode), Longest(mode, wanted))])

-----------------------------------------------------------------------------
(* What kind of block it is.                                               *)
Uniform(pixels) == \A i \in DOMAIN pixels : pixels[i] = pixels[1]
Class(pixels) ==
  CASE Uniform(pixels) -> "solid"
    [] ~Uniform(pixels) /\ Min(Channel(pixels, 4)) < 255 -> "alpha"
    [] ~Uniform(pixels) /\ Min(Channel(pixels, 4)) = 255 -> "opaque"
Lanes(class) == {l \in DOMAIN group.blocks : Class(group.blocks[l]) = class}

-----------------------------------------------------------------------------
(* The search for the endpoints of one set of pixels.  Endpoints come as   *)
(* bytes, quantised to what the mode can hold.                             *)
\* With a p-bit: the nearest that ends in it, without that bit.
ToPBit(v, bit, p) ==
  LET scale == 2^(p.comp + 1) - 1 IN Clamp(((v * scale - 255 * bit + 255) \div 510) * 2 + bit, bit, scale - 1 + bit) \div 2
Quantised(c, bit, p) == Colour(LAMBDA i : IF p.pbits THEN ToPBit(c[i], bit, p)
                                           ELSE (2 * c[i] * (2^p.comp - 1) + 255) \div 510)

\* Modes 1 and 4 keep endpoints apart that quantise to the same.
Apart(mode, ends, want, p) ==
  LET top == 2^p.comp - 1
      Up(e)   == <<e[1], e[2] + 1>>
      Down(e) == <<e[1] - 1, e[2]>>
      Once(e)  == IF e[1] > top \div 2 THEN (IF e[1] > 0 THEN Down(e) ELSE IF e[2] < top THEN Up(e) ELSE e)
                  ELSE IF e[2] < top THEN Up(e) ELSE IF e[1] > 0 THEN Down(e) ELSE e
      Again(e) == IF e[1] > top \div 2 THEN (IF e[2] < top THEN Up(e) ELSE IF e[1] > 0 THEN Down(e) ELSE e)
                  ELSE IF e[1] > 0 THEN Down(e) ELSE IF e[2] < top THEN Up(e) ELSE e
      Fixed(c) == LET e == <<ends[1][c], ends[2][c]>> IN
                  IF mode \notin {1, 4} \/ c = 4 \/ e[1] # e[2] \/ want[1][c] = want[2][c] THEN e
                  ELSE IF mode = 4 THEN Again(Once(e)) ELSE Once(e)
  IN <<Colour(LAMBDA c : Fixed(c)[1]), Colour(LAMBDA c : Fixed(c)[2])>>
At2(mode, want, bits, p) == Apart(mode, <<Quantised(want[1], bits[1], p), Quantised(want[2], bits[2], p)>>, want, p)

\* The p-bit that brings an endpoint nearest, 0 of a tie; both when shared.
Miss(c, bit, p) == LET q == ScaleColor(WithPBit(Quantised(c, bit, p), bit, p), p)
                   IN MapThenSumSet(LAMBDA i : Square(q[i] - c[i]), Channels(p))
NearestPBits(want, p) ==
  LET Bit(e0, e1) == IF e1 < e0 THEN 1 ELSE 0 IN
  IF p.share THEN LET b == Bit(Miss(want[1], 0, p) + Miss(want[2], 0, p), Miss(want[1], 1, p) + Miss(want[2], 1, p)) IN <<b, b>>
  ELSE <<Bit(Miss(want[1], 0, p), Miss(want[1], 1, p)), Bit(Miss(want[2], 0, p), Miss(want[2], 1, p))>>

\* Mode 6 takes, of the p-bits whose error is within an 8192nd of the least,
\* the last in order.
BestOfBand(trials, res) ==
  LET least  == Min({trials[k].err : k \in DOMAIN trials})
      band   == {k \in DOMAIN trials : trials[k].err <= least + least \div 8192}
  IN Better(res, trials[Max(band)])

\* A pair of endpoints, unless the best so far has just these.
Unless(r, res, e, b, p, pixels) ==
  IF res.err # Unknown /\ res.low = e[1] /\ res.high = e[2] /\ (p.pbits => res.pbits = b) THEN r
  ELSE Evaluate(r, e[1], e[2], b, p, pixels)
\* With every choice of p-bits: each endpoint is kept apart from the other with
\* the same p-bit.
Tried(mode, want, b, p, pixels) ==
  EvaluateSolution(At2(mode, want, <<b[1], b[1]>>, p)[1], At2(mode, want, <<b[2], b[2]>>, p)[2], b, p, pixels)
AllPBits(p) == IF p.share THEN << <<0, 0>>, <<1, 1>> >> ELSE << <<0, 0>>, <<0, 1>>, <<1, 0>>, <<1, 1>> >>
BestOf(mode, trials, res) == IF mode = 6 THEN BestOfBand(trials, res) ELSE FoldLeft(Better, res, trials)
\* With the p-bits that are nearest.
WithPBits(mode, want, b, p, res, pixels) == Unless(res, res, At2(mode, want, b, p), b, p, pixels)
\* Without p-bits; mode 2 also takes both endpoints a step towards each other.
Shrunk(e, p) == <<Colour(LAMBDA c : IF c < 4 /\ e[1][c] < 2^p.comp - 1 THEN e[1][c] + 1 ELSE e[1][c]),
                  Colour(LAMBDA c : IF c < 4 /\ e[2][c] > 0 THEN e[2][c] - 1 ELSE e[2][c])>>
Inside(r, e, p, pixels) == Unless(r, [NoResult EXCEPT !.err = 0, !.low = e[1], !.high = e[2]], Shrunk(e, p), <<0, 0>>, p, pixels)
WithoutPBits(mode, e, p, res, pixels) ==
  IF mode = 2 THEN Inside(Unless(res, res, e, <<0, 0>>, p, pixels), e, p, pixels) ELSE Unless(res, res, e, <<0, 0>>, p, pixels)

FindOptimal(mode, want, p, res, pixels) ==
  CASE p.pbits /\ PBitSearch -> BestOf(mode, Row(Len(AllPBits(p)), LAMBDA k : Tried(mode, want, AllPBits(p)[k], p, pixels)), res)
    [] p.pbits /\ ~PBitSearch -> WithPBits(mode, want, NearestPBits(want, p), p, res, pixels)
    [] ~p.pbits -> WithoutPBits(mode, At2(mode, want, <<0, 0>>, p), p, res, pixels)

\* Where the search puts the endpoints at its n-th call.
Wanted(pixels, n, p) ==
  LET end(side, c) == IF c = 4 /\ ~p.alpha THEN 255
                      ELSE Clamp((IF side = 1 THEN Min(Channel(pixels, c)) ELSE Max(Channel(pixels, c)))
                                 + group.ends[(n % Len(group.ends)) + 1][side], 0, 255)
  IN <<Colour(LAMBDA c : end(1, c)), Colour(LAMBDA c : end(2, c))>>
Average(pixels) == Colour(LAMBDA c : (2 * MapThenSumSet(LAMBDA i : pixels[i][c], DOMAIN pixels) + Len(pixels)) \div (2 * Len(pixels)))

Searched(mode, p, pixels) ==
  FoldLeft(LAMBDA r, n : IF r.err = 0 THEN r ELSE FindOptimal(mode, Wanted(pixels, n, p), p, r, pixels),
           NoResult, Row(Calls, LAMBDA n : n))
\* As a last try all pixels are their average.
OrAverage(r, mode, p, pixels) ==
  IF mode \in {3, 5} \/ r.err = 0 THEN r ELSE Better(r, PackToOneColor(mode, p, Average(pixels), pixels))
ColorCellCompression(mode, p, pixels) ==
  IF mode \notin {3, 5} /\ Uniform(pixels) THEN PackToOneColor(mode, p, pixels[1], pixels)
  ELSE OrAverage(Searched(mode, p, pixels), mode, p, pixels)

-----------------------------------------------------------------------------
(* Alpha beside the colour, in modes 4 and 5: its endpoints are tried as   *)
(* they are, where the search puts them, and a step to either side.        *)
AlphaTrial(pixels, la, ha, bits, wide, weight) ==
  LET values == Row(2^bits, LAMBDA s : Mix(Expand(la, wide), Expand(ha, wide), Weights[bits][s]))
      Off(i, s) == Square(pixels[i][4] - values[s])
      chosen == Row(16, LAMBDA i : Min({s \in DOMAIN values : \A t \in DOMAIN values : Off(i, s) <= Off(i, t)}))
  IN [err |-> weight * MapThenSumSet(LAMBDA i : Off(i, chosen[i]), 1..16), la |-> la, ha |-> ha,
      selectors |-> Row(16, LAMBDA i : chosen[i] - 1)]
AlphaFit(pixels, lo, hi, bits, wide, weight) ==
  LET Try(r, la, ha) == Better(r, AlphaTrial(pixels, la, ha, bits, wide, weight))
      top    == 2^wide - 1
      want   == Wanted(pixels, 2, [alpha |-> TRUE])
      moved(v) == (2 * v * top + 255) \div 510
      ends   == <<moved(want[1][4]), moved(want[2][4])>>
      passes == Try(Try([err |-> Unknown], lo, hi), Min({ends[1], ends[2]}), Max({ends[1], ends[2]}))
      steps  == << <<-1, -1>>, <<-1, 0>>, <<-1, 1>>, <<0, -1>>, <<0, 0>>, <<0, 1>>, <<1, -1>>, <<1, 0>>, <<1, 1>> >>
      \* Every step starts from the best so far.
  IN IF ~Basic THEN passes
     ELSE FoldLeft(LAMBDA r, d : Try(r, Clamp(r.la + d[1], 0, top), Clamp(r.ha + d[2], 0, top)), passes, steps)

Rotated(pixels, rotation) ==
  IF rotation = 0 THEN pixels
  ELSE Row(16, LAMBDA i : [pixels[i] EXCEPT ![4] = pixels[i][rotation], ![rotation] = pixels[i][4]])
Joined(res, mode, index, rotation, color, alpha) ==
  [err |-> color.err + alpha.err,
   res |-> [res EXCEPT !.mode = mode, !.index = index, !.rotation = rotation, !.partition = 0,
              !.low[1] = [color.low EXCEPT ![4] = alpha.la], !.high[1] = [color.high EXCEPT ![4] = alpha.ha],
              !.selectors = color.selectors, !.alphas = alpha.selectors]]

\* Mode 4: two bits for the colour and three for alpha, or the other way.
Mode4Ends(lo, hi) ==
  LET la == Min({(lo + 2) \div 4, 63}) ha == Min({(hi + 2) \div 4, 63}) IN
  IF la # ha \/ lo = hi THEN <<la, ha>> ELSE IF ha # 63 THEN <<la, ha + 1>> ELSE <<la - 1, ha>>
Mode4(pixels, rotation, index) ==
  LET p     == CellParams(4, group.perceptual, FALSE, 2 + index, MetricWeights)
      ends  == Mode4Ends(Min(Channel(pixels, 4)), Max(Channel(pixels, 4)))
  IN Joined(best.res, 4, index, rotation, ColorCellCompression(4, p, pixels),
            AlphaFit(pixels, ends[1], ends[2], 3 - index, 6, MetricWeights[4]))
Mode5(pixels, rotation) ==
  LET p     == CellParams(5, group.perceptual, FALSE, 2, MetricWeights)
      lo    == Min(Channel(pixels, 4))
      hi    == Max(Channel(pixels, 4))
  IN Joined(NewResults, 5, 0, rotation, ColorCellCompression(5, p, pixels),
            IF lo = hi THEN [err |-> 0, la |-> lo, ha |-> hi, selectors |-> Row(16, LAMBDA i : 0)]
            ELSE AlphaFit(pixels, lo, hi, 2, 8, MetricWeights[4]))

-----------------------------------------------------------------------------
(* A mode's fields put over those of the best so far, as the code does:    *)
(* what the mode has no use for keeps what was there.                      *)
Whole(mode, r) ==
  [err |-> r.err,
   res |-> [best.res EXCEPT !.mode = mode, !.index = 0, !.rotation = 0, !.partition = 0,
              !.low[1] = r.low, !.high[1] = r.high, !.pbits[1] = r.pbits, !.selectors = r.selectors]]
\* The subsets one by one, while their sum does not pass the best.
Pick(pixels, of) == Row(Len(of), LAMBDA i : pixels[of[i]])
More(t, r) == [err |-> t.err + r.err, parts |-> Append(t.parts, r)]
Subsets(mode, p, pixels, partition) ==
  FoldLeft(LAMBDA t, k : IF best.err # Unknown /\ t.err > best.err THEN t
                         ELSE More(t, ColorCellCompression(mode, p, Pick(pixels, PixelsOf(At(NumSubsets, mode), partition, k)))),
           [err |-> 0, parts |-> << >>], Row(At(NumSubsets, mode), LAMBDA k : k - 1))
Parted(mode, partition, t) ==
  LET subsets == At(NumSubsets, mode)
      Of(i)   == SubsetOf(subsets, partition, i - 1) + 1
      Rank(i) == Cardinality({j \in 1..i : Of(j) = Of(i)})
      Over(old, field(_)) == Row(3, LAMBDA k : IF k <= subsets THEN field(t.parts[k]) ELSE old[k])
  IN [err |-> t.err,
      res |-> IF ~Less(t.err, best.err) THEN best.res
              ELSE [best.res EXCEPT
                      !.mode = mode, !.index = 0, !.rotation = 0, !.partition = partition,
                      !.selectors = Row(16, LAMBDA i : t.parts[Of(i)].selectors[Rank(i)]),
                      !.low = Over(@, LAMBDA r : r.low), !.high = Over(@, LAMBDA r : r.high),
                      !.pbits = IF mode = 2 THEN @ ELSE Over(@, LAMBDA r : r.pbits)]]

-----------------------------------------------------------------------------
Pixels == group.blocks[lane]
Fresh  == [err |-> Unknown, res |-> NewResults]
Keep(t) == best' = Better(best, t)

Init ==
  /\ group \in Groups
  /\ plans = << >> /\ lane = 0 /\ tries = << >> /\ best = Fresh /\ out = << >>

\* Mode 3 takes the partition that mode 1 would.
OpaquePlan(m, l) ==
  IF m \in {0, 1, 2, 3} \cap OpaqueModes THEN <<EstimatePartition(IF m = 3 THEN 1 ELSE m, l)>> ELSE << >>
Planned(lists) ==
  [l \in DOMAIN group.blocks |->
     [m \in 0..7 |-> IF l \in Lanes("opaque") THEN OpaquePlan(m, l)
                     ELSE IF m = 7 /\ l \in Lanes("alpha") THEN [i \in DOMAIN lists[l] |-> lists[l][i].index]
                     ELSE << >>]]

\* Blocks with alpha are estimated together, and so are the opaque ones.
Plan ==
  /\ lane = 0
  /\ plans' = Planned(EstimateList(7, Lanes("alpha"), MaxMode7))
  /\ lane' = 1
  /\ UNCHANGED <<group, tries, best, out>>

\* What is tried for a block, in order: <<mode, rotation or partition>>.
Rotations(mode) == [r \in 1..(IF group.perceptual THEN 1 ELSE 4) |-> <<mode, r - 1>>]
TriesOf(mode) ==
  CASE mode \in {4, 5} -> Rotations(mode)
    [] mode = 6 -> << <<6, 0>> >>
    [] OTHER -> [i \in DOMAIN plans[lane][mode] |-> <<mode, plans[lane][mode][i]>>]
Order(class) ==
  IF class = "alpha" THEN SelectSeq(<<4, 6, 5, 7>>, LAMBDA m : m \in AlphaModes)
  ELSE SelectSeq(<<6, 1, 0, 3, 5, 2, 4>>, LAMBDA m : m \in OpaqueModes /\ (m \in {4, 5} => ~group.perceptual))
Begin ==
  /\ lane \in DOMAIN group.blocks /\ tries = << >> /\ best = Fresh
  /\ Class(Pixels) # "solid"
  /\ tries' = FlattenSeq([i \in DOMAIN Order(Class(Pixels)) |-> TriesOf(Order(Class(Pixels))[i])])
  /\ UNCHANGED <<group, plans, lane, best, out>>

\* One colour: mode 5, from its table, with alpha as it is.
Solid ==
  /\ lane \in DOMAIN group.blocks /\ tries = << >> /\ best = Fresh
  /\ Class(Pixels) = "solid"
  /\ LET ends == Row(3, LAMBDA c : BestEndpoints(Pixels[1][c], 7, << >>, 2, Weight(2, 1), 128))
         alpha == Pixels[1][4]
     IN out' = Append(out, EncodeBlockBits(
                 [NewResults EXCEPT !.mode = 5, !.low[1] = <<ends[1].lo, ends[2].lo, ends[3].lo, alpha>>,
                    !.high[1] = <<ends[1].hi, ends[2].hi, ends[3].hi, alpha>>, !.selectors = Row(16, LAMBDA i : 1)]))
  /\ lane' = lane + 1
  /\ UNCHANGED <<group, plans, tries, best>>

Params(mode) == CellParams(mode, group.perceptual, Class(Pixels) = "alpha" /\ mode >= 6,
                           At(ColorIndexBitcount, mode), MetricWeights)
TryWhole ==
  /\ tries # << >> /\ Head(tries)[1] = 6
  /\ Keep(Whole(6, ColorCellCompression(6, Params(6), Pixels)))
  /\ tries' = Tail(tries)
  /\ UNCHANGED <<group, plans, lane, out>>
TryRotated ==
  /\ tries # << >> /\ Head(tries)[1] \in {4, 5}
  /\ LET rotation == Head(tries)[2]
         pixels   == Rotated(Pixels, rotation)
     IN Keep(IF Head(tries)[1] = 5 THEN Mode5(pixels, rotation)
             ELSE FoldLeft(Better, Fresh, Row(2, LAMBDA index : Mode4(pixels, rotation, index - 1))))
  /\ tries' = Tail(tries)
  /\ UNCHANGED <<group, plans, lane, out>>
TryParted ==
  /\ tries # << >> /\ Head(tries)[1] \in {0, 1, 2, 3, 7}
  /\ LET mode == Head(tries)[1]
     IN Keep(Parted(mode, Head(tries)[2], Subsets(mode, Params(mode), Pixels, Head(tries)[2])))
  /\ tries' = Tail(tries)
  /\ UNCHANGED <<group, plans, lane, out>>

Emit ==
  /\ tries = << >> /\ best # Fresh
  /\ out' = Append(out, EncodeBlockBits(best.res))
  /\ lane' = lane + 1 /\ best' = Fresh
  /\ UNCHANGED <<group, plans, tries>>

Next ==
  \/ Plan \/ Begin \/ Solid \/ TryWhole \/ TryRotated \/ TryParted \/ Emit
  \/ lane > Len(group.blocks) /\ UNCHANGED vars
Spec == Init /\ [][Next]_vars

-----------------------------------------------------------------------------
(* What the search believes is what a reader gets: the best so far,        *)
(* packed, decodes to colours that miss the block's by the error it was    *)
(* chosen for.  Mode 7 aside, whose single colours are judged by mixes     *)
(* that no reader makes.  Alpha is not counted for an opaque block, and in *)
(* mode 6, where a p-bit of 0 makes it 254, it is not quite kept.          *)
BestDecodes ==
  best # Fresh =>
    LET seen == Decode(EncodeBlockBits(best.res))
        p    == CellParams(best.res.mode, group.perceptual, Class(Pixels) = "alpha" \/ best.res.mode \in {4, 5}, 0, MetricWeights)
    IN /\ best.res.mode # 7 => best.err = MapThenSumSet(LAMBDA i : Distance(seen[i], Pixels[i], p), 1..16)
       /\ Class(Pixels) = "opaque" /\ best.res.rotation = 0 => \A i \in 1..16 : seen[i][4] >= 254

(* A block of one colour decodes to it: alpha exactly, colour to a step.   *)
SolidDecodes ==
  \A l \in DOMAIN out : Class(group.blocks[l]) = "solid" =>
    \A i \in 1..16 : \A c \in 1..4 : Decode(out[l])[i][c] - group.blocks[l][i][c] \in IF c = 4 THEN {0} ELSE {-1, 0, 1}

(* A list of partitions is the cheapest few of those up to the             *)
(* checkerboard and of any that are cheaper behind it, in order; and it is *)
(* the same when the vector code makes it.                                 *)
CheapestOf(l, list) ==
  LET whole(i) == CostUpTo(7, l, i, Unknown)
      last == list[Len(list)].err
  IN /\ Len(list) = MaxMode7 /\ list[1].err <= last
     /\ \A i \in 0..Min({Checkerboard, MaxPartitions(7) - 1}) : (\E k \in DOMAIN list : list[k].index = i) \/ whole(i) >= last
     /\ \A k \in DOMAIN list : list[k].err = whole(list[k].index)
Agreed(lists, lanes) ==
  /\ lists = EstimateListVector(7, lanes, MaxMode7)
  /\ \A l \in lanes : CheapestOf(l, lists[l])
PlansCheapest ==
  lane = 1 /\ tries = << >> /\ best = Fresh => Agreed(EstimateList(7, Lanes("alpha"), MaxMode7), Lanes("alpha"))

(* The vector code takes the selectors of a tie as the scalar code does,   *)
(* and every block gets its 128 bits, in its place.                        *)
EveryProcessorAgrees ==
  /\ best # Fresh /\ best.res.mode \in 0..3 =>
       LET p       == Params(best.res.mode)
           palette == Palette(best.res.low[1], best.res.high[1], best.res.pbits[1], p)
       IN \A i \in 1..16 : Nearest(Pixels[i], palette, p) = NearestScalar(Pixels[i], palette, p)
  /\ lane > 0 => Len(out) = lane - 1 /\ \A l \in DOMAIN out : Len(out[l]) = 128
=============================================================================
