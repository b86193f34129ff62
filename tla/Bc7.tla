--------------------------------- MODULE Bc7 ---------------------------------
(***************************************************************************)
(* One 4x4 block as src/src/bc7_pure.rs encodes it: its modes, how         *)
(* endpoints are quantised and read back, how the selectors of given       *)
(* endpoints are found, the packing of one colour, and the 128 bits.       *)
(*                                                                         *)
(* A colour is <<r, g, b, a>>, a block 16 of them.  The numbers below are  *)
(* exact: the code holds them in floats, all whole and below 2^24, except  *)
(* for the perceptual metric, whose luma and weights are rounded here to   *)
(* the nearest whole number.                                               *)
(***************************************************************************)
EXTENDS Integers, Sequences, FiniteSetsExt, SequencesExt, TLC

\* A sequence; the concatenation makes TLC compute its elements once, not at
\* each use.
Row(n, f(_)) == [i \in 1..n |-> f(i)] \o << >>
\* A long sequence is folded eight at a time, from a value that is known, for
\* the sake of TLC's stack.
FoldLong(step(_, _), base, seq) ==
  LET chunk(k) == SubSeq(seq, 8 * k - 7, IF 8 * k < Len(seq) THEN 8 * k ELSE Len(seq))
  IN FoldLeft(LAMBDA acc, k : CHOOSE r \in {FoldLeft(step, known, chunk(k)) : known \in {acc}} : TRUE,
              base, Row((Len(seq) + 7) \div 8, LAMBDA k : k))
Colour(f(_)) == Row(4, f)
At(table, mode) == table[mode + 1]
NumSubsets         == <<3, 2, 3, 2, 1, 1, 1, 2>>
PartitionBits      == <<4, 6, 6, 6, 0, 0, 0, 6>>
ColorIndexBitcount == <<3, 3, 2, 2, 2, 2, 4, 2>>
AlphaIndexBitcount == <<0, 0, 0, 0, 3, 2, 4, 2>>
ColorPrecision     == <<4, 6, 5, 7, 5, 7, 7, 5>>
AlphaPrecision     == <<0, 0, 0, 0, 6, 8, 7, 5>>
HasPBits(mode)     == mode \in {0, 1, 3, 6, 7}
SharedPBits(mode)  == mode = 1
SeparateAlpha(mode) == mode \in {4, 5}

Weights == (2 :> <<0, 21, 43, 64>> @@ 3 :> <<0, 9, 18, 27, 37, 46, 55, 64>>
           @@ 4 :> <<0, 4, 9, 13, 17, 21, 26, 30, 34, 38, 43, 47, 51, 55, 60, 64>>)
Weight(bits, selector) == Weights[bits][selector + 1]
Mix(low, high, weight) == (low * (64 - weight) + high * weight + 32) \div 64

\* The subset of each pixel, as the digits of a number in base 2 or 3.
Partition2 == <<
  52428, 34952, 61166, 60616, 51328, 65260, 65224, 60544, 51200, 65516, 65152, 59392, 65512,
  65280, 65520, 61440, 63248, 142, 28928, 2254, 140, 29456, 12544, 36046, 2188, 12560,
  26214, 13932, 6120, 4080, 29070, 14748, 43690, 61680, 23130, 13260, 15420, 21930, 38550,
  42330, 29646, 5064, 12876, 15324, 27030, 49980, 39270, 1632, 626, 1252, 20032, 10016,
  51510, 37740, 14790, 25500, 37686, 40134, 33150, 59160, 52464, 4044, 30532, 60962 >>
Partition3 == <<
  42852843, 28458000, 23674437, 20968305, 40888152, 38739096, 21525984, 23675040,
  42777720, 42780960, 43043400, 33899292, 35513544, 40356300, 42487857, 13872339,
  40825485, 4444752, 40894308, 21735936, 41967354, 28516320, 40353066, 9146358,
  242346, 43019082, 6722688, 27977076, 38649060, 42883680, 19630062, 28455219,
  42486849, 19551129, 41929929, 11299764, 528120, 11589501, 11388621, 19631196,
  19190556, 43042620, 26900100, 40868136, 19607256, 27796632, 16474620, 26904150,
  42714570, 21241194, 35966322, 36589644, 41711514, 29142882, 42594996, 36584136,
  43041144, 38502936, 38768616, 36137988, 14705442, 42502074, 43046670, 14050218 >>
Anchor2nd == <<
  15, 15, 15, 15, 15, 15, 15, 15, 15, 15, 15, 15, 15, 15, 15, 15, 15, 2, 8, 2, 2, 8,
  8, 15, 2, 8, 2, 2, 8, 8, 2, 2, 15, 15, 6, 8, 2, 8, 15, 15, 2, 8, 2, 2,
  2, 15, 15, 6, 6, 2, 6, 8, 15, 15, 2, 2, 15, 15, 15, 15, 15, 2, 2, 15 >>
Anchor3rd1 == <<
  3, 3, 15, 15, 8, 3, 15, 15, 8, 8, 6, 6, 6, 5, 3, 3, 3, 3, 8, 15, 3, 3,
  6, 10, 5, 8, 8, 6, 8, 5, 15, 15, 8, 15, 3, 5, 6, 10, 8, 15, 15, 3, 15, 5,
  15, 15, 15, 15, 3, 15, 5, 5, 5, 8, 5, 10, 5, 10, 8, 13, 15, 12, 3, 3 >>
Anchor3rd2 == <<
  15, 8, 8, 3, 15, 15, 3, 8, 15, 15, 15, 15, 15, 15, 15, 8, 15, 8, 15, 3, 15, 8,
  15, 8, 3, 15, 6, 10, 15, 15, 10, 8, 15, 3, 15, 10, 10, 8, 9, 10, 6, 15, 8, 15,
  3, 6, 6, 8, 15, 3, 15, 15, 15, 15, 15, 15, 15, 15, 15, 15, 3, 15, 15, 8 >>

SubsetOf(subsets, partition, i) ==     \* i from 0
  CASE subsets = 1 -> 0
    [] subsets = 2 -> (Partition2[partition + 1] \div 2^i) % 2
    [] subsets = 3 -> (Partition3[partition + 1] \div 3^i) % 3
Anchor(subsets, partition, k) ==
  CASE k = 0 -> 0
    [] k = 1 /\ subsets = 2 -> Anchor2nd[partition + 1]
    [] k = 1 /\ subsets = 3 -> Anchor3rd1[partition + 1]
    [] k = 2 -> Anchor3rd2[partition + 1]
\* Every anchor is a pixel of its subset: turning a subset round is enough to
\* clear the bit that its anchor is written without.
AnchorsAssumption ==
  \A subsets \in 1..3, partition \in 0..63 : \A k \in 0..(subsets - 1) :
    SubsetOf(subsets, partition, Anchor(subsets, partition, k)) = k
\* The pixels of a subset, from 1, in the order of the block.
PixelsOf(subsets, partition, k) == SelectSeq(Row(16, LAMBDA i : i), LAMBDA i : SubsetOf(subsets, partition, i - 1) = k)

-----------------------------------------------------------------------------
(* What the search of a mode works with: CCParams.                         *)
CellParams(mode, perceptual, alpha, bits, weights) ==
  [bits |-> bits, comp |-> At(ColorPrecision, mode), weights |-> weights, alpha |-> alpha,
   pbits |-> HasPBits(mode), share |-> SharedPBits(mode), perceptual |-> perceptual]

\* An n-bit number widened to a byte, its high bits repeated.
Expand(v, n) == LET wide == v * 2^(8 - n) IN wide + wide \div 2^n
ScaleColor(c, p) == Colour(LAMBDA i : Expand(c[i], p.comp + IF p.pbits THEN 1 ELSE 0))
WithPBit(c, bit, p) == IF p.pbits THEN Colour(LAMBDA i : 2 * c[i] + bit) ELSE c

Channels(p) == IF p.alpha THEN 1..4 ELSE 1..3
Square(x) == x * x
Luma(c) == (2126 * c[1] + 7152 * c[2] + 722 * c[3] + 5000) \div 10000
PrWeight(w) == (w * 403 + 500) \div 1000
PbWeight(w) == (w * 290 + 500) \div 1000
Distance(x, y, p) ==
  (IF p.perceptual
   THEN LET dl == Luma(x) - Luma(y) IN
        p.weights[1] * Square(dl) + PrWeight(p.weights[2]) * Square(x[1] - y[1] - dl)
        + PbWeight(p.weights[3]) * Square(x[3] - y[3] - dl)
   ELSE p.weights[1] * Square(x[1] - y[1]) + p.weights[2] * Square(x[2] - y[2]) + p.weights[3] * Square(x[3] - y[3]))
  + IF p.alpha THEN p.weights[4] * Square(x[4] - y[4]) ELSE 0

\* The colours between two endpoints.
Palette(low, high, pbits, p) ==
  LET from == ScaleColor(WithPBit(low, pbits[1], p), p)
      to   == ScaleColor(WithPBit(high, pbits[IF p.share THEN 1 ELSE 2], p), p)
  IN Row(2^p.bits, LAMBDA s : Colour(LAMBDA c : Mix(from[c], to[c], Weights[p.bits][s])))

Unknown == -1                    \* u64::MAX
Less(e, f) == f = Unknown \/ (e # Unknown /\ e < f)

(* The selector of a pixel.  Sixteen colours are not all tried: the pixel  *)
(* is projected on the line between the endpoints and the better of the    *)
(* two colours next to it is taken, the lower of a tie.  Else all are      *)
(* tried; of a tie the perceptual search takes the lowest, the other the   *)
(* highest, as the bit scans of the vector code do.                        *)
Projected(pixel, palette, p) ==
  LET n     == Len(palette)
      delta == Colour(LAMBDA c : palette[n][c] - palette[1][c])
      along == MapThenSumSet(LAMBDA c : (pixel[c] - palette[1][c]) * delta[c], Channels(p))
      size  == MapThenSumSet(LAMBDA c : Square(delta[c]), Channels(p))
      near  == (2 * along * n + size) \div (2 * size)
      upper == IF near < 1 THEN 1 ELSE IF near > n - 1 THEN n - 1 ELSE near
  IN IF size = 0 THEN 0       \* 0 * (16 / 0) is not a number, and that is 0 as an index
     ELSE IF Distance(palette[upper], pixel, p) <= Distance(palette[upper + 1], pixel, p) THEN upper - 1 ELSE upper
Errors(pixel, palette, p) == Row(Len(palette), LAMBDA s : Distance(palette[s], pixel, p))
Least(err) == {s \in DOMAIN err : err[s] = Min(ToSet(err))}
NearestPlain(pixel, palette, p)      == Max(Least(Errors(pixel, palette, p))) - 1
NearestPerceptual(pixel, palette, p) == Min(Least(Errors(pixel, palette, p))) - 1
Nearest(pixel, palette, p) == IF p.perceptual THEN NearestPerceptual(pixel, palette, p) ELSE NearestPlain(pixel, palette, p)
\* The scans of the scalar code.
Scan(err, tiesWin) ==
  FoldLeft(LAMBDA best, s : IF Less(err[s], best.err) \/ (tiesWin /\ err[s] = best.err) THEN [err |-> err[s], at |-> s - 1] ELSE best,
           [err |-> Unknown, at |-> 0], Row(Len(err), LAMBDA s : s)).at
ScanPlain(pixel, palette, p)      == Scan(Errors(pixel, palette, p), TRUE)
ScanPerceptual(pixel, palette, p) == Scan(Errors(pixel, palette, p), FALSE)
NearestScalar(pixel, palette, p) == IF p.perceptual THEN ScanPerceptual(pixel, palette, p) ELSE ScanPlain(pixel, palette, p)
Selector(pixel, palette, p) ==
  IF p.bits = 4 /\ ~p.perceptual THEN Projected(pixel, palette, p) ELSE Nearest(pixel, palette, p)

NoResult == [err |-> Unknown, low |-> <<0, 0, 0, 0>>, high |-> <<0, 0, 0, 0>>, pbits |-> <<0, 0>>, selectors |-> << >>]

Misses(palette, selectors, p, pixels) ==
  MapThenSumSet(LAMBDA i : Distance(palette[selectors[i] + 1], pixels[i], p), DOMAIN pixels)
Judged(palette, selectors, low, high, pbits, p, pixels) ==
  [err |-> Misses(palette, selectors, p, pixels), low |-> low, high |-> high, pbits |-> pbits, selectors |-> selectors]
Selected(palette, low, high, pbits, p, pixels) ==
  Judged(palette, Row(Len(pixels), LAMBDA i : Selector(pixels[i], palette, p)), low, high, pbits, p, pixels)
EvaluateSolution(low, high, pbits, p, pixels) == Selected(Palette(low, high, pbits, p), low, high, pbits, p, pixels)
Better(res, trial) == IF Less(trial.err, res.err) THEN trial ELSE res
Evaluate(res, low, high, pbits, p, pixels) == Better(res, EvaluateSolution(low, high, pbits, p, pixels))

-----------------------------------------------------------------------------
(* One colour.  For each value the endpoints whose mix at one selector is  *)
(* nearest are known from a table; of those as near, the ones met first.   *)
OneSelector(mode, bits) ==
  CASE mode \in {0, 1} -> 2 [] mode = 6 -> 5 [] mode \in {5, 7} -> 1 [] mode \in {2, 4} -> IF bits = 3 THEN 2 ELSE 1
BestEndpoints(value, n, pbits, bits, weight, levels) ==
  LET wide(v, k) == Expand(IF pbits = << >> THEN v ELSE 2 * v + pbits[k], n)
      mix(l, h)  == Mix(wide(l, 1), wide(h, 2), weight)
      \* Only these can be mixed with l to v.
      Around(l, v) == LET h == ((64 * v - wide(l, 1) * (64 - weight)) * levels) \div (256 * weight)
                      IN (h - 2)..(h + 2) \cap 0..(levels - 1)
      Hits(l, d) == UNION {{h \in Around(l, v) : mix(l, h) = v} : v \in {value - d, value + d}}
      Lows == 0..(levels - 1)
      Ends(d, low) == [error |-> d * d, lo |-> low, hi |-> Min(Hits(low, d))]
      First(d) == Ends(d, CHOOSE l \in Lows : Hits(l, d) # {} /\ \A k \in 0..(l - 1) : Hits(k, d) = {})
  IN First(CHOOSE d \in 0..255 : (\E l \in Lows : Hits(l, d) # {}) /\ \A e \in 0..(d - 1), l \in Lows : Hits(l, e) = {})

\* The p-bits in the order they are tried.
PBitChoices(p) ==
  IF ~p.pbits THEN << << >> >> ELSE IF p.share THEN << <<0, 0>>, <<1, 1>> >> ELSE << <<0, 0>>, <<1, 0>>, <<0, 1>>, <<1, 1>> >>
Counted(mode) == IF mode \in {6, 7} THEN 1..4 ELSE 1..3
PackedAt(mode, p, pixels, selector, low, high, pbits) ==
  LET n == p.comp + IF p.pbits THEN 1 ELSE 0
      \* Mode 7 is mixed from six bits that have not been widened.
      wide(v, bit) == IF mode = 7 THEN 2 * v + bit ELSE Expand(IF p.pbits THEN 2 * v + bit ELSE v, n)
      mixed(c) == IF c \notin Counted(mode) THEN 255
                  ELSE Mix(wide(low[c], pbits[1]), wide(high[c], pbits[IF p.share THEN 1 ELSE 2]), Weight(p.bits, selector))
      Off(colour) == MapThenSumSet(LAMBDA i : Distance(colour, pixels[i], [p EXCEPT !.alpha = (mode \in {6, 7})]), DOMAIN pixels)
  IN [err |-> Off(Colour(mixed)), low |-> low, high |-> high, pbits |-> pbits, selectors |-> Row(Len(pixels), LAMBDA i : selector)]
PackToOneColor(mode, p, colour, pixels) ==
  LET n        == p.comp + IF p.pbits THEN 1 ELSE 0
      selector == OneSelector(mode, p.bits)
      options  == Row(Len(PBitChoices(p)), LAMBDA k :
                    Row(Max(Counted(mode)), LAMBDA c :
                      BestEndpoints(colour[c], n, PBitChoices(p)[k], p.bits, Weight(p.bits, selector), 2^p.comp)))
      error(ends) == MapThenSumSet(LAMBDA c : ends[c].error, Counted(mode))
      Cheapest(of) == CHOOSE k \in DOMAIN of : \A q \in DOMAIN of : error(of[k]) < error(of[q]) \/ (error(of[k]) = error(of[q]) /\ k <= q)
      Chosen(of, k) ==
        PackedAt(mode, p, pixels, selector,
                 Colour(LAMBDA c : IF c \in Counted(mode) THEN of[k][c].lo ELSE 0),
                 Colour(LAMBDA c : IF c \in Counted(mode) THEN of[k][c].hi ELSE 0),
                 IF ~p.pbits THEN <<0, 0>> ELSE IF p.share THEN <<PBitChoices(p)[k][1], 0>> ELSE PBitChoices(p)[k])
      Best(of) == Chosen(of, Cheapest(of))
  IN Best(options)

-----------------------------------------------------------------------------
(* The bits.  A result has for each subset its endpoints and p-bits, and   *)
(* for each pixel its selectors.  An anchor pixel's index is written       *)
(* without its highest bit, so a subset whose anchor has that bit is       *)
(* turned round first: selectors, endpoints and p-bits.                    *)
NewResults == [mode |-> 0, partition |-> 0, selectors |-> Row(16, LAMBDA i : 0), alphas |-> Row(16, LAMBDA i : 0),
               low |-> Row(3, LAMBDA k : <<0, 0, 0, 0>>), high |-> Row(3, LAMBDA k : <<0, 0, 0, 0>>),
               pbits |-> Row(3, LAMBDA k : <<0, 0>>), rotation |-> 0, index |-> 0]

Bits(value, n) == Row(n, LAMBDA i : (value \div 2^(i - 1)) % 2)
ColorIndexSize(mode, index) == At(ColorIndexBitcount, mode) + index
AlphaIndexSize(mode, index) == At(AlphaIndexBitcount, mode) - index
SwapNot(pair) == pair
Swap(pair) == <<pair[2], pair[1]>>

Turned(res) ==
  LET mode    == res.mode
      subsets == At(NumSubsets, mode)
      of      == Row(16, LAMBDA i : SubsetOf(subsets, res.partition, i - 1))
      colors  == 2^ColorIndexSize(mode, res.index)
      alphas  == 2^AlphaIndexSize(mode, res.index)
      High(selectors, n) == {k \in 0..(subsets - 1) : selectors[Anchor(subsets, res.partition, k) + 1] >= n \div 2}
      turn    == High(res.selectors, colors)
      turnA   == IF SeparateAlpha(mode) THEN High(res.alphas, alphas) ELSE {}
      Other(selectors, n, which) == Row(16, LAMBDA i : IF of[i] \in which THEN n - 1 - selectors[i] ELSE selectors[i])
      Ends(here, there) == Row(3, LAMBDA k : Colour(LAMBDA c :
        IF k - 1 \in (IF c = 4 /\ SeparateAlpha(mode) THEN turnA ELSE turn) THEN there[k][c] ELSE here[k][c]))
  IN [res EXCEPT
        !.selectors = Other(res.selectors, colors, turn), !.alphas = Other(res.alphas, alphas, turnA),
        !.low = Ends(res.low, res.high), !.high = Ends(res.high, res.low),
        !.pbits = Row(3, LAMBDA k : IF k - 1 \in turn /\ ~SharedPBits(mode) THEN Swap(res.pbits[k]) ELSE res.pbits[k])]

Written(res) ==
  LET mode    == res.mode
      subsets == At(NumSubsets, mode)
      anchors == {Anchor(subsets, res.partition, k) : k \in 0..(subsets - 1)}
      Each(n, Op(_)) == FlattenSeq(Row(n, Op))
      Index(values, size) == Each(16, LAMBDA i : Bits(values[i], IF i - 1 \in anchors THEN size - 1 ELSE size))
      colors == Index(res.selectors, ColorIndexSize(mode, res.index))
      alphas == Index(res.alphas, AlphaIndexSize(mode, res.index))
      Ends(c) == Each(subsets, LAMBDA k : LET n == At(IF c = 4 THEN AlphaPrecision ELSE ColorPrecision, mode)
                                          IN Bits(res.low[k][c], n) \o Bits(res.high[k][c], n))
  IN Bits(2^mode, mode + 1)
     \o (IF SeparateAlpha(mode) THEN Bits(res.rotation, 2) ELSE << >>)
     \o (IF mode = 4 THEN Bits(res.index, 1) ELSE << >>)
     \o Bits(res.partition, At(PartitionBits, mode))
     \o Each(IF mode >= 4 THEN 4 ELSE 3, Ends)
     \o (IF HasPBits(mode) THEN Each(subsets, LAMBDA k : SubSeq(res.pbits[k], 1, IF SharedPBits(mode) THEN 1 ELSE 2)) ELSE << >>)
     \o (IF res.index = 0 THEN colors ELSE alphas)
     \o (IF ~SeparateAlpha(mode) THEN << >> ELSE IF res.index = 0 THEN alphas ELSE colors)
EncodeBlockBits(res) == Written(Turned(res))

(* What reads a block: the texture units of the graphics hardware.         *)
ModeOf(bits) == CHOOSE m \in 0..7 : bits[m + 1] = 1 /\ \A l \in 0..(m - 1) : bits[l + 1] = 0
Num(bits, at, n) == MapThenSumSet(LAMBDA i : bits[at + i] * 2^(i - 1), 1..n)
RotationAt(mode) == mode + 1
IndexAt(mode)    == RotationAt(mode) + IF SeparateAlpha(mode) THEN 2 ELSE 0
PartitionAt(mode) == IndexAt(mode) + IF mode = 4 THEN 1 ELSE 0
EndsAt(mode)     == PartitionAt(mode) + At(PartitionBits, mode)
PBitsAt(mode)    == EndsAt(mode) + 2 * At(NumSubsets, mode) * (3 * At(ColorPrecision, mode) + At(AlphaPrecision, mode))
PBitsOfSubset(mode) == IF ~HasPBits(mode) THEN 0 ELSE IF SharedPBits(mode) THEN 1 ELSE 2
FirstAt(mode)    == PBitsAt(mode) + At(NumSubsets, mode) * PBitsOfSubset(mode)
SecondAt(mode)   == FirstAt(mode) + 16 * At(ColorIndexBitcount, mode) - At(NumSubsets, mode)

\* Endpoint e, 0 or 1, of subset k in channel c, from 0.
Precision(mode, c) == IF c < 3 THEN At(ColorPrecision, mode) ELSE At(AlphaPrecision, mode)
RawEnd(bits, mode, k, e, c) ==
  Num(bits, EndsAt(mode) + c * 2 * At(NumSubsets, mode) * At(ColorPrecision, mode) + (2 * k + e) * Precision(mode, c), Precision(mode, c))
PBit(bits, mode, k, e) == bits[PBitsAt(mode) + k * PBitsOfSubset(mode) + (IF SharedPBits(mode) THEN 0 ELSE e) + 1]
EndOf(bits, mode, k, e, c) ==
  IF c = 3 /\ mode < 4 THEN 255
  ELSE IF HasPBits(mode) THEN Expand(2 * RawEnd(bits, mode, k, e, c) + PBit(bits, mode, k, e), Precision(mode, c) + 1)
  ELSE Expand(RawEnd(bits, mode, k, e, c), Precision(mode, c))

\* A pixel's weight from one of the two lists of selectors.
WeightAt(bits, at, size, i, anchors) ==
  Weight(size, Num(bits, at + i * size - Cardinality(anchors \cap 0..(i - 1)), IF i \in anchors THEN size - 1 ELSE size))
WeightIn(bits, mode, second, i, anchors) ==
  IF second THEN WeightAt(bits, SecondAt(mode), At(AlphaIndexBitcount, mode), i, anchors)
  ELSE WeightAt(bits, FirstAt(mode), At(ColorIndexBitcount, mode), i, anchors)
StoredAt(bits, mode, index, k, i, anchors) ==
  Colour(LAMBDA c : Mix(EndOf(bits, mode, k, 0, c - 1), EndOf(bits, mode, k, 1, c - 1),
                        WeightIn(bits, mode, IF c = 4 THEN SeparateAlpha(mode) /\ index = 0 ELSE index = 1, i, anchors)))
Unrotated(v, rotation) == IF rotation = 0 THEN v ELSE [v EXCEPT ![4] = v[rotation], ![rotation] = v[4]]
Read(bits, mode, index, part, rotation) ==
  Row(16, LAMBDA i : Unrotated(StoredAt(bits, mode, index, SubsetOf(At(NumSubsets, mode), part, i - 1), i - 1,
                                        {Anchor(At(NumSubsets, mode), part, k) : k \in 0..(At(NumSubsets, mode) - 1)}), rotation))
ReadMode(bits, mode) ==
  Read(bits, mode, IF mode = 4 THEN bits[IndexAt(mode) + 1] ELSE 0, Num(bits, PartitionAt(mode), At(PartitionBits, mode)),
       IF SeparateAlpha(mode) THEN Num(bits, RotationAt(mode), 2) ELSE 0)
Decode(bits) == ReadMode(bits, ModeOf(bits))
=============================================================================
