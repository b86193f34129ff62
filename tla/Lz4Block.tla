------------------------------ MODULE Lz4Block ------------------------------
(***************************************************************************)
(* The LZ4 block encoder of src/src/lz4.rs, which makes what the block     *)
(* cache keeps, and its decoder.  The encoder prices the ways to encode    *)
(* the next bytes in a table (opt) by their end, looks for a match at each *)
(* of them, and goes back from the last to emit the cheapest way.  What    *)
(* the hash chains find is any match there is, or none.  A byte holds a    *)
(* number up to ByteMax, or a token, whose halves hold up to RunMask and   *)
(* MlMask.  Positions count from 0.                                        *)
(***************************************************************************)
EXTENDS Integers, Sequences, FiniteSets

CONSTANTS
  Buffers,       \* the inputs
  MinMatch, LastLiterals, MfLimit, OptNum, RunMask, MlMask, ByteMax,
  SufficientLens \* from which match on the table is not filled: the two settings

Lz4BlockAssumption ==
  /\ {MinMatch, LastLiterals, MfLimit, OptNum, RunMask, MlMask, ByteMax} \subseteq Nat \ {0}
  /\ MfLimit >= LastLiterals + MinMatch /\ OptNum > MinMatch
  /\ \A s \in SufficientLens : s \in Nat /\ s < OptNum
  /\ \A f \in Buffers : Len(f) < (ByteMax + 1) * (ByteMax + 1)

VARIABLES
  buf, sufficient,
  step,          \* "find" a first match, "price" what follows it, "last" literals, "done"
  ip, anchor,    \* where the encoder is, and where its pending literals begin
  op,            \* the bytes it made
  opt, cur, last \* the table, where in it, and the end of the last match

lzvars == <<buf, sufficient, step, ip, anchor, op, opt, cur, last>>

TrailingLiterals == 3
Unpriced == [price |-> 0, off |-> 0, mlen |-> 0, litlen |-> 0]

Init ==
  /\ buf \in Buffers /\ sufficient \in SufficientLens
  /\ step = IF Len(buf) < MfLimit + 1 THEN "last" ELSE "find"
  /\ ip = 0 /\ anchor = 0 /\ op = <<>>
  /\ opt = [p \in 0..(OptNum + TrailingLiterals - 1) |-> Unpriced]
  /\ cur = 0 /\ last = 0

-----------------------------------------------------------------------------
(* Matches: the bytes at pos are also off before it, up to the last ones   *)
(* of the input.                                                           *)
IsMatch(pos, m) ==
  /\ pos + m.len <= Len(buf) - LastLiterals
  /\ \A k \in 1..m.len : buf[pos + k] = buf[pos - m.off + k]
Matches(pos) == {m \in [off : 1..pos, len : MinMatch..(Len(buf) - LastLiterals - pos)] : IsMatch(pos, m)}

LiteralsPrice(n) == n + IF n >= RunMask THEN 1 + (n - RunMask) \div ByteMax ELSE 0
SequencePrice(lit, ml) ==
  3 + LiteralsPrice(lit)
    + IF ml >= MlMask + MinMatch THEN 1 + (ml - MlMask - MinMatch) \div ByteMax ELSE 0

(* What does not fit the half of a token follows in bytes, the last of     *)
(* which is not full.                                                      *)
Lesser(m, n) == IF m < n THEN m ELSE n
Rest(n) == [i \in 1..(n \div ByteMax) |-> ByteMax] \o <<n % ByteMax>>
LengthBytesLate(n, mask) == IF n > mask THEN Rest(n - mask) ELSE <<>>
LengthBytes(n, mask) == IF n >= mask THEN Rest(n - mask) ELSE <<>>
Token(lit, ml) == [lit |-> Lesser(lit, RunMask), ml |-> Lesser(ml, MlMask)]
OffsetBytes(off) == <<off % (ByteMax + 1), (off \div (ByteMax + 1)) % (ByteMax + 1)>>

Literals(from, to) == LengthBytes(to - from, RunMask) \o SubSeq(buf, from + 1, to)
EncodeSequence(s, ml, off) ==
  [op |-> s.op \o <<Token(s.ip - s.anchor, ml - MinMatch)>> \o Literals(s.anchor, s.ip)
               \o OffsetBytes(off) \o LengthBytes(ml - MinMatch, MlMask),
   ip |-> s.ip + ml, anchor |-> s.ip + ml]
LastRun == <<Token(Len(buf) - anchor, 0)>> \o Literals(anchor, Len(buf))

(* encode_path: the way is turned round, from the end to the start, and    *)
(* then emitted.                                                           *)
RECURSIVE Backward(_, _, _)
Backward(o, pos, m) ==
  LET before == o[pos]
      chosen == [o EXCEPT ![pos].mlen = m.mlen, ![pos].off = m.off]
  IN IF before.mlen > pos THEN chosen ELSE Backward(chosen, pos - before.mlen, before)
RECURSIVE Forward(_, _, _, _)
Forward(s, o, pos, end) ==
  IF pos >= end THEN s
  ELSE IF o[pos].mlen = 1 THEN Forward([s EXCEPT !.ip = @ + 1], o, pos + 1, end)
  ELSE Forward(EncodeSequence(s, o[pos].mlen, o[pos].off), o, pos + o[pos].mlen, end)
EncodePath(pos, end, ml, off) ==
  LET o == Backward(opt, pos, [mlen |-> ml, off |-> off])
      s == Forward([op |-> op, ip |-> ip, anchor |-> anchor], o, 0, end)
  IN /\ opt' = o /\ op' = s.op /\ ip' = s.ip /\ anchor' = s.anchor
     /\ step' = "find" /\ cur' = 0 /\ last' = 0
     /\ UNCHANGED <<buf, sufficient>>

-----------------------------------------------------------------------------
(* The table. *)
Literal(price, litlen) == [price |-> price, off |-> 0, mlen |-> 1, litlen |-> litlen]
Trailing(o, end) ==
  [p \in DOMAIN o |-> IF p - end \in 1..TrailingLiterals
                      THEN Literal(o[end].price + LiteralsPrice(p - end), p - end) ELSE o[p]]
FirstTable(m) ==
  LET lit == ip - anchor
  IN Trailing([p \in DOMAIN opt |->
                 IF p < MinMatch THEN Literal(LiteralsPrice(lit + p), lit + p)
                 ELSE IF p <= m.len
                 THEN [price |-> SequencePrice(lit, p), off |-> m.off, mlen |-> p, litlen |-> lit]
                 ELSE opt[p]], m.len)

(* A match at cur, after the literals there were before it: where that is  *)
(* no dearer than what the table has, or past its end.                     *)
WithLiterals ==
  [p \in DOMAIN opt |->
     LET lit == opt[cur].litlen + p - cur
         price == opt[cur].price - LiteralsPrice(opt[cur].litlen) + LiteralsPrice(lit)
     IN IF p - cur \in 1..(MinMatch - 1) /\ price < opt[p].price THEN Literal(price, lit) ELSE opt[p]]
WithMatch(o, m) ==
  LET lit == IF o[cur].mlen = 1 THEN o[cur].litlen ELSE 0
      base == IF o[cur].mlen # 1 THEN o[cur].price ELSE IF cur > lit THEN o[cur - lit].price ELSE 0
      Price(p) == base + SequencePrice(lit, p - cur)
      Taken(p) == /\ p - cur \in MinMatch..m.len
                  /\ p > last + TrailingLiterals \/ Price(p) <= o[p].price
      end == IF Taken(cur + m.len) /\ last < cur + m.len THEN cur + m.len ELSE last
  IN [end |-> end,
      opt |-> Trailing([p \in DOMAIN o |->
                 IF Taken(p) THEN [price |-> Price(p), off |-> m.off, mlen |-> p - cur, litlen |-> lit]
                 ELSE o[p]], end)]

-----------------------------------------------------------------------------
(* compress_optimal: the first match of a way. *)
Searching == step = "find" /\ ip <= Len(buf) - MfLimit
NoFirstMatch ==
  /\ Searching
  /\ ip' = ip + 1
  /\ UNCHANGED <<buf, sufficient, step, anchor, op, opt, cur, last>>
LongMatch(m) ==
  /\ Searching /\ m \in Matches(ip) /\ m.len > sufficient
  /\ LET s == EncodeSequence([op |-> op, ip |-> ip, anchor |-> anchor], m.len, m.off)
     IN op' = s.op /\ ip' = s.ip /\ anchor' = s.anchor
  /\ UNCHANGED <<buf, sufficient, step, opt, cur, last>>
FirstMatch(m) ==
  /\ Searching /\ m \in Matches(ip) /\ m.len <= sufficient
  /\ opt' = FirstTable(m)
  /\ last' = m.len /\ cur' = 1 /\ step' = "price"
  /\ UNCHANGED <<buf, sufficient, ip, anchor, op>>

(* Then a match at each end of the table, unless it is passed over.        *)
Pricing == step = "price" /\ cur < last /\ ip + cur <= Len(buf) - MfLimit
Dear == opt[cur + 1].price <= opt[cur].price /\ opt[cur + MinMatch].price < opt[cur].price + 3
NextCur ==
  /\ Pricing
  /\ cur' = cur + 1
  /\ UNCHANGED <<buf, sufficient, step, ip, anchor, op, opt, last>>
TooLong(m) == m.len > sufficient \/ m.len + cur >= OptNum
EncodeNow(m) ==
  /\ Pricing /\ ~Dear /\ m \in Matches(ip + cur) /\ TooLong(m)
  /\ EncodePath(cur, cur + 1, m.len, m.off)
NextMatch(m) ==
  /\ Pricing /\ ~Dear /\ m \in Matches(ip + cur) /\ ~TooLong(m)
  /\ LET w == WithMatch(WithLiterals, m) IN opt' = w.opt /\ last' = w.end
  /\ cur' = cur + 1
  /\ UNCHANGED <<buf, sufficient, step, ip, anchor, op>>
EncodeBest ==
  /\ step = "price" /\ ~Pricing
  /\ EncodePath(last - opt[last].mlen, last, opt[last].mlen, opt[last].off)

EmitLastLiterals ==
  /\ step = "last" \/ (step = "find" /\ ~Searching)
  /\ op' = op \o LastRun
  /\ step' = "done"
  /\ UNCHANGED <<buf, sufficient, ip, anchor, opt, cur, last>>

Found(m) == LongMatch(m) \/ FirstMatch(m) \/ EncodeNow(m) \/ NextMatch(m)
Next ==
  \/ NoFirstMatch \/ NextCur \/ EncodeBest \/ EmitLastLiterals
  \/ step \in {"find", "price"} /\ \E m \in Matches(ip + cur) : Found(m)
  \/ step = "done" /\ UNCHANGED lzvars

-----------------------------------------------------------------------------
(* decompress: literals, then unless that is the end an offset and a copy, *)
(* byte by byte, of what may still be written.  Malformed is an error.     *)
Malformed == <<"malformed">>
RECURSIVE ReadRest(_, _, _)
ReadRest(src, pos, n) ==
  IF pos >= Len(src) THEN [pos |-> pos, n |-> -1]
  ELSE IF src[pos + 1] = ByteMax THEN ReadRest(src, pos + 1, n + ByteMax)
  ELSE [pos |-> pos + 1, n |-> n + src[pos + 1]]
ReadLength(src, pos, n, mask) == IF n = mask THEN ReadRest(src, pos, n) ELSE [pos |-> pos, n |-> n]
RECURSIVE Copy(_, _, _)
Copy(dst, off, n) == IF n = 0 THEN dst ELSE Copy(Append(dst, dst[Len(dst) + 1 - off]), off, n - 1)
RECURSIVE DecompressFrom(_, _, _, _)
DecompressFrom(src, pos, dst, size) ==
  LET token == src[pos + 1]
      lit == ReadLength(src, pos + 1, token.lit, RunMask)
      read == lit.pos + lit.n
      off == src[read + 1] + (ByteMax + 1) * src[read + 2]
      ml == ReadLength(src, read + 2, token.ml, MlMask)
      out == dst \o SubSeq(src, lit.pos + 1, read)
  IN IF pos >= Len(src) \/ lit.n < 0 THEN Malformed
     ELSE IF read > Len(src) \/ Len(dst) + lit.n > size THEN Malformed
     ELSE IF read = Len(src) THEN (IF Len(out) = size THEN out ELSE Malformed)
     ELSE IF read + 2 > Len(src) \/ off = 0 \/ off > Len(out) \/ ml.n < 0 THEN Malformed
     ELSE IF Len(out) + ml.n + MinMatch > size THEN Malformed
     ELSE DecompressFrom(src, ml.pos, Copy(out, off, ml.n + MinMatch), size)
Decompress(src, size) ==
  IF src = <<>> THEN (IF size = 0 THEN <<>> ELSE Malformed) ELSE DecompressFrom(src, 0, <<>>, size)

-----------------------------------------------------------------------------
(* Whatever matches are found, the block decodes to the input, through all *)
(* lengths at which a token overflows into bytes, and it ends in the       *)
(* literals that other decoders of the format rely on (lz4.rs:811, 1119).  *)
BlockDecodes ==
  step = "done" => /\ Decompress(op, Len(buf)) = buf
                   /\ Len(buf) - anchor >= Lesser(LastLiterals, Len(buf))
=============================================================================
