-------------------------------- MODULE Calc --------------------------------
(***************************************************************************)
(* The program that the kernel runs when it has started: kernel_main in    *)
(* main.c, a calculator for decimal numbers of any length.  A number is    *)
(* kept in limbs of Wei digits, the lowest first, with an exponent that    *)
(* counts limbs (float_segment) and digits (float_offset):                 *)
(*   (num[0] + num[1] * Base + ...) * Base^float_segment * Radix^float_offset *)
(*                                                                         *)
(* An input line that is accepted is a text [sign, digits, frac]: the sign *)
(* typed before it, its digits, and how many of them are behind the point  *)
(* (0: there is no point).  check() accepts nothing else.                  *)
(***************************************************************************)
EXTENDS Integers, SequencesExt, FiniteSetsExt

CONSTANTS
  Radix,    \* ten in the code
  Wei,      \* WEI, digits of a limb: six in the code
  Texts,    \* the texts that may be typed
  Wanted     \* how many significant digits may be asked for

Base == Radix ^ Wei

ASSUME CalcAssumption ==
  /\ Radix \in Nat \ {0, 1} /\ Wei \in Nat \ {0} /\ Wanted \subseteq Nat \ {0}
  /\ \A t \in Texts :
       /\ t.sign \in {"none", "plus", "minus"}
       /\ t.digits \in Seq(0 .. Radix - 1) /\ t.frac \in 0 .. Len(t.digits) - 1

VARIABLES
  cpc,      \* what kernel_main does next
  fuhao,    \* the operator: 0 +, 1 -, 2 *, 3 /
  baoliu,   \* the significant digits to keep
  a, b,     \* the operands
  typed,    \* the two texts that were accepted (history)
  result,   \* what was computed
  answer    \* the text shown in the end

calcVars == <<cpc, fuhao, baoliu, a, b, result, typed, answer>>

Abs(x) == IF x < 0 THEN -x ELSE x

Zeros(n) == [i \in 1 .. n |-> 0]

(* How many digits are missing to whole limbs. *)
Missing(n) == (-n) % Wei

Number(num, negative, segment, offset) ==
  [num |-> num, is_negative |-> negative, float_segment |-> segment, float_offset |-> offset]

(* Num = {NULL}, and what string_to_Num makes of 0. *)
NoNum == Number(<<>>, FALSE, 0, 0)

DigitsValue(s) == FoldLeft(LAMBDA v, d : v * Radix + d, 0, s)

-----------------------------------------------------------------------------
(* From a text to a number.                                                *)

NoLeading(s) == LET nz == {i \in DOMAIN s : s[i] # 0}
                IN IF nz = {} THEN <<>> ELSE SubSeq(s, Min(nz), Len(s))

NoTrailing(s) == LET nz == {i \in DOMAIN s : s[i] # 0}
                 IN IF nz = {} THEN <<>> ELSE SubSeq(s, 1, Max(nz))

(* The digits without the zeros at the ends (those behind the point stay   *)
(* when there are none before it), and the exponent that goes with them.   *)
Stripped(t) ==
  LET point == Len(t.digits) - t.frac
      int   == NoLeading(SubSeq(t.digits, 1, point))
      frac  == NoTrailing(SubSeq(t.digits, point + 1, Len(t.digits)))
  IN IF frac # <<>>
     THEN [digits |-> int \o frac, float |-> -Len(frac)]
     ELSE [digits |-> NoTrailing(int), float |-> Len(int) - Len(NoTrailing(int))]

(* The limbs of the digits: of Wei digits each, from the left; for + and - *)
(* the first has as many as bring the point between two limbs.             *)
Limbs(digits) ==
  [i \in 1 .. Len(digits) \div Wei |->
     DigitsValue(SubSeq(digits, Len(digits) - i * Wei + 1, Len(digits) - (i - 1) * Wei))]

(* A number whose digits all go to the first limb gets float_segment 0.    *)
OneLimb(s, top, negative) ==
  Number(<<DigitsValue(s.digits \o Zeros(top - Len(s.digits)))>>, negative, 0, 0)

ManyLimbs(s, top, negative) ==
  LET rest  == Len(s.digits) - top
      float == s.float - Missing(rest)
  IN Number(Limbs(Zeros(Missing(top)) \o s.digits \o Zeros(Missing(rest))),
            negative, float \div Wei, float % Wei)

string_to_Num(t, negative) ==
  LET s   == Stripped(t)
      top == IF fuhao <= 1 THEN (Len(s.digits) + s.float) % Wei ELSE 0
  IN IF s.digits = <<>> THEN NoNum
     ELSE IF top >= Len(s.digits) THEN OneLimb(s, top, negative)
     ELSE ManyLimbs(s, top, negative)

-----------------------------------------------------------------------------
(* Arithmetic on limbs.                                                    *)

(* The limbs from `from` on, n of them, are brought below Base upwards.    *)
CarryAt(s, i) == [s EXCEPT ![i] = @ % Base, ![i + 1] = @ + s[i] \div Base]

jinwei_zhengxiang(s, from, n) ==
  FoldLeft(CarryAt, s, [k \in 1 .. n - 1 |-> from + k - 1])

(* The same for limbs that may be negative. *)
BorrowAt(s, i) ==
  LET temp == (-s[i] - 1) \div Base + 1
  IN IF s[i] < 0 THEN [s EXCEPT ![i] = @ + temp * Base, ![i + 1] = @ - temp] ELSE s

jinwei_fanxiang(s, from, n) ==
  FoldLeft(BorrowAt, s, [k \in 1 .. n - 1 |-> from + k - 1])

(* The difference of the highest limbs that differ. *)
numcmp(s, t) ==
  LET diff == {i \in DOMAIN s : s[i] # t[i]}
  IN IF diff = {} THEN 0 ELSE s[Max(diff)] - t[Max(diff)]

(* The places where a number begins and ends, counted in limbs.            *)
End(x) == x.float_segment + Len(x.num)

Num_compare_jueduizhi(x, y) ==
  IF End(x) # End(y) THEN End(x) - End(y)
  ELSE IF Len(x.num) # Len(y.num) THEN Len(x.num) - Len(y.num)
  ELSE numcmp(x.num, y.num)

(* The limb of x at a place of the result, which begins at min.            *)
LimbAt(x, min, i) ==
  LET k == i - (x.float_segment - min) IN IF k \in DOMAIN x.num THEN x.num[k] ELSE 0

jia(x, y, negative) ==
  LET max == Max({End(x), End(y)})
      min == Min({x.float_segment, y.float_segment})
      min_max == Max({x.float_segment, y.float_segment})
      sum == jinwei_zhengxiang([i \in 1 .. max - min |-> LimbAt(x, min, i) + LimbAt(y, min, i)] \o <<0>>,
                               min_max - min + 1, max - min_max + 1)
  IN Number(IF Last(sum) = 0 THEN Front(sum) ELSE sum, negative, min, 0)

jian(x, y, negative) ==
  LET max == Max({End(x), End(y)})
      min == Min({x.float_segment, y.float_segment})
      num == NoTrailing(
               jinwei_fanxiang([i \in 1 .. max - min |-> LimbAt(x, min, i) - LimbAt(y, min, i)] \o <<0>>,
                               y.float_segment - min + 1, max - y.float_segment + 1))
  IN Number(num, negative /\ num # <<>>, min, 0)

(* cheng adds up all products of limbs and carries after every Base of     *)
(* them (jishu counts down), from the place where it carried last (mark).  *)
ChengRow(x, y, r, j) ==
  LET n   == Len(x.num)
      sum == SubSeq(r.num, 1, j - 1)
             \o [i \in 1 .. n |-> r.num[j + i - 1] + x.num[i] * y.num[j]]
             \o SubSeq(r.num, j + n, Len(r.num))
  IN IF r.jishu # 0
     THEN [r EXCEPT !.num = sum, !.jishu = @ - 1]
     ELSE [num |-> jinwei_zhengxiang(sum, r.mark, n + Base), mark |-> j + 1, jishu |-> Base - 1]

cheng(x, y) ==
  LET r == FoldLeft(LAMBDA q, j : ChengRow(x, y, q, j),
                    [num |-> Zeros(Len(x.num) + Len(y.num)), mark |-> 1, jishu |-> Base - 1],
                    [j \in 1 .. Len(y.num) |-> j])
      num == jinwei_zhengxiang(r.num, r.mark, Len(x.num) + Base - 1 - r.jishu)
      offset == x.float_offset + y.float_offset
  IN IF x.num = <<>> \/ y.num = <<>> THEN NoNum
     ELSE Number(IF Last(num) = 0 THEN Front(num) ELSE num, x.is_negative # y.is_negative,
                 x.float_segment + y.float_segment + offset \div Wei, offset % Wei)

-----------------------------------------------------------------------------
(* Long division.                                                          *)

Value(s) == FoldRight(LAMBDA x, v : v * Base + x, s, 0)

Top(s, k) == SubSeq(s, Len(s) - k + 1, Len(s))

(* How the divisor compares with the dividend when both begin at the same  *)
(* limb: 0 the quotient begins one limb later, 1 here, 2 here with 1.      *)
Flag(x, y) ==
  LET n    == Min({Len(x.num), Len(y.num)})
      temp == numcmp(Top(y.num, n), Top(x.num, n))
  IN IF Len(y.num) > Len(x.num)
     THEN IF temp >= 0 THEN 0 ELSE 1
     ELSE IF temp > 0 THEN 0 ELSE IF temp = 0 THEN 2 ELSE 1

(* Faulty: the guess is never compared with the dividend.                  *)
QuotientGuessed(part, chushu, first) ==
  LET n     == Len(chushu)
      temp2 == Value(Top(chushu, IF first THEN 3 ELSE 2))
  IN IF n <= 2 \/ (first /\ n = 3) THEN Value(part) \div Value(chushu)
     ELSE (Value(Top(part, 3)) + 1) \div temp2

(* One limb of the quotient: the part of the dividend it comes from by the *)
(* divisor.  With three limbs and more it is guessed from the highest ones *)
(* and lowered by one if it proves too large.                              *)
Quotient(part, chushu, first) ==
  LET n     == Len(chushu)
      temp1 == Value(Top(part, 3))
      temp2 == Value(Top(chushu, IF first THEN 3 ELSE 2))
      guess == (temp1 + 1) \div temp2
      product == jinwei_zhengxiang([i \in 1 .. n |-> guess * chushu[i]] \o Zeros(Len(part) - n),
                                   1, Len(part))
  IN IF n <= 2 \/ (first /\ n = 3) THEN Value(part) \div Value(chushu)
     ELSE IF temp1 \div (temp2 + 1) # guess /\ numcmp(product, part) > 0 THEN guess - 1
     ELSE guess

(* The limb is found, and its product with the divisor is subtracted: the  *)
(* first limb (flag # 0) comes from as many limbs as the divisor has, every *)
(* other from one more, and then the highest of them is done with.  With   *)
(* flag = 2 the first limb is 1 and leaves nothing, without a calculation. *)
Divide(d, chushu, flag) ==
  LET first == flag # 0
      n    == Len(chushu)
      w    == IF first THEN n ELSE n + 1
      low  == d.high - w
      part == SubSeq(d.beichushu, low + 1, d.high)
      q    == IF flag = 2 THEN 1 ELSE Quotient(part, chushu, first)
      left == IF flag = 2 THEN Zeros(n)
              ELSE jinwei_fanxiang([i \in 1 .. n |-> part[i] - q * chushu[i]] \o SubSeq(part, n + 1, w),
                                   1, w)
  IN [beichushu |-> SubSeq(d.beichushu, 1, low) \o left
                    \o SubSeq(d.beichushu, d.high + 1, Len(d.beichushu)),
      high |-> IF first THEN d.high ELSE d.high - 1,
      result |-> <<q>> \o d.result]

(* The dividend gets as many limbs as the limbs of the result need.        *)
Beichushu(x, len) ==
  IF len > Len(x.num) THEN Zeros(len - Len(x.num)) \o x.num ELSE SubSeq(x.num, 1, len)

chu(x, y) ==
  LET cishu  == (baoliu - 1) \div Wei + 2
      flag   == Flag(x, y)
      begun  == IF flag # 0 THEN 1 ELSE 0
      len    == Len(y.num) + cishu - begun
      start  == [beichushu |-> Beichushu(x, len), high |-> len, result |-> <<>>]
      first  == IF flag # 0 THEN Divide(start, y.num, flag) ELSE start
      all    == FoldLeft(LAMBDA d, i : Divide(d, y.num, 0), first, Zeros(cishu - begun))
      offset == x.float_offset - y.float_offset
  IN IF x.num = <<>> \/ y.num = <<>>
     THEN Number(<<>>, y.num = <<>>, 0, 0)
     ELSE Number(all.result, x.is_negative # y.is_negative,
                 End(x) - End(y) - cishu + begun + offset \div Wei, offset % Wei)

(* A divisor of three limbs and more whose two highest are zero: the guess *)
(* divides by zero, which stops the processor.                             *)
DividesByZero(y) == Len(y.num) >= 3 /\ Value(Top(y.num, 2)) = 0

calc_baoliu(x, y) ==
  LET temp_fuhao == (fuhao = 1) # y.is_negative
      temp       == Num_compare_jueduizhi(x, y)
  IN CASE fuhao = 3 -> chu(x, y)
       [] fuhao = 2 -> cheng(x, y)
       [] OTHER ->
            IF x.is_negative = temp_fuhao THEN jia(x, y, x.is_negative)
            ELSE IF temp > 0 THEN jian(x, y, x.is_negative)
            ELSE IF temp < 0 THEN jian(y, x, temp_fuhao)
            ELSE NoNum

-----------------------------------------------------------------------------
(* What is shown of a number, as a text.                                   *)

(* The digits of a limb, at least so many. *)
LimbDigits(v, least) ==
  LET n == Max({least} \cup {k \in 1 .. 3 * Wei : v >= Radix ^ (k - 1)})
  IN [i \in 1 .. n |-> (v \div Radix ^ (n - i)) % Radix]

(* "0." with zeros and all limbs, if the number is below 1 by its limbs;   *)
(* otherwise the highest limb without leading zeros and the others, with   *)
(* zeros up to the point behind or before them.  A highest limb below zero *)
(* brings a sign of its own.                                               *)
print(x) ==
  LET n     == Len(x.num)
      exp   == x.float_segment * Wei + x.float_offset
      frac  == IF exp < 0 THEN -exp ELSE 0
      small == frac >= n * Wei
      top   == IF n = 0 THEN <<>>
               ELSE LimbDigits(Abs(Last(x.num)), IF small THEN Wei ELSE 1)
      body  == top \o FlattenSeq([i \in 1 .. n - 1 |-> LimbDigits(x.num[n - i], Wei)])
      zeros == IF small THEN frac - n * Wei + 1 ELSE frac + 1 - Len(body)
  IN [sign |-> IF x.is_negative \/ (n > 0 /\ Last(x.num) < 0) THEN "minus" ELSE "none",
      digits |-> Zeros(zeros) \o body \o Zeros(exp),
      frac |-> IF small THEN zeros - 1 + Len(body) ELSE frac]

(* print tests len == 0 && is_negative twice, so that 0 goes on: with no   *)
(* limb to show it reads the one before the first.                         *)
ReadsNoLimb(x) == x.num = <<>> /\ ~x.is_negative /\ x.float_segment >= 0

-----------------------------------------------------------------------------
(* kernel_main.                                                            *)

NoText == [sign |-> "none", digits |-> <<0>>, frac |-> 0]

CalcInit ==
  /\ cpc = "operator"
  /\ fuhao = 0 /\ baoliu = 0
  /\ a = NoNum /\ b = NoNum /\ result = NoNum
  /\ typed = <<NoText, NoText>>
  /\ answer = NoText

(* The operator; for a division, how many digits to keep.                  *)
ScanOperator ==
  /\ cpc = "operator"
  /\ fuhao' \in 0 .. 3
  /\ baoliu' \in IF fuhao' = 3 THEN Wanted ELSE {0}
  /\ cpc' = "first"
  /\ UNCHANGED <<a, b, result, typed, answer>>

(* The sign is read, and stored, before the digits are looked at.          *)
ScanFirst(t, accepted) ==
  /\ cpc = "first"
  /\ a' = IF accepted THEN string_to_Num(t, t.sign = "minus")
          ELSE [a EXCEPT !.is_negative = t.sign = "minus"]
  /\ cpc' = IF accepted THEN "second" ELSE "first"
  /\ typed' = IF accepted THEN [typed EXCEPT ![1] = t] ELSE typed
  /\ UNCHANGED <<fuhao, baoliu, b, result, answer>>

(* A plus sign before the second number is stored with the first.          *)
ScanSecond(t, accepted) ==
  LET negative == IF t.sign = "plus" THEN b.is_negative ELSE t.sign = "minus"
  IN /\ cpc = "second"
     /\ a' = IF t.sign = "plus" THEN [a EXCEPT !.is_negative = FALSE] ELSE a
     /\ b' = IF accepted THEN string_to_Num(t, negative)
             ELSE [b EXCEPT !.is_negative = negative]
     /\ cpc' = IF accepted THEN "compute" ELSE "second"
     /\ typed' = IF accepted THEN [typed EXCEPT ![2] = t] ELSE typed
     /\ UNCHANGED <<fuhao, baoliu, result, answer>>

Compute ==
  /\ cpc = "compute"
  /\ IF fuhao = 3 /\ a.num # <<>> /\ DividesByZero(b)
     THEN cpc' = "undefined" /\ UNCHANGED result
     ELSE cpc' = "show" /\ result' = calc_baoliu(a, b)
  /\ UNCHANGED <<fuhao, baoliu, a, b, typed, answer>>

(* The operands and the result are shown, or "error" for the result of a   *)
(* division by zero.                                                       *)
Show ==
  /\ cpc = "show"
  /\ IF \E x \in {a, b, result} : ReadsNoLimb(x) THEN cpc' = "undefined" /\ UNCHANGED answer
     ELSE IF result.num = <<>> /\ result.is_negative THEN cpc' = "error" /\ UNCHANGED answer
     ELSE cpc' = "shown" /\ answer' = print(result)
  /\ UNCHANGED <<fuhao, baoliu, a, b, result, typed>>

CalcNext ==
  \/ ScanOperator
  \/ \E t \in Texts, accepted \in BOOLEAN : ScanFirst(t, accepted) \/ ScanSecond(t, accepted)
  \/ Compute
  \/ Show

CalcSpec == CalcInit /\ [][CalcNext]_calcVars

-----------------------------------------------------------------------------
(* What the numbers typed and the text shown mean: an integer, to be       *)
(* divided by a power of Radix.                                            *)

Signed(sign, v) == IF sign = "minus" THEN -v ELSE v

Meaning(t) == Signed(t.sign, DigitsValue(t.digits))

(* A dividend below 1 with a limb of zeros in front: the quotient begins   *)
(* with zeros that count as digits.                                        *)
DigitsMissing == Last(a.num) = 0

(* The result is exact; for a division it is the quotient cut off after    *)
(* the last limb that was computed, with the digits that were asked for.   *)
Right(r) ==
  LET x     == Meaning(typed[1]) * Radix ^ typed[2].frac
      y     == Meaning(typed[2]) * Radix ^ typed[1].frac
      scale == Radix ^ (typed[1].frac + typed[2].frac)
      shown == Radix ^ r.frac
      exp   == result.float_segment * Wei + result.float_offset
      unit  == IF exp > 0 THEN Radix ^ exp ELSE 1
      q     == DigitsValue(r.digits)
      negative == (x < 0) # (y < 0)
  IN CASE fuhao = 0 -> Meaning(r) * scale = (x + y) * shown
       [] fuhao = 1 -> Meaning(r) * scale = (x - y) * shown
       [] fuhao = 2 -> Meaning(r) * scale = Meaning(typed[1]) * Meaning(typed[2]) * shown
       [] fuhao = 3 ->
            /\ q * Abs(y) <= Abs(x) * shown
            /\ Abs(x) * shown < (q + unit) * Abs(y)
            /\ (r.sign = "minus") = negative
            /\ DigitsMissing \/ Len(NoLeading(r.digits)) >= baoliu

(***************************************************************************)
(* Where the program is known to fail.                                     *)
(***************************************************************************)

(* The plus sign before the second number has changed the first, or has    *)
(* left the minus of a line that was refused.                              *)
SignLost ==
  \/ a.num # <<>> /\ a.is_negative # (typed[1].sign = "minus")
  \/ b.num # <<>> /\ b.is_negative # (typed[2].sign = "minus")

(* For + and -, digits that fit into one limb with at least a limb of      *)
(* zeros behind them (string_to_Num, "float_segment=0").                   *)
ZerosLost ==
  fuhao <= 1 /\ \E i \in 1 .. 2 :
    LET s   == Stripped(typed[i])
        all == Len(s.digits) + s.float
    IN all % Wei >= Len(s.digits) /\ s.digits # <<>> /\ all >= Wei

(* Two numbers that begin at the same limb: the longer is taken for the    *)
(* larger.                                                                 *)
Misordered ==
  LET x == Abs(Meaning(typed[1])) * Radix ^ typed[2].frac
      y == Abs(Meaning(typed[2])) * Radix ^ typed[1].frac
  IN fuhao <= 1 /\ (Num_compare_jueduizhi(a, b) > 0) # (x > y)

(* A dividend with more limbs than the computation needs: the lowest ones  *)
(* are divided, not the highest.                                           *)
DividendCut ==
  /\ fuhao = 3 /\ a.num # <<>> /\ b.num # <<>>
  /\ Len(a.num) > Len(b.num) + (baoliu - 1) \div Wei + (IF Flag(a, b) # 0 THEN 1 ELSE 2)

(* A divisor with zeros in front, or one whose limbs begin with 1, 0 and   *)
(* Base - 1: the guess may be too large by two.                            *)
GuessTooLarge ==
  LET n == Len(b.num)
  IN /\ fuhao = 3
     /\ \/ n >= 3 /\ b.num[n] = 0
        \/ n >= 4 /\ SubSeq(b.num, n - 2, n) = <<Base - 1, 0, 1>>

(* What kernel_main shows is the exact result, or the quotient cut off; it *)
(* crashes for a number that is zero only, or a divisor with zeros in      *)
(* front, and the message for a division by zero is never seen.            *)
AnswerRight ==
  /\ (cpc = "shown" /\ ~(SignLost \/ ZerosLost \/ Misordered \/ DividendCut \/ GuessTooLarge)) => Right(answer)
  /\ cpc = "undefined" =>
       a.num = <<>> \/ b.num = <<>> \/ result.num = <<>> \/ DividesByZero(b)
  /\ cpc # "error"
=============================================================================
