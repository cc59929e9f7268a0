------------------------------ MODULE Numbers -------------------------------
(***************************************************************************)
(* Integer and Float methods (dispatch_integer, dispatch_float, and the    *)
(* integer operators of eval_binop).  An Integer is a C int64_t, here the  *)
(* numbers of Width; a result is a sequence of one number, or the empty    *)
(* sequence when a step of the computation leaves the width, where C says  *)
(* nothing of the outcome.  A Float is a number of halves, which a double  *)
(* holds exactly.                                                          *)
(***************************************************************************)
EXTENDS Calls, Integers, FiniteSets, SequencesExt

CONSTANTS
    Top,       \* the largest Integer; the least is -Top - 1
    SomeInts       \* the Integers that the calls give

ASSUME WidthAssumption ==
    /\ Top \in Nat /\ \E k \in 2 .. 16 : Top + 1 = 2^k
    /\ SomeInts \subseteq -Top - 1 .. Top

Width == -Top - 1 .. Top
BitCount == CHOOSE k \in 1 .. Top + 2 : 2^k = 2 * (Top + 1)
Fit(x) == IF x \in Width THEN <<x>> ELSE <<>>

\* x, when the computation also forms the numbers of S.
Defined(S, x) == IF S \subseteq Width THEN Fit(x) ELSE <<>>

AbsOf(a) == IF a < 0 THEN -a ELSE a
Signs(a, b) == (a < 0) # (b < 0)   \* what the sign of a ^ b says

\* C's / and %, which round towards zero.
Quo(a, b) == LET q == AbsOf(a) \div AbsOf(b) IN IF Signs(a, b) THEN -q ELSE q
Rem(a, b) == a - b * Quo(a, b)

-----------------------------------------------------------------------------
(***************************************************************************)
(* Division.  A zero divisor has raised ZeroDivisionError.                 *)
(***************************************************************************)
Divided(a, b) ==
    LET r == Rem(a, b)
    IN  Defined({Quo(a, b)}, IF r # 0 /\ Signs(r, b) THEN Quo(a, b) - 1 ELSE Quo(a, b))

DivMethod(a, b) ==
    LET q == Quo(a, b)
    IN  Defined({q}, IF Signs(a, b) /\ q * b # a THEN q - 1 ELSE q)

\* The % of an expression; a % that is sent (a.send(:%, b)) is SentPercent.
Percent(a, b) ==
    LET r == Rem(a, b)
    IN  Defined({Quo(a, b)}, IF r # 0 /\ (r < 0) # (b < 0) THEN r + b ELSE r)
SentPercent(a, b) == Defined({Quo(a, b)}, Rem(a, b))
Modulo(a, b) ==
    LET r == Rem(a, b) IN Defined({Quo(a, b)}, IF r # 0 /\ Signs(r, b) THEN r + b ELSE r)
Remainder(a, b) == Defined({Quo(a, b)}, Rem(a, b))

DivMod(a, b) ==
    LET q == Quo(a, b)  r == Rem(a, b)
    IN  IF q \notin Width THEN <<>>
        ELSE IF r # 0 /\ Signs(r, b) THEN <<q - 1, r + b>> ELSE <<q, r>>

CeilDiv(a, b) ==
    LET r == Rem(a, b)
    IN  Defined({Quo(a, b)}, IF r # 0 /\ ~Signs(r, b) THEN Quo(a, b) + 1 ELSE Quo(a, b))

-----------------------------------------------------------------------------
(***************************************************************************)
(* Divisors, powers, digits and bits                                       *)
(***************************************************************************)
\* int_gcd: the loop that takes (a, b) to (b, a % b).
Euclid[a \in Nat, b \in Nat] == IF b = 0 THEN a ELSE Euclid[b, a % b]
Gcd(a, b) == Defined({AbsOf(a), AbsOf(b)}, Euclid[AbsOf(a), AbsOf(b)])
Lcm(a, b) ==
    LET g == Gcd(a, b)
    IN  IF g = <<>> THEN <<>>
        ELSE Fit(IF g = <<0>> THEN 0 ELSE (AbsOf(a) \div g[1]) * AbsOf(b))

\* pow(e): e multiplications, each of which may leave the width.
PowMethod(a, e) ==
    LET times[k \in 0 .. e] == IF k = 0 \/ times[k - 1] = <<>>
                               THEN IF k = 0 THEN <<1>> ELSE <<>>
                               ELSE Fit(times[k - 1][1] * a)
    IN  times[e]

\* pow(e, m): by repeated squaring; every product is formed before it is reduced.
PowMod(a, e, m) ==
    LET turn[k \in Nat, res \in Int, base \in Int] ==
            IF k = 0 THEN <<res>>
            ELSE LET p == res * base  sq == base * base
                 IN  IF sq \notin Width \/ (k % 2 = 1 /\ p \notin Width) THEN <<>>
                     ELSE turn[k \div 2, IF k % 2 = 1 THEN Rem(p, m) ELSE res, Rem(sq, m)]
    IN  turn[e, 1, Rem(Rem(a, m) + m, m)]

\* int_to_s_base, on the magnitude as an unsigned number; <<-1>> is the sign.
Magnitude[un \in Nat, base \in Nat] ==
    IF un = 0 THEN <<>> ELSE Append(Magnitude[un \div base, base], un % base)
ToBase(n, base) ==
    IF n = 0 THEN <<0>> ELSE (IF n < 0 THEN <<-1>> ELSE <<>>) \o Magnitude[AbsOf(n), base]

\* digits: least significant first; of a negative number, those of -n.
Digits(n, base) == IF AbsOf(n) \notin Width THEN <<>>
                   ELSE IF n = 0 THEN <<0>> ELSE Reverse(Magnitude[AbsOf(n), base])

\* n[i] and n[lo..hi], with arithmetic shifts by less than the width (of more, C
\* says nothing); the mask has at most BitCount - 2 ones.
Bit(n, i) == IF i < 0 THEN 0 ELSE (n \div 2^i) % 2
BitsFrom(n, lo, hi, exclusive) ==
    LET from == IF lo < 0 THEN 0 ELSE lo
        to == IF exclusive THEN hi - 1 ELSE hi
        len == IF to - from + 1 > BitCount - 2 THEN BitCount - 2 ELSE to - from + 1
    IN  IF to < from THEN 0 ELSE (n \div 2^from) % 2^len

BitLength(n) ==
    LET v == IF n < 0 THEN -n - 1 ELSE n
    IN  IF v = 0 THEN 0 ELSE CHOOSE k \in 1 .. BitCount : 2^(k - 1) <= v /\ v < 2^k

-----------------------------------------------------------------------------
(***************************************************************************)
(* Rounding                                                                *)
(***************************************************************************)
\* ceil, floor, round and truncate of an Integer to a multiple of 10^places.
RoundInt(how, n, places) ==
    LET factor == 10^places  q == Quo(n, factor)  r == Rem(n, factor)
        lo == (IF n > 0 THEN q ELSE q - 1) * factor
        mid == lo + factor \div 2
        up == (q + 1) * factor  down == (q - 1) * factor
    IN  CASE how = "ceil" -> IF r = 0 THEN Fit(n) ELSE IF n > 0 THEN Fit(up) ELSE Fit(q * factor)
          [] how = "floor" -> IF r = 0 THEN Fit(n) ELSE IF n > 0 THEN Fit(q * factor) ELSE Fit(down)
          [] how = "round" -> Defined({lo, lo + factor, mid}, IF n < mid THEN lo ELSE lo + factor)
          [] how = "truncate" -> Fit(q * factor)

\* The methods on the Float h/2, to `places` decimal digits
\* (negative: to tens): the number of units 10^-places.  half is round's option.
\* round() of C rounds a half away from zero.
Scaled(h, places) == IF places >= 0 THEN <<h * 10^places, 2>> ELSE <<h, 2 * 10^(-places)>>
FloatCut(how, h, places) ==
    LET num == Scaled(h, places)[1]  den == Scaled(h, places)[2]
    IN  IF how = "ceil" THEN -((-num) \div den) ELSE num \div den
FloatTruncate(h, places) == Quo(Scaled(h, places)[1], Scaled(h, places)[2])

FloatRound(h, places, half) ==
    LET num == Scaled(h, places)[1]  den == Scaled(h, places)[2]
        floored == num \div den
        isHalf == 2 * (num - floored * den) = den
        rounded == IF num >= 0 THEN (2 * num + den) \div (2 * den)
                   ELSE -((den - 2 * num) \div (2 * den))
    IN  IF isHalf /\ half = "down" THEN IF num >= 0 THEN floored ELSE floored + 1
        ELSE IF isHalf /\ half = "even"
             THEN IF Rem(floored, 2) = 0 THEN floored ELSE floored + 1
        ELSE rounded

RoundFloat(how, h, places, half) ==
    CASE how = "round" -> FloatRound(h, places, half)
      [] how = "truncate" -> FloatTruncate(h, places)
      [] OTHER -> FloatCut(how, h, places)

\* divmod of the Floats a/2 and b/2: the quotient, and the rest in halves.
FloatDivMod(a, b) == LET q == IF b > 0 THEN a \div b ELSE (-a) \div (-b) IN <<q, a - q * b>>

-----------------------------------------------------------------------------
(***************************************************************************)
(* Bounds and loops.  A bound may be nil.                                  *)
(***************************************************************************)
Clamp(n, lo, hi) ==
    LET low == IF lo = <<>> THEN -Top - 1 ELSE lo[1]
        high == IF hi = <<>> THEN Top ELSE hi[1]
    IN  IF n < low THEN low ELSE IF n > high THEN high ELSE n

\* clamp(lo...hi) and clamp(lo..hi).
ClampRange(n, lo, hi, exclusive) ==
    Clamp(n, lo, IF exclusive /\ hi # <<>> THEN <<hi[1] - 1>> ELSE hi)

\* The values that i takes from n on by steps, while it has not passed the limit.
Loop(n, limit, by) ==
    LET on[i \in Int] == IF by * (limit - i) < 0 THEN <<>> ELSE <<i>> \o on[i + by]
    IN  on[n]

\* upto the largest Integer and downto the least have no end: the counter leaves
\* the width.  step counts in a double, which does not.
TimesLoop(n) == <<Loop(0, n - 1, 1)>>
UptoLoop(n, limit) == IF limit = Top /\ n <= limit THEN <<>> ELSE <<Loop(n, limit, 1)>>
DowntoLoop(n, limit) == IF limit = -Top - 1 /\ n >= limit THEN <<>> ELSE <<Loop(n, limit, -1)>>
StepBy(n, limit, by) == <<Loop(n, limit, by)>>

\* step and clamp of a Float, all in halves; clamp(lo...hi) takes hi as allowed.
FloatStep(f, limit, by) == <<Loop(f, limit, by)>>
FloatClamp(f, lo, hi) ==
    IF lo # <<>> /\ f < lo[1] THEN lo[1] ELSE IF hi # <<>> /\ f > hi[1] THEN hi[1] ELSE f

-----------------------------------------------------------------------------
(***************************************************************************)
(* The calls                                                               *)
(***************************************************************************)
DivisionCall ==
    \E a, b \in SomeInts :
        /\ b # 0
        /\ Make([op |-> "division", a |-> a, b |-> b, floor |-> {Divided(a, b), DivMethod(a, b)},
                 mod |-> {Percent(a, b), Modulo(a, b)}, divmod |-> DivMod(a, b),
                 rem |-> {Remainder(a, b), SentPercent(a, b)}, ceil |-> CeilDiv(a, b),
                 float |-> FloatDivMod(a, b)])

NumberCall ==
    \E a \in SomeInts :
        \/ \E b \in SomeInts : Make([op |-> "gcd", a |-> a, b |-> b, gcd |-> Gcd(a, b), lcm |-> Lcm(a, b)])
        \/ \E e \in 0 .. 5 : Make([op |-> "pow", a |-> a, e |-> e, res |-> PowMethod(a, e)])
        \/ \E e \in 0 .. 5, m \in 2 .. 8 :
               Make([op |-> "powmod", a |-> a, e |-> e, m |-> m, res |-> PowMod(a, e, m)])
        \/ \E base \in {2, 3, 10} :
               Make([op |-> "digits", a |-> a, base |-> base, str |-> ToBase(a, base),
                     res |-> Digits(a, base)])
        \/ \E i, j \in -1 .. BitCount - 1, ex \in BOOLEAN :
               Make([op |-> "bits", a |-> a, i |-> i, j |-> j, ex |-> ex, bit |-> Bit(a, i),
                     res |-> BitsFrom(a, i, j, ex), len |-> BitLength(a)])

RoundCall ==
    \E a \in SomeInts, how \in {"ceil", "floor", "round", "truncate"} :
        \/ Make([op |-> "roundint", a |-> a, how |-> how, res |-> RoundInt(how, a, 1)])
        \/ \E places \in -1 .. 1, half \in {"up", "down", "even"} :
               Make([op |-> "roundfloat", a |-> a, how |-> how, places |-> places, half |-> half,
                     res |-> RoundFloat(how, a, places, half)])

LoopCall ==
    \E a, b \in SomeInts :
        \/ Make([op |-> "times", a |-> a, res |-> TimesLoop(a)])
        \/ Make([op |-> "int_upto", a |-> a, b |-> b, res |-> UptoLoop(a, b)])
        \/ Make([op |-> "downto", a |-> a, b |-> b, res |-> DowntoLoop(a, b)])
        \/ \E by \in {-7, -2, 3} :
               Make([op |-> "intstep", a |-> a, b |-> b, by |-> by,
                     res |-> StepBy(a, b, by), float |-> FloatStep(a, b, by)])
        \/ \E lo, hi \in {<<>>, <<b>>, <<b + 3>>}, ex \in BOOLEAN :
               Make([op |-> "clamp", a |-> a, lo |-> lo, hi |-> hi, ex |-> ex,
                     res |-> ClampRange(a, lo, hi, ex), both |-> {Clamp(a, lo, hi), FloatClamp(a, lo, hi)}])

IntegerCall == NoCall /\ (DivisionCall \/ NumberCall \/ RoundCall \/ LoopCall)

-----------------------------------------------------------------------------
(***************************************************************************)
(* What the calls return                                                   *)
(***************************************************************************)
NumberOp(op) == call.op = op

\* q is a/b rounded down, r what is left.
IsFloorDivision(a, b, q, r) ==
    a = q * b + r /\ IF b > 0 THEN 0 <= r /\ r < b ELSE b < r /\ r <= 0

DivisionRight ==
    LET a == call.a  b == call.b
    IN  /\ IsFloorDivision(a, b, call.float[1], call.float[2])
        /\ ~(a = -Top - 1 /\ b = -1) =>
               /\ Cardinality(call.floor) = 1 /\ Cardinality(call.mod) = 1
               /\ call.divmod = (CHOOSE s \in call.floor : TRUE) \o (CHOOSE s \in call.mod : TRUE)
               /\ IsFloorDivision(a, b, call.divmod[1], call.divmod[2])
               /\ call.ceil = <<IF call.divmod[2] = 0 THEN call.divmod[1] ELSE call.divmod[1] + 1>>
               /\ \E r \in Width :
                      /\ call.rem = {<<r>>}
                      /\ (a - r) % AbsOf(b) = 0 /\ AbsOf(r) < AbsOf(b)
                      /\ r # 0 => ~Signs(r, a)

Power(a, e) == IF e = 0 THEN 1 ELSE a^e

\* The number that digits, most significant first, stand for.
ReadBack(digits, base) == FoldLeft(LAMBDA n, d : n * base + d, 0, digits)

\* The bits i..j of n read as a number.
BitSlice(n, i, j) == IF j < i THEN 0 ELSE (n \div 2^i) % 2^(j - i + 1)

\* The units of 10^-places that a rounding of num/den may give.
Rounded(how, num, den, half) ==
    LET least == num \div den
        near == {least, least + 1}
        off(k) == AbsOf(k * den - num)
        exact == least * den = num
        tie == 2 * (num - least * den) = den
    IN  CHOOSE k \in near :
            CASE exact -> k = least
              [] how = "floor" -> k = least
              [] how = "ceil" -> k = least + 1
              [] how = "truncate" -> k = IF num < 0 THEN least + 1 ELSE least
              [] how = "round" /\ ~tie -> \A m \in near : off(k) <= off(m)
              [] how = "round" /\ half = "even" -> k % 2 = 0
              [] how = "round" /\ half = "down" -> \A m \in near : AbsOf(k) <= AbsOf(m)
              [] how = "round" /\ half = "up" -> \A m \in near : AbsOf(k) >= AbsOf(m)
              [] how = "round" /\ half = "plus" -> k = least + 1

\* Every result that fits in an Integer is exact, unless the code forms a larger
\* number on the way, in the cases named here: the division methods agree with
\* each other and with floored division, gcd and lcm with divisibility, digits
\* and to_s with reading back, bits with shifts, the four roundings with the
\* nearest multiple (an Integer's half goes up, a Float's where `half` says), the
\* loops and clamp with the interval.
NumbersAgree ==
    CASE NumberOp("division") -> DivisionRight
      [] NumberOp("gcd") /\ {call.a, call.b} \subseteq -Top .. Top ->
             LET g == call.gcd[1]
                 divisors == {d \in 1 .. Top : call.a % d = 0 /\ call.b % d = 0}
                 product == AbsOf(call.a * call.b)
             IN  IF call.a = 0 /\ call.b = 0 THEN g = 0 /\ call.lcm = <<0>>
                 ELSE /\ g \in divisors /\ \A d \in divisors : g % d = 0
                      /\ call.lcm = Fit(product \div g)
      [] NumberOp("pow") -> call.res = Fit(Power(call.a, call.e))
      [] NumberOp("powmod") /\ call.m * call.m <= Top -> call.res = <<Power(call.a, call.e) % call.m>>
      [] NumberOp("digits") ->
             /\ ReadBack(SelectSeq(call.str, LAMBDA d : d >= 0), call.base) = AbsOf(call.a)
             /\ (Head(call.str) = -1) = (call.a < 0)
             /\ call.a > -Top - 1 => ReadBack(Reverse(call.res), call.base) = AbsOf(call.a)
      [] NumberOp("bits") ->
             /\ call.bit = IF call.i < 0 THEN 0 ELSE BitSlice(call.a, call.i, call.i)
             /\ LET to == IF call.ex THEN call.j - 1 ELSE call.j
                    from == IF call.i < 0 THEN 0 ELSE call.i
                IN  to - from < BitCount - 2 => call.res = BitSlice(call.a, from, to)
             /\ call.a \in -(2^call.len) .. 2^call.len - 1
             /\ call.len > 0 => call.a \notin -(2^(call.len - 1)) .. 2^(call.len - 1) - 1
      [] NumberOp("roundint") /\ {call.a - 10, call.a + 10} \subseteq Width ->
             call.res = <<10 * Rounded(call.how, call.a, 10, "plus")>>
      [] NumberOp("roundfloat") ->
             LET s == Scaled(call.a, call.places) IN call.res = Rounded(call.how, s[1], s[2], call.half)
      [] NumberOp("times") -> call.res = <<[k \in 1 .. call.a |-> k - 1]>>
      [] NumberOp("int_upto") /\ (call.b < Top \/ call.a > call.b) ->
             call.res = <<[k \in 1 .. call.b - call.a + 1 |-> call.a + k - 1]>>
      [] NumberOp("downto") /\ (call.b > -Top - 1 \/ call.a < call.b) ->
             call.res = <<[k \in 1 .. call.a - call.b + 1 |-> call.a - k + 1]>>
      [] NumberOp("intstep") ->
             LET way == IF call.by > 0 THEN call.b - call.a ELSE call.a - call.b
             IN  /\ call.float = call.res
                 /\ call.res = <<[k \in 1 .. (IF way < 0 THEN 0 ELSE way \div AbsOf(call.by) + 1) |->
                                   call.a + (k - 1) * call.by]>>
      [] NumberOp("clamp") ->
             LET in(x, ex) == /\ call.lo = <<>> \/ call.lo[1] <= x
                              /\ call.hi = <<>> \/ x < call.hi[1] \/ (x = call.hi[1] /\ ~ex)
                 right(x, ex) == IF in(call.a, ex) THEN x = call.a
                                 ELSE /\ in(x, ex)
                                      /\ ~ \E y \in {x - 1, x + 1} :
                                              in(y, ex) /\ AbsOf(y - call.a) < AbsOf(x - call.a)
                 some(ex) == \E x \in -Top - 5 .. Top + 5 : in(x, ex)
             IN  /\ some(FALSE) => \A x \in call.both : right(x, FALSE)
                 /\ some(call.ex) => right(call.res, call.ex)
      [] OTHER -> TRUE
=============================================================================
