---------------------------- MODULE ReedSolomon ----------------------------
(***************************************************************************)
(* spectracuda.fec.reed_solomon: a systematic Reed-Solomon code over       *)
(* GF(2^ByteBits), shortened by leading zero symbols that are never sent.  *)
(* The program's code is RS(255, 223) over GF(256); here the field and the *)
(* number of parity symbols are parameters.  Polynomials are sequences of  *)
(* coefficients.                                                           *)
(***************************************************************************)
EXTENDS Bits

CONSTANTS GfPoly,       \* the primitive polynomial of the field
          NRoots        \* parity symbols; NRoots \div 2 errors can be corrected

RsN == 2 ^ ByteBits - 1
RsK == RsN - NRoots

ASSUME ReedSolomonAssumption == NRoots \in 1 .. RsN - 1 /\ ByteBits \in GfPoly

\* Powers of the generator of the field, and the exponent of each symbol.
GfExp ==
    LET Double(a) == IF ByteBits - 1 \in a THEN Xor(ShiftLeft(a, 1), GfPoly)
                                           ELSE ShiftLeft(a, 1)
        power[i \in 1 .. 2 * RsN] == IF i = 1 THEN {0} ELSE Double(power[i - 1])
    IN  Table(power)

GfLog == Table([a \in Byte \ {{}} |-> CHOOSE i \in 0 .. RsN - 1 : GfExp[i + 1] = a])

GfMul(a, b) == IF a = {} \/ b = {} THEN {} ELSE GfExp[GfLog[a] + GfLog[b] + 1]

GfInv(a) == GfExp[RsN - GfLog[a] + 1]

GfPow(a, n) == IF a = {} THEN {} ELSE GfExp[1 + ((GfLog[a] * (n % RsN)) % RsN)]

\* The i-th root of the generator polynomial, from 0 (_FCR = _PRIM = 1).
Root(i) == GfPow({1}, 1 + i)

\* prod (x - Root(i)), highest degree first.
Generator ==
    LET Times(g, root) ==
            Table([j \in 1 .. Len(g) + 1 |->
                    Xor(IF j <= Len(g) THEN g[j] ELSE {},
                        IF j > 1 THEN GfMul(g[j - 1], root) ELSE {})])
        product[i \in 0 .. NRoots] == IF i = 0 THEN << {0} >> ELSE Times(product[i - 1], Root(i - 1))
    IN  product[NRoots]

ZeroSymbols(n) == [i \in 1 .. n |-> {}]

\* The shift register of the division by Generator.
RsParity(fullMsg) ==
    LET Step(parity, m) ==
            LET feedback == Xor(m, parity[1])
            IN  Table([i \in 1 .. NRoots |->
                        Xor(IF i < NRoots THEN parity[i + 1] ELSE {},
                            GfMul(feedback, Generator[i + 1]))])
    IN  FoldLeft(Step, ZeroSymbols(NRoots), fullMsg)

RsEncode(msg) ==
    IF Len(msg) \notin 1 .. RsK THEN Raises
    ELSE Returns(msg \o RsParity(ZeroSymbols(RsK - Len(msg)) \o msg))

-----------------------------------------------------------------------------
\* The value of the codeword at each root, by Horner's rule.
Syndromes(codeword) ==
    Table([i \in 1 .. NRoots |->
        FoldLeft(LAMBDA acc, c : Xor(GfMul(acc, Root(i - 1)), c), {}, codeword)])

\* C, B: locator polynomials, lowest degree first; L its degree; m, b as in the
\* textbook.  One step of the iteration per syndrome.
BerlekampMassey(synd) ==
    LET one == << {0} >> \o ZeroSymbols(NRoots)
        Step(st, n) ==
            LET delta == FoldLeft(LAMBDA d, i : Xor(d, GfMul(st.C[i + 1], synd[n - i])),
                                  synd[n], [i \in 1 .. st.L |-> i])
                coef == GfMul(delta, GfInv(st.b))
                C2 == Table([i \in DOMAIN st.C |->
                        IF i > st.m THEN Xor(st.C[i], GfMul(coef, st.B[i - st.m])) ELSE st.C[i]])
            IN  CASE delta = {} -> [st EXCEPT !.m = @ + 1]
                  [] delta /= {} /\ 2 * st.L <= n - 1 ->
                        [C |-> C2, B |-> st.C, L |-> n - st.L, m |-> 1, b |-> delta]
                  [] OTHER -> [st EXCEPT !.C = C2, !.m = @ + 1]
        final == FoldLeft(Step, [C |-> one, B |-> one, L |-> 0, m |-> 1, b |-> {0}],
                          [n \in 1 .. NRoots |-> n])
    IN  [lambda |-> SubSeq(final.C, 1, final.L + 1), degree |-> final.L]

\* The exponents j at which the locator vanishes; the symbol in error is the
\* (RsN - j)-th of the codeword, and its locator number is alpha^j.
ChienSearch(lambda) ==
    SelectSeq([j \in 1 .. RsN |-> j - 1],
              LAMBDA j : FoldLeftDomain(LAMBDA v, deg :
                              Xor(v, GfMul(lambda[deg], GfPow(GfPow({1}, -j), deg - 1))),
                          {}, lambda) = {})

\* Gauss-Jordan elimination of the first syndromes over the powers of the
\* locators; raises when a column has no pivot.
ErrorMagnitudes(synd, found) ==
    LET size == Len(found)
        rows == [i \in 1 .. size |->
                    [l \in 1 .. size |-> GfPow(GfPow({1}, found[l]), i)] \o << synd[i] >>]
        Eliminate(A, col) ==
            IF A = <<>> \/ \A r \in col .. size : A[r][col] = {} THEN <<>>
            ELSE LET pivot == CHOOSE r \in col .. size :
                                /\ A[r][col] /= {}
                                /\ \A r2 \in col .. r - 1 : A[r2][col] = {}
                     swapped == [A EXCEPT ![col] = A[pivot], ![pivot] = A[col]]
                     unit == [c \in 1 .. size + 1 |->
                                GfMul(swapped[col][c], GfInv(swapped[col][col]))]
                 IN  Table([r \in 1 .. size |->
                        IF r = col THEN unit
                        ELSE [c \in 1 .. size + 1 |->
                                Xor(swapped[r][c], GfMul(swapped[r][col], unit[c]))]])
        solved == FoldLeft(Eliminate, rows, [col \in 1 .. size |-> col])
    IN  IF solved = <<>> THEN Raises
        ELSE Returns([i \in 1 .. size |-> solved[i][size + 1]])

\* The first RsK symbols with each error taken off, unless solving raised.
Patched(codeword, found, magnitudes) ==
    LET Error(p) == LET hits == {l \in DOMAIN found : p = RsN - found[l]}
                    IN  IF hits = {} THEN {} ELSE magnitudes.val[CHOOSE l \in hits : TRUE]
    IN  IF ~magnitudes.ok THEN Raises
        ELSE Returns([p \in 1 .. RsK |-> Xor(codeword[p], Error(p))])

\* Raises unless the locator has as many roots as its degree.
Corrected(codeword, synd, degree, found) ==
    IF Len(found) /= degree THEN Raises
    ELSE Patched(codeword, found, ErrorMagnitudes(synd, found))

Located(codeword, synd, locator) ==
    Corrected(codeword, synd, locator.degree, ChienSearch(locator.lambda))

Repair(codeword, synd) ==
    IF \A i \in DOMAIN synd : synd[i] = {} THEN Returns(SubSeq(codeword, 1, RsK))
    ELSE Located(codeword, synd, BerlekampMassey(synd))

\* A full-length codeword to its first RsK symbols.
RsDecodeFull(codeword) == Repair(codeword, Syndromes(codeword))

Shortened(decoded, realK) ==
    IF decoded.ok THEN Returns(SubSeq(decoded.val, RsK - realK + 1, RsK)) ELSE Raises

\* The length of the codeword tells how many zero symbols were left out.
RsDecode(codeword) ==
    LET realK == Len(codeword) - NRoots
    IN  IF realK \notin 1 .. RsK THEN Raises
        ELSE Shortened(RsDecodeFull(ZeroSymbols(RsK - realK) \o codeword), realK)
=============================================================================
