---------------------------- MODULE DriverProofs ----------------------------
(***************************************************************************)
(* Theorems about Driver and the modules it is made of, Decoder,           *)
(* Disassembler and Loader, for every word, file and way through main; and *)
(* about Tunables, what a command line makes of the components of a run,   *)
(* for every list of arguments and every width of the numbers.             *)
(***************************************************************************)
EXTENDS Driver, Tunables, MemoryProofs, SequenceTheorems

-----------------------------------------------------------------------------
(* The immediates of Decoder.  TLC decodes the words of a sample; a word   *)
(* has 2^32 values.  A bit of an immediate goes through the shifts, masks  *)
(* and ORs of its format, so each format is shown bit by bit from what     *)
(* every one of those operators does to a bit.                             *)


\* What the shifts, the mask and the OR do to one bit.
LEMMA BitOfShr ==
    ASSUME NEW w \in Word, NEW n \in Bits, NEW i \in Bits
    PROVE  Shr(w, n) \in Word /\ Shr(w, n)[i] = IF i + n <= 31 THEN w[i + n] ELSE 0
  BY DEF Shr, Word, Bits

LEMMA BitOfSar ==
    ASSUME NEW w \in Word, NEW n \in Bits, NEW i \in Bits
    PROVE  Sar(w, n) \in Word /\ Sar(w, n)[i] = IF i + n <= 31 THEN w[i + n] ELSE w[31]
  BY DEF Sar, Word, Bits

LEMMA BitOfShl ==
    ASSUME NEW w \in Word, NEW n \in Bits, NEW i \in Bits
    PROVE  Shl(w, n) \in Word /\ Shl(w, n)[i] = IF n <= i THEN w[i - n] ELSE 0
  BY DEF Shl, Word, Bits

LEMMA BitOfMasked ==
    ASSUME NEW w \in Word, NEW ones, NEW i \in Bits
    PROVE  Masked(w, ones) \in Word /\ Masked(w, ones)[i] = IF i \in ones THEN w[i] ELSE 0
  BY DEF Masked, Word, Bits

LEMMA BitOfOr ==
    ASSUME NEW v \in Word, NEW w \in Word, NEW i \in Bits
    PROVE  Or(v, w) \in Word /\ Or(v, w)[i] = IF v[i] = 1 THEN 1 ELSE w[i]
  BY DEF Or, Word, Bits

\* What bit i of a group of bits repeats: the group is shifted into place on the
\* right, masked, and shifted back to the left.
GroupBit(w, m, ones, n, i) ==
    IF n <= i /\ i - n \in ones /\ i - n + m <= 31 THEN w[i - n + m] ELSE 0

LEMMA BitOfGroup ==
    ASSUME NEW w \in Word, NEW m \in Bits, NEW n \in Bits, NEW ones \in SUBSET Bits, NEW i \in Bits
    PROVE  /\ Shl(Masked(Shr(w, m), ones), n) \in Word
           /\ Shl(Masked(Shr(w, m), ones), n)[i] = GroupBit(w, m, ones, n, i)
<1> DEFINE r == Shr(w, m)
           k == Masked(r, ones)
<1>1. r \in Word /\ \A j \in Bits : r[j] = IF j + m <= 31 THEN w[j + m] ELSE 0
  BY BitOfShr DEF Bits
<1>2. k \in Word /\ \A j \in Bits : k[j] = IF j \in ones THEN r[j] ELSE 0
  <2> HIDE DEF r
  <2>1. 0 \in Bits
    BY DEF Bits
  <2>2. \A j \in Bits : Masked(r, ones) \in Word /\ Masked(r, ones)[j] = IF j \in ones THEN r[j] ELSE 0
    BY <1>1, BitOfMasked
  <2> QED BY <2>1, <2>2
<1>3. Shl(k, n) \in Word /\ Shl(k, n)[i] = IF n <= i THEN k[i - n] ELSE 0
  BY <1>2, BitOfShl
<1>4. n <= i => i - n \in Bits
  BY DEF Bits
<1> QED BY <1>1, <1>2, <1>3, <1>4 DEF GroupBit

\* The upper group: the sign and the bits below it, masked.
LEMMA BitOfSignGroup ==
    ASSUME NEW w \in Word, NEW m \in Bits, NEW ones \in SUBSET Bits, NEW i \in Bits
    PROVE  /\ Masked(Sar(w, m), ones) \in Word
           /\ Masked(Sar(w, m), ones)[i] =
                 IF i \in ones THEN (IF i + m <= 31 THEN w[i + m] ELSE w[31]) ELSE 0
<1>1. Sar(w, m) \in Word /\ Sar(w, m)[i] = IF i + m <= 31 THEN w[i + m] ELSE w[31]
  BY BitOfSar
<1> QED BY <1>1, BitOfMasked

-----------------------------------------------------------------------------
(* The formats.                                                            *)

LEMMA EncodedBit ==
    ASSUME NEW w \in Word, NEW format, NEW i \in Bits
    PROVE  Encoded(w, format)[i] =
              IF SourceBit(format, i) = Nowhere THEN 0 ELSE w[SourceBit(format, i)]
  BY DEF Encoded

\* Two words are equal if they agree on every bit.
LEMMA SameBits ==
    ASSUME NEW v, NEW w, v = [i \in Bits |-> v[i]], w = [i \in Bits |-> w[i]],
           \A i \in Bits : v[i] = w[i]
    PROVE  v = w
  OBVIOUS

LEMMA EncodedIsAFunction ==
    ASSUME NEW w, NEW format
    PROVE  Encoded(w, format) = [i \in Bits |-> Encoded(w, format)[i]]
  BY DEF Encoded

LEMMA FormatI ==
    ASSUME NEW w \in Word
    PROVE  decode_i_imm(w) = Encoded(w, "I")
<1>1. decode_i_imm(w) \in Word
  BY BitOfSar DEF decode_i_imm, Bits
<1>2. ASSUME NEW i \in Bits PROVE decode_i_imm(w)[i] = Encoded(w, "I")[i]
  <2>1. decode_i_imm(w)[i] = IF i + 20 <= 31 THEN w[i + 20] ELSE w[31]
    BY BitOfSar DEF decode_i_imm, Bits
  <2>2. SourceBit("I", i) = IF i <= 10 THEN i + 20 ELSE 31
    BY DEF SourceBit
  <2> QED BY <2>1, <2>2, EncodedBit DEF Nowhere, Bits
<1> QED BY <1>1, <1>2, SameBits, EncodedIsAFunction DEF Word

LEMMA FormatS ==
    ASSUME NEW w \in Word
    PROVE  decode_s_imm(w) = Encoded(w, "S")
<1> DEFINE high == Masked(Sar(w, 20), 5 .. 31)
           low == Masked(Shr(w, 7), 0 .. 4)
<1>1. high \in Word /\ \A i \in Bits :
          high[i] = IF i \in 5 .. 31 THEN (IF i + 20 <= 31 THEN w[i + 20] ELSE w[31]) ELSE 0
  <2>1. 0 \in Bits /\ 20 \in Bits /\ 5 .. 31 \in SUBSET Bits
    BY DEF Bits
  <2> QED BY <2>1, BitOfSignGroup
<1>2. low \in Word /\ \A i \in Bits :
          low[i] = IF i \in 0 .. 4 THEN (IF i + 7 <= 31 THEN w[i + 7] ELSE 0) ELSE 0
  <2>1. 0 \in Bits /\ 7 \in Bits
    BY DEF Bits
  <2>2. Shr(w, 7) \in Word /\ \A i \in Bits : Shr(w, 7)[i] = IF i + 7 <= 31 THEN w[i + 7] ELSE 0
    BY <2>1, BitOfShr
  <2> QED BY <2>1, <2>2, BitOfMasked
<1>3. decode_s_imm(w) \in Word
  BY <1>1, <1>2, BitOfOr DEF decode_s_imm, Bits
<1>4. ASSUME NEW i \in Bits PROVE decode_s_imm(w)[i] = Encoded(w, "S")[i]
  <2>1. decode_s_imm(w)[i] = IF high[i] = 1 THEN 1 ELSE low[i]
    BY <1>1, <1>2, BitOfOr DEF decode_s_imm
  <2>2. SourceBit("S", i) = IF i <= 4 THEN i + 7 ELSE IF i <= 10 THEN i + 20 ELSE 31
    BY DEF SourceBit
  <2>3. high[i] \in {0, 1} /\ low[i] \in {0, 1}
    BY <1>1, <1>2 DEF Word
  <2> QED BY <1>1, <1>2, <2>1, <2>2, <2>3, EncodedBit DEF Nowhere, Bits
<1> QED BY <1>3, <1>4, SameBits, EncodedIsAFunction DEF Word

LEMMA FormatU ==
    ASSUME NEW w \in Word
    PROVE  decode_u_imm(w) = Encoded(w, "U")
<1>1. decode_u_imm(w) \in Word
  BY BitOfMasked DEF decode_u_imm, Bits
<1>2. ASSUME NEW i \in Bits PROVE decode_u_imm(w)[i] = Encoded(w, "U")[i]
  <2>1. decode_u_imm(w)[i] = IF i \in 12 .. 31 THEN w[i] ELSE 0
    BY BitOfMasked DEF decode_u_imm
  <2>2. SourceBit("U", i) = IF i <= 11 THEN Nowhere ELSE i
    BY DEF SourceBit
  <2> QED BY <2>1, <2>2, EncodedBit DEF Nowhere, Bits
<1> QED BY <1>1, <1>2, SameBits, EncodedIsAFunction DEF Word

LEMMA FormatB ==
    ASSUME NEW w \in Word
    PROVE  decode_b_imm(w) = Encoded(w, "B")
<1> DEFINE sign == Masked(Sar(w, 19), 12 .. 31)
           bit11 == Shl(Masked(Shr(w, 7), {0}), 11)
           high == Shl(Masked(Shr(w, 25), 0 .. 5), 5)
           low == Shl(Masked(Shr(w, 8), 0 .. 3), 1)
<1>1. 0 \in Bits /\ 19 \in Bits /\ 12 .. 31 \in SUBSET Bits
  BY DEF Bits
<1>2. sign \in Word /\ \A i \in Bits : sign[i] = IF i \in 12 .. 31 THEN w[31] ELSE 0
  BY <1>1, BitOfSignGroup DEF Bits
<1>3. bit11 \in Word /\ \A i \in Bits : bit11[i] = IF i = 11 THEN w[7] ELSE 0
  <2>1. 7 \in Bits /\ 11 \in Bits /\ {0} \in SUBSET Bits
    BY DEF Bits
  <2>2. \A i \in Bits :
            /\ Shl(Masked(Shr(w, 7), {0}), 11) \in Word
            /\ Shl(Masked(Shr(w, 7), {0}), 11)[i] = GroupBit(w, 7, {0}, 11, i)
    BY <2>1, BitOfGroup
  <2> QED BY <2>2 DEF GroupBit, Bits
<1>4. high \in Word /\ \A i \in Bits : high[i] = IF i \in 5 .. 10 THEN w[i + 20] ELSE 0
  <2>1. 25 \in Bits /\ 5 \in Bits /\ 0 .. 5 \in SUBSET Bits
    BY DEF Bits
  <2>2. \A i \in Bits :
            /\ Shl(Masked(Shr(w, 25), 0 .. 5), 5) \in Word
            /\ Shl(Masked(Shr(w, 25), 0 .. 5), 5)[i] = GroupBit(w, 25, 0 .. 5, 5, i)
    BY <2>1, BitOfGroup
  <2> QED BY <2>2 DEF GroupBit, Bits
<1>5. low \in Word /\ \A i \in Bits : low[i] = IF i \in 1 .. 4 THEN w[i + 7] ELSE 0
  <2>1. 8 \in Bits /\ 1 \in Bits /\ 0 .. 3 \in SUBSET Bits
    BY DEF Bits
  <2>2. \A i \in Bits :
            /\ Shl(Masked(Shr(w, 8), 0 .. 3), 1) \in Word
            /\ Shl(Masked(Shr(w, 8), 0 .. 3), 1)[i] = GroupBit(w, 8, 0 .. 3, 1, i)
    BY <2>1, BitOfGroup
  <2> QED BY <2>2 DEF GroupBit, Bits
<1> HIDE DEF sign, bit11, high, low
<1>6. decode_b_imm(w) = Or(Or(sign, bit11), Or(high, low))
  BY DEF decode_b_imm, sign, bit11, high, low
<1>7. /\ Or(sign, bit11) \in Word /\ Or(high, low) \in Word
      /\ \A i \in Bits : /\ Or(sign, bit11)[i] = IF sign[i] = 1 THEN 1 ELSE bit11[i]
                         /\ Or(high, low)[i] = IF high[i] = 1 THEN 1 ELSE low[i]
  BY <1>1, <1>2, <1>3, <1>4, <1>5, BitOfOr
<1>8. decode_b_imm(w) \in Word
  BY <1>1, <1>6, <1>7, BitOfOr
<1>9. ASSUME NEW i \in Bits PROVE decode_b_imm(w)[i] = Encoded(w, "B")[i]
  <2>1. decode_b_imm(w)[i] = IF Or(sign, bit11)[i] = 1 THEN 1 ELSE Or(high, low)[i]
    BY <1>6, <1>7, BitOfOr
  <2>2. SourceBit("B", i) = IF i = 0 THEN Nowhere ELSE IF i <= 4 THEN i + 7
                            ELSE IF i <= 10 THEN i + 20 ELSE IF i = 11 THEN 7 ELSE 31
    BY DEF SourceBit
  <2>3. \A j \in Bits : w[j] \in {0, 1}
    BY DEF Word
  <2> QED BY <1>2, <1>3, <1>4, <1>5, <1>7, <2>1, <2>2, <2>3, EncodedBit DEF Nowhere, Bits
<1> QED BY <1>8, <1>9, SameBits, EncodedIsAFunction DEF Word

LEMMA FormatJ ==
    ASSUME NEW w \in Word
    PROVE  decode_j_imm(w) = Encoded(w, "J")
<1> DEFINE sign == Masked(Sar(w, 11), 20 .. 31)
           middle == Shl(Masked(Shr(w, 12), 0 .. 7), 12)
           bit11 == Shl(Masked(Shr(w, 20), {0}), 11)
           low == Shl(Masked(Shr(w, 21), 0 .. 9), 1)
<1>1. 0 \in Bits /\ 11 \in Bits /\ 20 .. 31 \in SUBSET Bits
  BY DEF Bits
<1>2. sign \in Word /\ \A i \in Bits : sign[i] = IF i \in 20 .. 31 THEN w[31] ELSE 0
  BY <1>1, BitOfSignGroup DEF Bits
<1>3. middle \in Word /\ \A i \in Bits : middle[i] = IF i \in 12 .. 19 THEN w[i] ELSE 0
  <2>1. 12 \in Bits /\ 12 \in Bits /\ 0 .. 7 \in SUBSET Bits
    BY DEF Bits
  <2>2. \A i \in Bits :
            /\ Shl(Masked(Shr(w, 12), 0 .. 7), 12) \in Word
            /\ Shl(Masked(Shr(w, 12), 0 .. 7), 12)[i] = GroupBit(w, 12, 0 .. 7, 12, i)
    BY <2>1, BitOfGroup
  <2> QED BY <2>2 DEF GroupBit, Bits
<1>4. bit11 \in Word /\ \A i \in Bits : bit11[i] = IF i = 11 THEN w[20] ELSE 0
  <2>1. 20 \in Bits /\ 11 \in Bits /\ {0} \in SUBSET Bits
    BY DEF Bits
  <2>2. \A i \in Bits :
            /\ Shl(Masked(Shr(w, 20), {0}), 11) \in Word
            /\ Shl(Masked(Shr(w, 20), {0}), 11)[i] = GroupBit(w, 20, {0}, 11, i)
    BY <2>1, BitOfGroup
  <2> QED BY <2>2 DEF GroupBit, Bits
<1>5. low \in Word /\ \A i \in Bits : low[i] = IF i \in 1 .. 10 THEN w[i + 20] ELSE 0
  <2>1. 21 \in Bits /\ 1 \in Bits /\ 0 .. 9 \in SUBSET Bits
    BY DEF Bits
  <2>2. \A i \in Bits :
            /\ Shl(Masked(Shr(w, 21), 0 .. 9), 1) \in Word
            /\ Shl(Masked(Shr(w, 21), 0 .. 9), 1)[i] = GroupBit(w, 21, 0 .. 9, 1, i)
    BY <2>1, BitOfGroup
  <2> QED BY <2>2 DEF GroupBit, Bits
<1> HIDE DEF sign, middle, bit11, low
<1>6. decode_j_imm(w) = Or(Or(sign, middle), Or(bit11, low))
  BY DEF decode_j_imm, sign, middle, bit11, low
<1>7. /\ Or(sign, middle) \in Word /\ Or(bit11, low) \in Word
      /\ \A i \in Bits : /\ Or(sign, middle)[i] = IF sign[i] = 1 THEN 1 ELSE middle[i]
                         /\ Or(bit11, low)[i] = IF bit11[i] = 1 THEN 1 ELSE low[i]
  BY <1>1, <1>2, <1>3, <1>4, <1>5, BitOfOr
<1>8. decode_j_imm(w) \in Word
  BY <1>1, <1>6, <1>7, BitOfOr
<1>9. ASSUME NEW i \in Bits PROVE decode_j_imm(w)[i] = Encoded(w, "J")[i]
  <2>1. decode_j_imm(w)[i] = IF Or(sign, middle)[i] = 1 THEN 1 ELSE Or(bit11, low)[i]
    BY <1>6, <1>7, BitOfOr
  <2>2. SourceBit("J", i) = IF i = 0 THEN Nowhere ELSE IF i <= 10 THEN i + 20
                            ELSE IF i = 11 THEN 20 ELSE IF i <= 19 THEN i ELSE 31
    BY DEF SourceBit
  <2>3. \A j \in Bits : w[j] \in {0, 1}
    BY DEF Word
  <2> QED BY <1>2, <1>3, <1>4, <1>5, <1>7, <2>1, <2>2, <2>3, EncodedBit DEF Nowhere, Bits
<1> QED BY <1>8, <1>9, SameBits, EncodedIsAFunction DEF Word

\* No format: the immediate is zero, and no bit of the word goes into it.
LEMMA NoFormat ==
    ASSUME NEW w \in Word, NEW format, format \notin {"I", "S", "B", "U", "J"}
    PROVE  Zero = Encoded(w, format)
  BY DEF Zero, Encoded, SourceBit, Nowhere

-----------------------------------------------------------------------------
\* ImmediatesDecoded: for every one of the 2^32 words the immediate of the
\* decoded instruction has, bit for bit, what the instruction set puts there for
\* the format of the opcode (decoder.cpp:17-41, 86-122).
THEOREM ImmediatesDecoded ==
    \A inst \in Word :
        LET d == decode_raw_inst(inst)
        IN  d.imm = Encoded(d.raw, classify_opcode(d.opcode))
<1> SUFFICES ASSUME NEW inst \in Word
             PROVE  LET d == decode_raw_inst(inst)
                    IN  d.imm = Encoded(d.raw, classify_opcode(d.opcode))
  OBVIOUS
<1> DEFINE format == classify_opcode(Field(inst, 0, 6))
<1>1. /\ decode_raw_inst(inst).imm = Immediate(inst, format)
      /\ decode_raw_inst(inst).raw = inst
      /\ classify_opcode(decode_raw_inst(inst).opcode) = format
  BY DEF decode_raw_inst
<1> HIDE DEF format
<1>2. Immediate(inst, format) = Encoded(inst, format)
  <2>1. CASE format = "I"
    BY <2>1, FormatI DEF Immediate
  <2>2. CASE format = "S"
    BY <2>2, FormatS DEF Immediate
  <2>3. CASE format = "B"
    BY <2>3, FormatB DEF Immediate
  <2>4. CASE format = "U"
    BY <2>4, FormatU DEF Immediate
  <2>5. CASE format = "J"
    BY <2>5, FormatJ DEF Immediate
  <2>6. CASE format \notin {"I", "S", "B", "U", "J"}
    BY <2>6, NoFormat DEF Immediate
  <2> QED BY <2>1, <2>2, <2>3, <2>4, <2>5, <2>6
<1> QED BY <1>1, <1>2

-----------------------------------------------------------------------------
(* The text of an instruction and its execution (Disassembler), for every  *)
(* word.  Only the range of funct3 matters of the fields, and of the       *)
(* immediate that shifting the upper 20 bits away and back loses nothing.  *)

\* A function that satisfies the equation of Field is the one Field takes.
LEMMA FieldOfThree ==
    ASSUME NEW w \in Word, NEW low \in Int, low \in Bits, low + 2 \in Bits
    PROVE  Field(w, low, low + 2) = w[low] + 2 * (w[low + 1] + 2 * w[low + 2])
<1> DEFINE IsValue(f) == f = [i \in low .. (low + 2) + 1 |->
                               IF i > low + 2 THEN 0 ELSE w[i] + 2 * f[i + 1]]
           value == CHOOSE f : IsValue(f)
           g == [i \in low .. low + 3 |->
                    IF i = low THEN w[low] + 2 * (w[low + 1] + 2 * w[low + 2])
                    ELSE IF i = low + 1 THEN w[low + 1] + 2 * w[low + 2]
                    ELSE IF i = low + 2 THEN w[low + 2] ELSE 0]
<1>1. low + 1 \in Bits /\ \A i \in Bits : w[i] \in {0, 1}
  BY DEF Bits, Word
<1>2. IsValue(g)
  <2>1. ASSUME NEW i \in low .. low + 3
        PROVE  g[i] = IF i > low + 2 THEN 0 ELSE w[i] + 2 * g[i + 1]
    <3>1. i = low \/ i = low + 1 \/ i = low + 2 \/ i = low + 3
      BY <2>1
    <3> QED BY <1>1, <3>1
  <2>2. low .. low + 3 = low .. (low + 2) + 1
    OBVIOUS
  <2> QED BY <2>1, <2>2
<1>3. IsValue(value)
  <2> HIDE DEF g, IsValue
  <2> QED BY <1>2
<1>4. Field(w, low, low + 2) = value[low]
  BY DEF Field
<1> HIDE DEF value
<1>5. /\ value[low + 3] = 0
      /\ value[low + 2] = w[low + 2] + 2 * value[low + 3]
      /\ value[low + 1] = w[low + 1] + 2 * value[low + 2]
      /\ value[low] = w[low] + 2 * value[low + 1]
  BY <1>3
<1> HIDE DEF IsValue
<1> QED BY <1>1, <1>4, <1>5

LEMMA Funct3Type ==
    ASSUME NEW inst \in Word
    PROVE  decode_raw_inst(inst).funct3 \in 0 .. 7
<1>1. /\ 12 \in Bits /\ 13 \in Bits /\ 14 \in Bits
      /\ inst[12] \in {0, 1} /\ inst[13] \in {0, 1} /\ inst[14] \in {0, 1}
  BY DEF Bits, Word
<1>2. Field(inst, 12, 12 + 2) = inst[12] + 2 * (inst[12 + 1] + 2 * inst[12 + 2])
  BY <1>1, FieldOfThree
<1>3. decode_raw_inst(inst).funct3 = Field(inst, 12, 14)
  BY DEF decode_raw_inst
<1> QED BY <1>1, <1>2, <1>3

LEMMA ImmediateType ==
    ASSUME NEW inst \in Word
    PROVE  decode_raw_inst(inst).imm \in Word
<1> DEFINE d == decode_raw_inst(inst)
<1>1. d.imm = Encoded(inst, classify_opcode(d.opcode))
  BY ImmediatesDecoded DEF decode_raw_inst
<1>2. \A format : Encoded(inst, format) \in Word
  <2> SUFFICES ASSUME NEW format PROVE Encoded(inst, format) \in Word
    OBVIOUS
  <2>1. ASSUME NEW i \in Bits
        PROVE  SourceBit(format, i) = Nowhere \/ SourceBit(format, i) \in Bits
    <3>1. CASE format = "I"
      BY <3>1 DEF SourceBit, Bits
    <3>2. CASE format = "S"
      BY <3>2 DEF SourceBit, Bits
    <3>3. CASE format = "B"
      BY <3>3 DEF SourceBit, Bits
    <3>4. CASE format = "U"
      BY <3>4 DEF SourceBit, Bits
    <3>5. CASE format = "J"
      BY <3>5 DEF SourceBit, Bits
    <3>6. CASE format \notin {"I", "S", "B", "U", "J"}
      BY <3>6 DEF SourceBit
    <3> QED BY <3>1, <3>2, <3>3, <3>4, <3>5, <3>6
  <2>2. \A i \in Bits : inst[i] \in {0, 1}
    BY DEF Word
  <2>3. \A i \in Bits : Encoded(inst, format)[i] \in {0, 1}
    BY <2>1, <2>2 DEF Encoded
  <2> QED BY <2>3, EncodedIsAFunction DEF Word
<1> QED BY <1>1, <1>2

\* The upper 20 bits of an immediate of format U: what is below is zero.
LEMMA UpperBitsRestored ==
    ASSUME NEW inst \in Word
    PROVE  Shl(Shr(decode_u_imm(inst), 12), 12) = decode_u_imm(inst)
<1> DEFINE imm == decode_u_imm(inst)
<1>1. /\ imm \in Word
      /\ \A i \in Bits : imm[i] = IF i \in 12 .. 31 THEN inst[i] ELSE 0
  BY BitOfMasked DEF decode_u_imm, Bits
<1> HIDE DEF imm
<1>2. Shr(imm, 12) \in Word /\ \A i \in Bits : Shr(imm, 12)[i] = IF i + 12 <= 31 THEN imm[i + 12] ELSE 0
  BY <1>1, BitOfShr DEF Bits
<1>3. /\ Shl(Shr(imm, 12), 12) \in Word
      /\ \A i \in Bits : Shl(Shr(imm, 12), 12)[i] = IF 12 <= i THEN Shr(imm, 12)[i - 12] ELSE 0
  BY <1>2, BitOfShl DEF Bits
<1>4. ASSUME NEW i \in Bits PROVE Shl(Shr(imm, 12), 12)[i] = imm[i]
  <2>1. CASE 12 <= i
    <3>1. i - 12 \in Bits /\ (i - 12) + 12 = i /\ (i - 12) + 12 <= 31
      BY <2>1 DEF Bits
    <3> QED BY <1>2, <1>3, <2>1, <3>1
  <2>2. CASE ~ (12 <= i)
    BY <1>1, <1>3, <2>2 DEF Bits
  <2> QED BY <2>1, <2>2
<1> QED BY <1>1, <1>3, <1>4, SameBits DEF Word, imm

\* One opcode after the other.  Executed names the conditions and operations by
\* the place of funct3 in a table, the text by a switch.
AgreesOn(d) == Executed(d) # Illegal => Assembled(disassemble_instruction(d)) = Executed(d)

LEMMA AssembledPlain ==
    ASSUME NEW name, NEW regs, NEW number, number[1] # "upper"
    PROVE  Assembled(Instruction(name, regs, number)) = Instruction(name, regs, number)
  BY DEF Assembled, Instruction

LEMMA AssembledUpper ==
    ASSUME NEW name, NEW regs, NEW imm
    PROVE  Assembled(Instruction(name, regs, <<"upper", imm>>))
             = Instruction(name, regs, <<"upper", Shl(imm, 12)>>)
  BY DEF Assembled, Instruction

OpName(d) ==
    CASE d.funct3 = 0 -> IF d.funct7 = 32 THEN "sub" ELSE "add"
      [] d.funct3 = 1 -> "sll"
      [] d.funct3 = 2 -> "slt"
      [] d.funct3 = 3 -> "sltu"
      [] d.funct3 = 4 -> "xor"
      [] d.funct3 = 5 -> IF d.funct7 = 32 THEN "sra" ELSE "srl"
      [] d.funct3 = 6 -> "or"
      [] d.funct3 = 7 -> "and"

LEMMA OpAgrees ==
    ASSUME NEW d, d.funct3 \in 0 .. 7, d.opcode = kOp
    PROVE  AgreesOn(d)
<1>1. Executed(d) = ExecutedOp(d)
  BY DEF Executed, kLoad, kMiscMem, kOpImm, kAuipc, kStore, kOp, kLui, kBranch, kJalr, kJal, kSystem
<1>2. disassemble_instruction(d) = OpText(d)
  BY DEF disassemble_instruction, kLoad, kMiscMem, kOpImm, kAuipc, kStore, kOp, kLui, kBranch, kJalr, kJal, kSystem
<1>3. None[1] = "none"
  BY DEF None
<1>4. OpText(d) = Assembled(OpText(d))
  <2>1. OpText(d) = format_r(OpName(d), d)
    BY DEF OpText, OpName
  <2> QED BY <1>3, <2>1, AssembledPlain DEF format_r
<1>5. ASSUME is_valid_funct7(d.funct7, d.funct3) PROVE ExecutedOp(d) = OpText(d)
  <2>1. d.funct7 = 0 \/ (d.funct7 = 32 /\ d.funct3 \in {0, 5})
    BY <1>5 DEF is_valid_funct7
  <2>2. d.funct3 = 0 \/ d.funct3 = 1 \/ d.funct3 = 2 \/ d.funct3 = 3
        \/ d.funct3 = 4 \/ d.funct3 = 5 \/ d.funct3 = 6 \/ d.funct3 = 7
    OBVIOUS
  <2> QED BY <1>5, <2>1, <2>2 DEF ExecutedOp, OpText, format_r
<1>6. ~is_valid_funct7(d.funct7, d.funct3) => ExecutedOp(d) = Illegal
  BY DEF ExecutedOp
<1> QED BY <1>1, <1>2, <1>4, <1>5, <1>6 DEF AgreesOn

LEMMA OpImmAgrees ==
    ASSUME NEW d, d.funct3 \in 0 .. 7, d.opcode = kOpImm
    PROVE  AgreesOn(d)
<1>1. Executed(d) = ExecutedOpImm(d)
  BY DEF Executed, kLoad, kMiscMem, kOpImm, kAuipc, kStore, kOp, kLui, kBranch, kJalr, kJal, kSystem
<1>2. disassemble_instruction(d) = OpImmText(d)
  BY DEF disassemble_instruction,
         kLoad, kMiscMem, kOpImm, kAuipc, kStore, kOp, kLui, kBranch, kJalr, kJal, kSystem
<1>3. Assembled(OpImmText(d)) = OpImmText(d)
  <2>1. OpImmText(d).number[1] # "upper"
    BY DEF OpImmText, format_i, format_shift, Instruction, Illegal, None
  <2> QED BY <2>1 DEF Assembled
<1>4. d.funct3 = 0 \/ d.funct3 = 1 \/ d.funct3 = 2 \/ d.funct3 = 3
      \/ d.funct3 = 4 \/ d.funct3 = 5 \/ d.funct3 = 6 \/ d.funct3 = 7
  OBVIOUS
<1>5. ExecutedOpImm(d) = OpImmText(d)
  BY <1>4 DEF ExecutedOpImm, OpImmText, format_i, format_shift, is_valid_shift
<1> QED BY <1>1, <1>2, <1>3, <1>5 DEF AgreesOn

LEMMA AccessAgrees ==
    ASSUME NEW d, d.funct3 \in 0 .. 7, d.opcode \in {kLoad, kStore}
    PROVE  AgreesOn(d)
<1>1. Executed(d) = ExecutedAccess(d)
  BY DEF Executed, kLoad, kMiscMem, kOpImm, kAuipc, kStore, kOp, kLui, kBranch, kJalr, kJal, kSystem
<1>2. CASE d.opcode = kLoad /\ d.funct3 \in {0, 1, 2, 4, 5}
  <2>1. disassemble_instruction(d) = format_offset(LoadText[d.funct3], d, FALSE)
    <3>1. d.funct3 \in DOMAIN LoadText
      BY <1>2 DEF LoadText
    <3> QED BY <1>2, <3>1 DEF disassemble_instruction,
                kLoad, kMiscMem, kOpImm, kAuipc, kStore, kOp, kLui, kBranch, kJalr, kJal, kSystem
  <2>2. ExecutedAccess(d) = format_offset(LoadText[d.funct3], d, FALSE)
    BY <1>2 DEF ExecutedAccess, LoadText, format_offset, kLoad, kStore
  <2> QED BY <1>1, <2>1, <2>2, AssembledPlain DEF AgreesOn, format_offset
<1>3. CASE d.opcode = kStore /\ d.funct3 \in {0, 1, 2}
  <2>1. disassemble_instruction(d) = format_offset(StoreText[d.funct3], d, TRUE)
    <3>1. d.funct3 \in DOMAIN StoreText
      BY <1>3 DEF StoreText
    <3> QED BY <1>3, <3>1 DEF disassemble_instruction,
                kLoad, kMiscMem, kOpImm, kAuipc, kStore, kOp, kLui, kBranch, kJalr, kJal, kSystem
  <2>2. ExecutedAccess(d) = format_offset(StoreText[d.funct3], d, TRUE)
    BY <1>3 DEF ExecutedAccess, StoreText, format_offset, kLoad, kStore
  <2> QED BY <1>1, <2>1, <2>2, AssembledPlain DEF AgreesOn, format_offset
<1>4. CASE /\ ~ (d.opcode = kLoad /\ d.funct3 \in {0, 1, 2, 4, 5})
           /\ ~ (d.opcode = kStore /\ d.funct3 \in {0, 1, 2})
  BY <1>1, <1>4 DEF AgreesOn, ExecutedAccess
<1> QED BY <1>2, <1>3, <1>4

LEMMA BranchAgrees ==
    ASSUME NEW d, d.funct3 \in 0 .. 7, d.opcode = kBranch
    PROVE  AgreesOn(d)
<1>1. Executed(d) = ExecutedBranch(d)
  BY DEF Executed, kLoad, kMiscMem, kOpImm, kAuipc, kStore, kOp, kLui, kBranch, kJalr, kJal, kSystem
<1>2. CASE d.funct3 \in {2, 3}
  BY <1>1, <1>2 DEF AgreesOn, ExecutedBranch
<1>3. CASE d.funct3 \in {0, 1, 4, 5, 6, 7}
  <2>1. disassemble_instruction(d) = format_branch(BranchText[d.funct3], d)
    BY <1>3 DEF disassemble_instruction, BranchText,
                kLoad, kMiscMem, kOpImm, kAuipc, kStore, kOp, kLui, kBranch, kJalr, kJal, kSystem
  <2>2. ExecutedBranch(d) = format_branch(BranchText[d.funct3], d)
    BY <1>3 DEF ExecutedBranch, BranchText, format_branch
  <2> QED BY <1>1, <2>1, <2>2, AssembledPlain DEF AgreesOn, format_branch
<1> QED BY <1>2, <1>3

LEMMA UpperAgrees ==
    ASSUME NEW d, d.opcode \in {kLui, kAuipc}, Shl(Shr(d.imm, 12), 12) = d.imm
    PROVE  AgreesOn(d)
<1>1. CASE d.opcode = kLui
  <2>1. Executed(d) = Instruction("lui", <<d.rd>>, <<"upper", d.imm>>)
    BY <1>1 DEF Executed,
                kLoad, kMiscMem, kOpImm, kAuipc, kStore, kOp, kLui, kBranch, kJalr, kJal, kSystem
  <2>2. disassemble_instruction(d) = Instruction("lui", <<d.rd>>, <<"upper", Shr(d.imm, 12)>>)
    BY <1>1 DEF disassemble_instruction, format_u,
                kLoad, kMiscMem, kOpImm, kAuipc, kStore, kOp, kLui, kBranch, kJalr, kJal, kSystem
  <2> QED BY <2>1, <2>2, AssembledUpper DEF AgreesOn
<1>2. CASE d.opcode = kAuipc
  <2>1. Executed(d) = Instruction("auipc", <<d.rd>>, <<"upper", d.imm>>)
    BY <1>2 DEF Executed,
                kLoad, kMiscMem, kOpImm, kAuipc, kStore, kOp, kLui, kBranch, kJalr, kJal, kSystem
  <2>2. disassemble_instruction(d) = Instruction("auipc", <<d.rd>>, <<"upper", Shr(d.imm, 12)>>)
    BY <1>2 DEF disassemble_instruction, format_u,
                kLoad, kMiscMem, kOpImm, kAuipc, kStore, kOp, kLui, kBranch, kJalr, kJal, kSystem
  <2> QED BY <2>1, <2>2, AssembledUpper DEF AgreesOn
<1> QED BY <1>1, <1>2

LEMMA SystemAgrees ==
    ASSUME NEW d, d.opcode = kSystem, d.imm \in Word
    PROVE  AgreesOn(d)
<1>1. Executed(d) = ExecutedSystem(d)
  BY DEF Executed, kLoad, kMiscMem, kOpImm, kAuipc, kStore, kOp, kLui, kBranch, kJalr, kJal, kSystem
<1>2. disassemble_instruction(d) = SystemText(d)
  BY DEF disassemble_instruction,
         kLoad, kMiscMem, kOpImm, kAuipc, kStore, kOp, kLui, kBranch, kJalr, kJal, kSystem
<1> DEFINE valid == d.funct3 = 0 /\ d.rd = 0 /\ d.rs1 = 0 /\ ~ \E i \in 1 .. 31 : d.imm[i] = 1
           one == [Zero EXCEPT ![0] = 1]
<1>3. \A i \in Bits : d.imm[i] \in {0, 1}
  BY DEF Word
<1>4. ~valid => Executed(d) = Illegal
  BY <1>1 DEF ExecutedSystem
<1>5. CASE valid /\ d.imm[0] = 0
  <2>1. \A i \in Bits : d.imm[i] = Zero[i]
    BY <1>3, <1>5 DEF Bits, Zero
  <2>2. d.imm = Zero
    BY <2>1 DEF Zero, Word
  <2>3. Zero # one
    BY DEF Zero, Bits
  <2>4. SystemText(d) = Instruction("ecall", <<>>, None)
    BY <1>5, <2>2, <2>3 DEF SystemText
  <2>5. ExecutedSystem(d) = Instruction("ecall", <<>>, None)
    BY <1>5 DEF ExecutedSystem
  <2> QED BY <1>1, <1>2, <2>4, <2>5, AssembledPlain DEF AgreesOn, None
<1>6. CASE valid /\ d.imm[0] # 0
  <2>1. d.imm[0] = 1 /\ one[0] = 1
    BY <1>3, <1>6 DEF Bits, Zero
  <2>2. \A i \in Bits : d.imm[i] = one[i]
    BY <1>3, <1>6, <2>1 DEF Bits, Zero
  <2>3. d.imm = one
    BY <2>2 DEF Zero, Word
  <2>4. Zero # one
    BY DEF Zero, Bits
  <2>5. SystemText(d) = Instruction("ebreak", <<>>, None)
    BY <1>6, <2>3, <2>4 DEF SystemText
  <2>6. ExecutedSystem(d) = Instruction("ebreak", <<>>, None)
    BY <1>6 DEF ExecutedSystem
  <2> QED BY <1>1, <1>2, <2>5, <2>6, AssembledPlain DEF AgreesOn, None
<1> HIDE DEF valid
<1> QED BY <1>4, <1>5, <1>6 DEF AgreesOn

LEMMA AllAgree ==
    ASSUME NEW d, d.funct3 \in 0 .. 7, d.imm \in Word,
           d.opcode \in {kLui, kAuipc} => Shl(Shr(d.imm, 12), 12) = d.imm
    PROVE  AgreesOn(d)
<1>1. CASE d.opcode = kJal
  <2>1. Executed(d) = Instruction("jal", <<d.rd>>, <<"target", d.imm>>)
    BY <1>1 DEF Executed,
                kLoad, kMiscMem, kOpImm, kAuipc, kStore, kOp, kLui, kBranch, kJalr, kJal, kSystem
  <2>2. disassemble_instruction(d) = Instruction("jal", <<d.rd>>, <<"target", d.imm>>)
    BY <1>1 DEF disassemble_instruction,
                kLoad, kMiscMem, kOpImm, kAuipc, kStore, kOp, kLui, kBranch, kJalr, kJal, kSystem
  <2> QED BY <2>1, <2>2, AssembledPlain DEF AgreesOn
<1>2. CASE d.opcode = kJalr
  <2>1. CASE d.funct3 = 0
    <3>1. Executed(d) = Instruction("jalr", <<d.rd, d.rs1>>, <<"imm", d.imm>>)
      BY <1>2, <2>1 DEF Executed,
                        kLoad, kMiscMem, kOpImm, kAuipc, kStore, kOp, kLui, kBranch, kJalr, kJal, kSystem
    <3>2. disassemble_instruction(d) = Instruction("jalr", <<d.rd, d.rs1>>, <<"imm", d.imm>>)
      BY <1>2, <2>1 DEF disassemble_instruction, format_offset,
                        kLoad, kMiscMem, kOpImm, kAuipc, kStore, kOp, kLui, kBranch, kJalr, kJal, kSystem
    <3> QED BY <3>1, <3>2, AssembledPlain DEF AgreesOn
  <2>2. CASE d.funct3 # 0
    BY <1>2, <2>2 DEF AgreesOn, Executed,
                      kLoad, kMiscMem, kOpImm, kAuipc, kStore, kOp, kLui, kBranch, kJalr, kJal, kSystem
  <2> QED BY <2>1, <2>2
<1>3. CASE d.opcode = kMiscMem
  <2>1. CASE d.funct3 <= 1
    <3> DEFINE fence == Instruction(IF d.funct3 = 0 THEN "fence" ELSE "fence.i", <<>>, None)
    <3>1. Executed(d) = fence
      BY <1>3, <2>1 DEF Executed,
                        kLoad, kMiscMem, kOpImm, kAuipc, kStore, kOp, kLui, kBranch, kJalr, kJal, kSystem
    <3>2. disassemble_instruction(d) = fence
      <4>1. d.funct3 = 0 \/ d.funct3 = 1
        BY <2>1
      <4> QED BY <1>3, <4>1 DEF disassemble_instruction,
                                kLoad, kMiscMem, kOpImm, kAuipc, kStore, kOp, kLui, kBranch, kJalr, kJal, kSystem
    <3> QED BY <3>1, <3>2, AssembledPlain DEF AgreesOn, None
  <2>2. CASE ~ (d.funct3 <= 1)
    BY <1>3, <2>2 DEF AgreesOn, Executed,
                      kLoad, kMiscMem, kOpImm, kAuipc, kStore, kOp, kLui, kBranch, kJalr, kJal, kSystem
  <2> QED BY <2>1, <2>2
<1>4. CASE d.opcode \notin {kLoad, kMiscMem, kOpImm, kAuipc, kStore, kOp, kLui, kBranch, kJalr, kJal,
                           kSystem}
  BY <1>4 DEF AgreesOn, Executed
<1> QED BY <1>1, <1>2, <1>3, <1>4, OpAgrees, OpImmAgrees, AccessAgrees, BranchAgrees, UpperAgrees,
           SystemAgrees

\* What the listing names is what is executed, for every word there is.
LEMMA WordsAgree ==
    ASSUME NEW inst \in Word
    PROVE  AgreesOn(decode_raw_inst(inst))
<1> DEFINE d == decode_raw_inst(inst)
<1>1. d.funct3 \in 0 .. 7 /\ d.imm \in Word
  BY Funct3Type, ImmediateType
<1>2. ASSUME d.opcode \in {kLui, kAuipc} PROVE Shl(Shr(d.imm, 12), 12) = d.imm
  <2>1. d.imm = Immediate(inst, classify_opcode(d.opcode))
    BY DEF decode_raw_inst
  <2>2. classify_opcode(d.opcode) = "U"
    BY <1>2 DEF classify_opcode, kLoad, kMiscMem, kOpImm, kOpImm32, kJalr, kSystem, kLui, kAuipc,
                kJal, kBranch, kStore, kStoreFp, kOp, kOp32, kAmo
  <2>3. d.imm = decode_u_imm(inst)
    BY <2>1, <2>2 DEF Immediate
  <2> QED BY <2>3, UpperBitsRestored
<1> HIDE DEF d
<1>3. AgreesOn(d)
  BY <1>1, <1>2, AllAgree
<1> QED BY <1>3 DEF d

-----------------------------------------------------------------------------
(* The image (Loader).  LoadHeaders and Constructed are loops; what they   *)
(* leave is shown by induction on the iterations.                          *)

\* L is the loadable ones of the first n headers, in order: e says where each is.
IsSelection(e, L, headers, n) ==
    /\ L \in Seq(ProgramHeader)
    /\ e \in [1 .. Len(L) -> 1 .. n]
    /\ \A j \in 1 .. Len(L) : L[j] = headers[e[j]] /\ L[j].load
    /\ \A j, k \in 1 .. Len(L) : j < k => e[j] < e[k]
    /\ \A m \in 1 .. n : headers[m].load => \E j \in 1 .. Len(L) : e[j] = m

LEMMA SelectionGrows ==
    ASSUME NEW headers \in Seq(ProgramHeader), NEW i \in 1 .. Len(headers), NEW L, NEW e,
           IsSelection(e, L, headers, i - 1)
    PROVE  \E d : IsSelection(d, IF headers[i].load THEN Append(L, headers[i]) ELSE L, headers, i)
<1>1. /\ headers[i] \in ProgramHeader /\ L \in Seq(ProgramHeader) /\ Len(L) \in Nat
      /\ i \in Nat /\ i >= 1
  BY DEF IsSelection
<1>2. CASE ~headers[i].load
  <2>1. \A m \in 1 .. i : headers[m].load => m \in 1 .. i - 1
    BY <1>1, <1>2
  <2>2. e \in [1 .. Len(L) -> 1 .. i]
    BY <1>1 DEF IsSelection
  <2>3. IsSelection(e, L, headers, i)
    BY <2>1, <2>2 DEF IsSelection
  <2> QED BY <1>2, <2>3
<1>3. CASE headers[i].load
  <2> DEFINE M == Append(L, headers[i])
             d == [j \in 1 .. Len(M) |-> IF j = Len(M) THEN i ELSE e[j]]
  <2>1. /\ M \in Seq(ProgramHeader) /\ Len(M) = Len(L) + 1 /\ M[Len(M)] = headers[i]
        /\ \A j \in 1 .. Len(L) : M[j] = L[j]
    BY <1>1
  <2>2. \A j \in 1 .. Len(M) : j # Len(M) => j \in 1 .. Len(L)
    BY <1>1, <2>1
  <2>3. Len(M) \in 1 .. Len(M) /\ d[Len(M)] = i /\ \A j \in 1 .. Len(L) : d[j] = e[j] /\ j \in 1 .. Len(M)
    BY <1>1, <2>1
  <2>4. \A j \in 1 .. Len(L) : e[j] \in 1 .. i - 1
    BY DEF IsSelection
  <2>5. d \in [1 .. Len(M) -> 1 .. i]
    BY <1>1, <2>1, <2>2, <2>4
  <2> HIDE DEF M, d
  <2>6. \A j \in 1 .. Len(M) : M[j] = headers[d[j]] /\ M[j].load
    BY <1>3, <2>1, <2>2, <2>3 DEF IsSelection
  <2>7. ASSUME NEW j \in 1 .. Len(M), NEW k \in 1 .. Len(M), j < k PROVE d[j] < d[k]
    <3>1. j \in 1 .. Len(L)
      BY <1>1, <2>1, <2>7
    <3>2. CASE k = Len(M)
      BY <1>1, <2>3, <2>4, <3>1, <3>2
    <3>3. CASE k # Len(M)
      BY <2>2, <2>3, <2>7, <3>1, <3>3 DEF IsSelection
    <3> QED BY <3>2, <3>3
  <2>8. ASSUME NEW m \in 1 .. i, headers[m].load PROVE \E j \in 1 .. Len(M) : d[j] = m
    <3>1. CASE m = i
      BY <2>3, <3>1
    <3>2. CASE m # i
      <4>1. m \in 1 .. i - 1
        BY <1>1, <3>2
      <4> QED BY <2>3, <2>8, <4>1 DEF IsSelection
    <3> QED BY <3>1, <3>2
  <2>9. IsSelection(d, M, headers, i)
    BY <2>1, <2>5, <2>6, <2>7, <2>8 DEF IsSelection
  <2> QED BY <1>3, <2>9 DEF M
<1> QED BY <1>2, <1>3

LEMMA LoadHeadersSelect ==
    ASSUME NEW elf_file, elf_file.headers \in Seq(ProgramHeader)
    PROVE  \E e : IsSelection(e, LoadHeaders(elf_file), elf_file.headers, Len(elf_file.headers))
<1> DEFINE headers == elf_file.headers
           n == Len(headers)
           S == Seq(ProgramHeader)
           body == [i \in 1 .. n |-> [L \in S |-> IF headers[i].load THEN Append(L, headers[i]) ELSE L]]
           start == <<>>
           Step(f) == [i \in 0 .. n |->
                          IF i = 0 THEN <<>>
                          ELSE IF headers[i].load THEN Append(f[i - 1], headers[i])
                          ELSE f[i - 1]]
           IsUpto(f) == f = Step(f)
           upto == CHOOSE f : IsUpto(f)
<1>1. headers \in S /\ n \in Nat
  OBVIOUS
<1>2. LoadHeaders(elf_file) = upto[n]
  BY DEF LoadHeaders
<1>3. \E g : IsUpto(g)
  <2>1. \A i \in 1 .. n : body[i] \in [S -> S]
    <3> SUFFICES ASSUME NEW i \in 1 .. n, NEW L \in S, headers[i] \in ProgramHeader
                 PROVE  Append(L, headers[i]) \in S
      BY <1>1
    <3> QED OBVIOUS
  <2>2. \A i \in 1 .. n, L \in S : body[i][L] = IF headers[i].load THEN Append(L, headers[i]) ELSE L
    OBVIOUS
  <2>3. start \in S
    OBVIOUS
  <2> HIDE DEF body, start, n, S, headers
  <2>4. PICK g : IsLoop(g, n, S, start, body)
    BY <1>1, <2>1, <2>3, LoopRuns
  <2>5. \A i \in 1 .. n : i - 1 \in 0 .. n /\ g[i - 1] \in S
    BY <1>1, <2>4 DEF IsLoop
  <2>6. ASSUME NEW i \in 0 .. n
        PROVE  g[i] = IF i = 0 THEN <<>>
                      ELSE IF headers[i].load THEN Append(g[i - 1], headers[i]) ELSE g[i - 1]
    <3>1. CASE i = 0
      BY <2>4, <3>1 DEF IsLoop, start
    <3>2. CASE i # 0
      <4>1. i \in 1 .. n
        BY <1>1, <3>2
      <4>2. g[i] = body[i][g[i - 1]] /\ g[i - 1] \in S
        BY <2>4, <2>5, <4>1 DEF IsLoop
      <4> QED BY <2>2, <3>2, <4>1, <4>2
    <3> QED BY <3>1, <3>2
  <2>7. g = [i \in 0 .. n |-> g[i]]
    BY <2>4 DEF IsLoop
  <2>8. IsUpto(g)
    BY <2>6, <2>7
  <2> QED BY <2>8
<1>4. IsUpto(upto)
  <2> HIDE DEF IsUpto
  <2> QED BY <1>3
<1> HIDE DEF upto
<1>5. /\ upto[0] = <<>>
      /\ \A i \in 1 .. n : upto[i] = IF headers[i].load THEN Append(upto[i - 1], headers[i])
                                     ELSE upto[i - 1]
  <2>1. \A i \in 0 .. n : Step(upto)[i] = IF i = 0 THEN <<>>
                                          ELSE IF headers[i].load
                                               THEN Append(upto[i - 1], headers[i])
                                          ELSE upto[i - 1]
    OBVIOUS
  <2>2. upto = Step(upto)
    BY <1>4
  <2> HIDE DEF Step, headers, n
  <2>3. \A i \in 0 .. n : upto[i] = IF i = 0 THEN <<>>
                                    ELSE IF headers[i].load
                                         THEN Append(upto[i - 1], headers[i])
                                    ELSE upto[i - 1]
    BY <2>1, <2>2
  <2>4. 0 \in 0 .. n /\ \A i \in 1 .. n : i \in 0 .. n /\ i # 0
    BY <1>1
  <2> QED BY <2>3, <2>4
<1> HIDE DEF Step, n, headers
<1> DEFINE Holding == {i \in 0 .. n : \E e : IsSelection(e, upto[i], headers, i)}
<1>6. 0 \in Holding
  <2> DEFINE e == [j \in 1 .. 0 |-> 0]
  <2>1. <<>> \in S /\ Len(<<>>) = 0 /\ e \in [1 .. 0 -> 1 .. 0]
    OBVIOUS
  <2> HIDE DEF e, S
  <2>2. IsSelection(e, <<>>, headers, 0)
    BY <2>1 DEF IsSelection, S
  <2> QED BY <1>1, <1>5, <2>2
<1>7. ASSUME NEW i \in 1 .. n, i - 1 \in Holding PROVE i \in Holding
  <2>1. PICK e : IsSelection(e, upto[i - 1], headers, i - 1)
    BY <1>7
  <2>2. \E d : IsSelection(d, upto[i], headers, i)
    BY <1>1, <1>5, <2>1, SelectionGrows DEF n, S
  <2> QED BY <1>1, <2>2
<1>8. n \in Holding
  <2> HIDE DEF Holding
  <2>1. 0 .. n \subseteq Holding
    BY <1>1, <1>6, <1>7, KeptThroughout
  <2> QED BY <1>1, <2>1
<1> QED BY <1>2, <1>8 DEF n, headers

\* What the loader returns: segments whose data fills them, inside the address space.
SegmentRecord == [vaddr : Address, size : Nat, executable : BOOLEAN,
                  data : UNION {[0 .. k - 1 -> Byte] : k \in Nat}]
Placed(s) == s.vaddr + s.size <= WordValues - 1 /\ s.data \in [0 .. s.size - 1 -> Byte]
IsSegments(segs) == segs \in Seq(SegmentRecord) /\ \A i \in 1 .. Len(segs) : Placed(segs[i])

LEMMA SegmentsLoaded ==
    ASSUME NEW elf_file \in Files, Loadable(elf_file)
    PROVE  LET L == LoadHeaders(elf_file)
               segs == Segments(elf_file)
           IN  /\ IsSegments(segs)
               /\ Len(segs) = Len(L)
               /\ \A i \in 1 .. Len(L) : /\ segs[i].vaddr = L[i].vaddr
                                         /\ segs[i].size = L[i].memsz
                                         /\ segs[i].executable = L[i].executable
                                         /\ segs[i].data = SegmentData(elf_file, L[i])
<1> DEFINE L == LoadHeaders(elf_file)
           segs == Segments(elf_file)
<1>1. /\ elf_file.headers \in Seq(ProgramHeader) /\ elf_file.size \in Nat /\ elf_file.phoff \in Nat
      /\ \A k \in 0 .. elf_file.size - 1 : elf_file.bytes[k] \in Byte
  BY DriverAssumption
<1>2. L \in Seq(ProgramHeader)
  BY <1>1, LoadHeadersSelect DEF IsSelection
<1>3. \A i \in 1 .. Len(L) : SegmentFits(elf_file, L[i]) /\ L[i] \in ProgramHeader
  BY <1>2 DEF Loadable
<1>4. segs = [i \in 1 .. Len(L) |->
                  [vaddr |-> L[i].vaddr, size |-> L[i].memsz, executable |-> L[i].executable,
                   data |-> SegmentData(elf_file, L[i])]]
  BY <1>2 DEF Segments
<1>5. ASSUME NEW i \in 1 .. Len(L)
      PROVE  SegmentData(elf_file, L[i]) \in [0 .. L[i].memsz - 1 -> Byte]
  <2> DEFINE h == L[i]
  <2>1. h \in ProgramHeader /\ h.offset + h.filesz <= elf_file.size
    BY <1>3 DEF SegmentFits
  <2>2. h.offset \in Nat /\ h.filesz \in Nat /\ h.memsz \in Nat
    BY <2>1 DEF ProgramHeader
  <2> HIDE DEF h
  <2>3. ASSUME NEW k \in 0 .. h.memsz - 1
        PROVE  (IF k < h.filesz THEN elf_file.bytes[h.offset + k] ELSE 0) \in Byte
    <3>1. 0 \in Byte
      BY MemoryAssumption DEF Byte
    <3>2. k < h.filesz => h.offset + k \in 0 .. elf_file.size - 1
      BY <1>1, <2>1, <2>2
    <3> QED BY <1>1, <3>1, <3>2
  <2>4. SegmentData(elf_file, h) \in [0 .. h.memsz - 1 -> Byte]
    BY <2>3 DEF SegmentData
  <2> QED BY <2>4 DEF h
<1> HIDE DEF L, segs
<1>7. ASSUME NEW i \in 1 .. Len(L)
      PROVE  [vaddr |-> L[i].vaddr, size |-> L[i].memsz, executable |-> L[i].executable,
              data |-> SegmentData(elf_file, L[i])] \in SegmentRecord
  <2>1. /\ L[i].vaddr \in Address /\ L[i].memsz \in Nat /\ L[i].executable \in BOOLEAN
    BY <1>3 DEF ProgramHeader
  <2>2. SegmentData(elf_file, L[i]) \in UNION {[0 .. k - 1 -> Byte] : k \in Nat}
    BY <1>5, <2>1
  <2> QED BY <2>1, <2>2 DEF SegmentRecord
<1>8. segs \in Seq(SegmentRecord) /\ Len(segs) = Len(L)
  BY <1>2, <1>4, <1>7
<1>9. ASSUME NEW i \in 1 .. Len(L)
      PROVE  /\ segs[i].vaddr = L[i].vaddr
             /\ segs[i].size = L[i].memsz
             /\ segs[i].executable = L[i].executable
             /\ segs[i].data = SegmentData(elf_file, L[i])
  BY <1>4
<1>10. ASSUME NEW i \in 1 .. Len(segs) PROVE Placed(segs[i])
  BY <1>3, <1>5, <1>8, <1>9 DEF Placed, SegmentFits
<1>11. IsSegments(segs)
  BY <1>8, <1>10 DEF IsSegments
<1> QED BY <1>8, <1>9, <1>11 DEF L, segs

\* The constructor maps the stack and every segment.
LEMMA RegionEffect ==
    ASSUME NEW addr \in Address, NEW size \in Nat
    PROVE  /\ DOMAIN MapRegion(<<>>, addr, size) \subseteq Address
           /\ \A a \in Address : addr <= a /\ a < addr + size => a \in DOMAIN MapRegion(<<>>, addr, size)
<1>1. DOMAIN <<>> = {}
  OBVIOUS
<1>2. WholePages(DOMAIN <<>>) /\ \A a \in DOMAIN <<>> : <<>>[a] \in Byte
  BY <1>1 DEF WholePages
<1> DEFINE none == <<>>
<1>3. WholePages(DOMAIN none) /\ \A a \in DOMAIN none : none[a] \in Byte
  BY <1>2
<1> HIDE DEF none
<1>4. LET m == MapRegion(none, addr, size)
      IN  /\ WholePages(DOMAIN m)
          /\ \A a \in Address : addr <= a /\ a < addr + size => a \in DOMAIN m
  BY <1>3, MapRegionEffect
<1>5. DOMAIN MapRegion(none, addr, size) \subseteq Address
  BY <1>4 DEF WholePages
<1> QED BY <1>4, <1>5 DEF none

LEMMA MappedEffect ==
    ASSUME NEW segs, IsSegments(segs)
    PROVE  /\ Mapped(segs) \subseteq Address
           /\ StackPointer - StackSize .. StackPointer - 1 \subseteq Mapped(segs)
           /\ \A i \in 1 .. Len(segs) :
                  \A a \in segs[i].vaddr .. segs[i].vaddr + segs[i].size - 1 :
                      a \in Address /\ a \in Mapped(segs)
<1> DEFINE region(addr, size) == DOMAIN MapRegion(<<>>, addr, size)
<1>1. DOMAIN segs = 1 .. Len(segs) /\ \A i \in 1 .. Len(segs) : segs[i] \in SegmentRecord /\ Placed(segs[i])
  BY DEF IsSegments
<1>2. Mapped(segs) = region(StackPointer - StackSize, StackSize)
                         \cup UNION {region(segs[i].vaddr, segs[i].size) : i \in 1 .. Len(segs)}
  BY <1>1 DEF Mapped
<1>3. \A addr \in Address, size \in Nat :
          /\ region(addr, size) \subseteq Address
          /\ \A a \in Address : addr <= a /\ a < addr + size => a \in region(addr, size)
  BY RegionEffect
<1> HIDE DEF region
<1>4. /\ StackPointer - StackSize \in Address /\ StackSize \in Nat
      /\ \A a \in StackPointer - StackSize .. StackPointer - 1 :
             /\ a \in Address
             /\ StackPointer - StackSize <= a
             /\ a < (StackPointer - StackSize) + StackSize
  BY LoaderAssumption, WordValuesType DEF Address
<1>5. \A i \in 1 .. Len(segs) : segs[i].vaddr \in Address /\ segs[i].size \in Nat
  BY <1>1 DEF SegmentRecord
<1>6. Mapped(segs) \subseteq Address
  BY <1>2, <1>3, <1>4, <1>5
<1>7. StackPointer - StackSize .. StackPointer - 1 \subseteq Mapped(segs)
  BY <1>2, <1>3, <1>4
<1>8. ASSUME NEW i \in 1 .. Len(segs), NEW a \in segs[i].vaddr .. segs[i].vaddr + segs[i].size - 1
      PROVE  a \in Address /\ a \in Mapped(segs)
  <2>1. segs[i].vaddr + segs[i].size <= WordValues - 1
    BY <1>1 DEF Placed
  <2>2. /\ a \in Address /\ segs[i].vaddr <= a /\ a < segs[i].vaddr + segs[i].size
    BY <1>5, <2>1, WordValuesType DEF Address
  <2>3. a \in region(segs[i].vaddr, segs[i].size)
    BY <1>3, <1>5, <2>2
  <2> QED BY <1>2, <2>2, <2>3
<1> QED BY <1>6, <1>7, <1>8

\* m is the memory after the first n segments: every byte is that of the last of
\* them that holds it, or zero.
Holds(s, a) == a - s.vaddr \in DOMAIN s.data
IsCopied(m, D, segs, n) ==
    /\ m \in [D -> Byte]
    /\ \A a \in D : (\A i \in 1 .. n : ~Holds(segs[i], a)) => m[a] = 0
    /\ \A a \in D, i \in 1 .. n :
           Holds(segs[i], a) /\ (\A j \in 1 .. n : Holds(segs[j], a) => j <= i)
               => m[a] = segs[i].data[a - segs[i].vaddr]

LEMMA CopiedGrows ==
    ASSUME NEW segs, IsSegments(segs), NEW n \in 1 .. Len(segs), NEW D, NEW m,
           IsCopied(m, D, segs, n - 1)
    PROVE  IsCopied(CopiedSegment(m, segs[n]), D, segs, n)
<1> DEFINE s == segs[n]
           c == CopiedSegment(m, s)
<1>1. s.data \in [0 .. s.size - 1 -> Byte] /\ n \in Nat
  BY DEF IsSegments, Placed
<1>2. /\ DOMAIN c = D
      /\ \A a \in D : c[a] = IF Holds(s, a) THEN s.data[a - s.vaddr] ELSE m[a]
  BY DEF CopiedSegment, IsCopied, Holds
<1>3. c = [a \in D |-> c[a]]
  BY DEF CopiedSegment, IsCopied
<1> HIDE DEF c
<1>4. ASSUME NEW a \in D PROVE c[a] \in Byte
  <2>1. Holds(s, a) => s.data[a - s.vaddr] \in Byte
    BY <1>1 DEF Holds
  <2> QED BY <1>2, <2>1 DEF IsCopied
<1>5. c \in [D -> Byte]
  BY <1>3, <1>4
<1>6. \A i \in 1 .. n : i # n => i \in 1 .. n - 1
  BY <1>1
<1>7. \A i \in 1 .. n - 1 : i \in 1 .. n
  BY <1>1
<1>8. n \in 1 .. n
  BY <1>1
<1>9. ASSUME NEW a \in D, \A i \in 1 .. n : ~Holds(segs[i], a) PROVE c[a] = 0
  BY <1>2, <1>7, <1>8, <1>9 DEF IsCopied
<1>10. ASSUME NEW a \in D, NEW i \in 1 .. n, Holds(segs[i], a),
              \A j \in 1 .. n : Holds(segs[j], a) => j <= i
       PROVE  c[a] = segs[i].data[a - segs[i].vaddr]
  <2>1. CASE i = n
    BY <1>2, <1>10, <2>1
  <2>2. CASE i # n
    <3>1. i \in 1 .. n - 1 /\ ~ (n <= i)
      BY <1>1, <2>2
    <3>2. ~Holds(s, a)
      BY <1>8, <1>10, <3>1
    <3>3. \A j \in 1 .. n - 1 : Holds(segs[j], a) => j <= i
      BY <1>7, <1>10
    <3>4. m[a] = segs[i].data[a - segs[i].vaddr]
      BY <1>10, <3>1, <3>3 DEF IsCopied
    <3> QED BY <1>2, <3>2, <3>4
  <2> QED BY <2>1, <2>2
<1>11. IsCopied(c, D, segs, n)
  BY <1>5, <1>9, <1>10 DEF IsCopied
<1> QED BY <1>11 DEF c

LEMMA ConstructedEffect ==
    ASSUME NEW segs, IsSegments(segs)
    PROVE  IsCopied(Constructed(segs), Mapped(segs), segs, Len(segs))
<1> DEFINE n == Len(segs)
           D == Mapped(segs)
           S == [D -> Byte]
           start == [a \in D |-> 0]
           body == [i \in 1 .. n |-> [m \in S |-> CopiedSegment(m, segs[i])]]
           Step(f) == [i \in 0 .. n |-> IF i = 0 THEN [a \in D |-> 0]
                                        ELSE CopiedSegment(f[i - 1], segs[i])]
           IsUpto(f) == f = Step(f)
           upto == CHOOSE f : IsUpto(f)
<1>1. n \in Nat
  BY DEF IsSegments
<1>2. Constructed(segs) = upto[n]
  BY DEF Constructed
<1>3. start \in S
  BY MemoryAssumption DEF Byte
<1>4. ASSUME NEW m \in S, NEW i \in 1 .. n PROVE CopiedSegment(m, segs[i]) \in S
  <2>1. segs[i].data \in [0 .. segs[i].size - 1 -> Byte]
    BY DEF IsSegments, Placed
  <2> QED BY <2>1 DEF CopiedSegment
<1>5. \A i \in 1 .. n : body[i] \in [S -> S]
  <2> HIDE DEF S
  <2> QED BY <1>4
<1>6. \A i \in 1 .. n, m \in S : body[i][m] = CopiedSegment(m, segs[i])
  OBVIOUS
<1>7. \E g : IsUpto(g)
  <2>0. start = [a \in D |-> 0]
    OBVIOUS
  <2> HIDE DEF body, start, n, S, D
  <2>1. PICK g : IsLoop(g, n, S, start, body)
    BY <1>1, <1>3, <1>5, LoopRuns
  <2>2. \A i \in 1 .. n : i - 1 \in 0 .. n /\ g[i - 1] \in S
    BY <1>1, <2>1 DEF IsLoop
  <2>3. ASSUME NEW i \in 0 .. n
        PROVE  g[i] = IF i = 0 THEN [a \in D |-> 0] ELSE CopiedSegment(g[i - 1], segs[i])
    <3>1. CASE i = 0
      BY <2>0, <2>1, <3>1 DEF IsLoop
    <3>2. CASE i # 0
      <4>1. i \in 1 .. n
        BY <1>1, <3>2
      <4>2. g[i] = body[i][g[i - 1]] /\ g[i - 1] \in S
        BY <2>1, <2>2, <4>1 DEF IsLoop
      <4> QED BY <1>6, <3>2, <4>1, <4>2
    <3> QED BY <3>1, <3>2
  <2>4. g = [i \in 0 .. n |-> g[i]]
    BY <2>1 DEF IsLoop
  <2>5. IsUpto(g)
    BY <2>3, <2>4
  <2> QED BY <2>5
<1>8. IsUpto(upto)
  <2> HIDE DEF IsUpto
  <2> QED BY <1>7
<1> HIDE DEF upto
<1>9. /\ upto[0] = [a \in D |-> 0]
      /\ \A i \in 1 .. n : upto[i] = CopiedSegment(upto[i - 1], segs[i])
  <2>1. \A i \in 0 .. n : Step(upto)[i] = IF i = 0 THEN [a \in D |-> 0]
                                          ELSE CopiedSegment(upto[i - 1], segs[i])
    OBVIOUS
  <2>2. upto = Step(upto)
    BY <1>8
  <2> HIDE DEF Step, n, D
  <2>3. \A i \in 0 .. n : upto[i] = IF i = 0 THEN [a \in D |-> 0]
                                    ELSE CopiedSegment(upto[i - 1], segs[i])
    BY <2>1, <2>2
  <2>4. 0 \in 0 .. n /\ \A i \in 1 .. n : i \in 0 .. n /\ i # 0
    BY <1>1
  <2> QED BY <2>3, <2>4
<1> HIDE DEF Step, body
<1> DEFINE Holding == {i \in 0 .. n : IsCopied(upto[i], D, segs, i)}
<1>10. 0 \in Holding
  <2>1. IsCopied(start, D, segs, 0)
    BY <1>3 DEF IsCopied
  <2> HIDE DEF D
  <2> QED BY <1>1, <1>9, <2>1
<1>11. ASSUME NEW i \in 1 .. n, i - 1 \in Holding PROVE i \in Holding
  <2>1. IsCopied(upto[i - 1], D, segs, i - 1)
    BY <1>11
  <2> HIDE DEF D
  <2>2. IsCopied(upto[i], D, segs, i)
    BY <1>9, <2>1, CopiedGrows
  <2> QED BY <1>1, <2>2
<1>12. n \in Holding
  <2> HIDE DEF Holding, n
  <2>1. 0 .. n \subseteq Holding
    BY <1>1, <1>10, <1>11, KeptThroughout
  <2> QED BY <1>1, <2>1
<1> QED BY <1>2, <1>12

\* The byte of the last segment that covers an address is the byte of the last
\* program header that does.
LEMMA ImageCopied ==
    ASSUME NEW elf_file \in Files, Loadable(elf_file)
    PROVE  LET m == Constructed(Segments(elf_file))
           IN  /\ \A a \in Address : (\E i \in DOMAIN elf_file.headers : Covers(elf_file.headers[i], a))
                                         => a \in DOMAIN m
               /\ StackPointer - StackSize .. StackPointer - 1 \subseteq DOMAIN m
               /\ \A a \in DOMAIN m : m[a] = ImageByte(elf_file, a)
<1> DEFINE L == LoadHeaders(elf_file)
           headers == elf_file.headers
           n == Len(headers)
           segs == Segments(elf_file)
           D == Mapped(segs)
           m == Constructed(segs)
<1>1. headers \in Seq(ProgramHeader) /\ n \in Nat /\ DOMAIN headers = 1 .. n
  BY DriverAssumption
<1>2. PICK e : IsSelection(e, L, headers, n)
  BY <1>1, LoadHeadersSelect
<1>3. IsSegments(segs) /\ Len(segs) = Len(L)
  BY SegmentsLoaded
<1>4. \A j \in 1 .. Len(L) : /\ segs[j].vaddr = L[j].vaddr
                             /\ segs[j].size = L[j].memsz
                             /\ segs[j].data = SegmentData(elf_file, L[j])
  BY SegmentsLoaded
<1>5. IsCopied(m, D, segs, Len(segs))
  BY <1>3, ConstructedEffect
<1>6. /\ D \subseteq Address
      /\ StackPointer - StackSize .. StackPointer - 1 \subseteq D
      /\ \A j \in 1 .. Len(segs) :
             \A a \in segs[j].vaddr .. segs[j].vaddr + segs[j].size - 1 : a \in Address /\ a \in D
  BY <1>3, MappedEffect
<1>7. DOMAIN m = D
  BY <1>5 DEF IsCopied
<1> HIDE DEF L, segs, D, m, n, headers
<1>8. ASSUME NEW j \in 1 .. Len(L), NEW a \in Nat
      PROVE  /\ e[j] \in 1 .. n /\ headers[e[j]] = L[j]
             /\ Holds(segs[j], a) <=> Covers(headers[e[j]], a)
  <2>1. e[j] \in 1 .. n /\ L[j] = headers[e[j]] /\ L[j].load /\ L[j] \in ProgramHeader
    BY <1>2 DEF IsSelection
  <2>2. L[j].vaddr \in Nat /\ L[j].memsz \in Nat
    BY <2>1, WordValuesType DEF ProgramHeader, Address
  <2>3. DOMAIN segs[j].data = 0 .. L[j].memsz - 1 /\ segs[j].vaddr = L[j].vaddr
    BY <1>4 DEF SegmentData
  <2>4. Holds(segs[j], a) <=> a - L[j].vaddr \in 0 .. L[j].memsz - 1
    BY <2>3 DEF Holds
  <2>5. Covers(L[j], a) <=> a \in L[j].vaddr .. L[j].vaddr + L[j].memsz - 1
    BY <2>1 DEF Covers
  <2>6. Holds(segs[j], a) <=> Covers(L[j], a)
    <3> DEFINE v == L[j].vaddr
               z == L[j].memsz
    <3>1. v \in Nat /\ z \in Nat
      BY <2>2
    <3> HIDE DEF v, z
    <3>2. a - v \in 0 .. z - 1 <=> a \in v .. v + z - 1
      BY <3>1
    <3> QED BY <2>4, <2>5, <3>2 DEF v, z
  <2> QED BY <2>1, <2>6
<1>9. \A i \in 1 .. n, a \in Nat : Covers(headers[i], a) => \E j \in 1 .. Len(L) : e[j] = i
  BY <1>2 DEF IsSelection, Covers
<1>10. ASSUME NEW a \in Address, NEW i \in 1 .. n, Covers(headers[i], a) PROVE a \in D
  <2>1. a \in Nat
    BY WordValuesType DEF Address
  <2>2. PICK j \in 1 .. Len(L) : e[j] = i
    BY <1>9, <1>10, <2>1
  <2>3. segs[j].vaddr = headers[i].vaddr /\ segs[j].size = headers[i].memsz
    BY <1>4, <1>8, <2>1, <2>2
  <2>4. a \in segs[j].vaddr .. segs[j].vaddr + segs[j].size - 1
    BY <1>10, <2>3 DEF Covers
  <2> QED BY <1>3, <1>6, <2>4
<1>11. ASSUME NEW a \in D PROVE m[a] = ImageByte(elf_file, a)
  <2> DEFINE covering == {i \in 1 .. n : Covers(headers[i], a)}
             last == CHOOSE i \in covering : \A j \in covering : j <= i
             h == headers[last]
  <2>1. a \in Nat
    BY <1>6, WordValuesType DEF Address
  <2>2. ImageByte(elf_file, a) = IF covering # {} /\ a - h.vaddr < h.filesz
                             THEN elf_file.bytes[h.offset + a - h.vaddr] ELSE 0
    BY <1>1 DEF ImageByte, headers
  <2>3. CASE covering = {}
    <3>1. \A j \in 1 .. Len(segs) : ~Holds(segs[j], a)
      BY <1>3, <1>8, <2>1, <2>3
    <3>2. m[a] = 0
      BY <1>5, <3>1 DEF IsCopied
    <3> QED BY <2>2, <2>3, <3>2
  <2>4. CASE covering # {}
    <3>1. last \in covering /\ \A i \in covering : i <= last
      <4>1. \E i \in covering : \A j \in covering : j <= i
        <5>1. covering \subseteq 1 .. n
          OBVIOUS
        <5> HIDE DEF covering
        <5> QED BY <1>1, <2>4, <5>1, GreatestElement
      <4> HIDE DEF covering
      <4> QED BY <4>1
    <3> HIDE DEF last
    <3>2. PICK j \in 1 .. Len(L) : e[j] = last
      BY <1>9, <2>1, <3>1
    <3>3. j \in 1 .. Len(segs) /\ Holds(segs[j], a) /\ L[j] = h
      BY <1>3, <1>8, <2>1, <3>1, <3>2
    <3>4. ASSUME NEW k \in 1 .. Len(segs), Holds(segs[k], a) PROVE k <= j
      <4>1. e[k] \in covering
        BY <1>3, <1>8, <2>1, <3>4
      <4>2. e[k] <= e[j]
        BY <3>1, <3>2, <4>1
      <4>3. j < k => e[j] < e[k]
        BY <1>2, <1>3, <3>3 DEF IsSelection
      <4>4. e[k] \in Nat /\ e[j] \in Nat /\ k \in Nat /\ j \in Nat
        BY <1>1, <1>3, <1>8, <2>1
      <4> QED BY <4>2, <4>3, <4>4
    <3>5. m[a] = segs[j].data[a - segs[j].vaddr]
      BY <1>5, <3>3, <3>4 DEF IsCopied
    <3>6. segs[j].data = SegmentData(elf_file, h) /\ segs[j].vaddr = h.vaddr
      BY <1>3, <1>4, <3>3
    <3>7. a - h.vaddr \in 0 .. h.memsz - 1
      BY <3>3, <3>6 DEF Holds, SegmentData
    <3>8. m[a] = IF a - h.vaddr < h.filesz THEN elf_file.bytes[h.offset + (a - h.vaddr)] ELSE 0
      BY <3>5, <3>6, <3>7 DEF SegmentData
    <3>9. h.offset + (a - h.vaddr) = h.offset + a - h.vaddr
      <4>1. h \in ProgramHeader
        BY <1>1, <3>1
      <4>2. h.offset \in Nat /\ h.vaddr \in Nat
        BY <4>1, WordValuesType DEF ProgramHeader, Address
      <4> HIDE DEF h
      <4> QED BY <2>1, <4>2
    <3> HIDE DEF h, covering
    <3> QED BY <2>2, <2>4, <3>8, <3>9
  <2> QED BY <2>3, <2>4
<1>12. /\ \A a \in Address : (\E i \in DOMAIN headers : Covers(headers[i], a)) => a \in DOMAIN m
       /\ StackPointer - StackSize .. StackPointer - 1 \subseteq DOMAIN m
       /\ \A a \in DOMAIN m : m[a] = ImageByte(elf_file, a)
  BY <1>1, <1>6, <1>7, <1>10, <1>11
<1> QED BY <1>12 DEF m, segs, headers

-----------------------------------------------------------------------------
(* Types.  What the phases before the listing leave is needed with them:   *)
(* the loader's result is whole when it is taken, and the walk over the    *)
(* segments begins at the first.                                           *)

Line == [pc : Address, word : Address, marked : BOOLEAN]

TypeInv ==
    /\ TypeOK
    /\ file \in Files
    /\ IsSegments(elf) /\ IsSegments(segments)
    /\ phase = "construct" => Loadable(file) /\ elf = Segments(file)
    /\ phase \notin {"segment", "scan", "list", "finish", "returned"} => seg = 1
    /\ lines \in Seq(Line)

LEMMA NoSegments == IsSegments(<<>>)
BY DEF IsSegments

LEMMA FetchedWordType ==
    ASSUME TypeInv
    PROVE  FetchedWord \in Address
<1>1. /\ pc \in Address /\ pc \in Nat
      /\ 0 \in Address
      /\ \A a \in DOMAIN mem : mem[a] \in Byte
      /\ Weight(4) = WordValues
  BY WordValuesType DEF TypeInv, TypeOK, Address, WordValues
<1> DEFINE size == 4
<1>2. size \in AccessSize /\ size = 4
  BY DEF AccessSize
<1> HIDE DEF size
<1>3. ASSUME FetchFault(mem, pc) = NoFault PROVE Fetched(mem, pc, size) \in Address
  <2>1. LET f == AccessFault(mem, pc, size, "INSTRUCTION_ADDRESS_MISALIGNED", "INSTRUCTION_ACCESS_FAULT")
        IN  \/ f = NoFault /\ Bytes(pc, size) \subseteq DOMAIN mem
            \/ f.cause \in {"INSTRUCTION_ADDRESS_MISALIGNED", "INSTRUCTION_ACCESS_FAULT"}
    BY <1>1, <1>2, AccessFaultCases
  <2>2. Bytes(pc, size) \subseteq DOMAIN mem
    BY <1>2, <1>3, <2>1 DEF FetchFault, NoFault
  <2>3. Fetched(mem, pc, size) \in 0 .. Weight(size) - 1
    BY <1>1, <1>2, <2>2, FetchedType
  <2> QED BY <1>1, <1>2, <2>3 DEF Address
<1> QED BY <1>1, <1>2, <1>3 DEF FetchedWord

LEMMA WalkStartType ==
    ASSUME NEW s \in SegmentRecord, Placed(s)
    PROVE  WalkStart(s) \in Address /\ s.vaddr <= WalkStart(s) /\ WalkStart(s) <= End(s)
<1> DEFINE skip == HeadersEnd(s)
<1>1. s.vaddr \in Address /\ s.size \in Nat /\ s.vaddr + s.size <= WordValues - 1
  BY DEF SegmentRecord, Placed
<1>2. HoldsHeader(s) => skip \in Nat
  <2> SUFFICES ASSUME HoldsHeader(s) PROVE skip \in Nat
    OBVIOUS
  <2>1. /\ s.data \in [0 .. s.size - 1 -> Byte] /\ s.size >= HeaderSize
        /\ HeaderSize \in Nat
    BY LoaderAssumption DEF Placed, HoldsHeader
  <2>2. ASSUME NEW at \in Nat, NEW size \in {2, 4}, at + size <= HeaderSize
        PROVE  Fetched(s.data, at, size) \in Nat
    <3>1. Bytes(at, size) \subseteq DOMAIN s.data /\ \A a \in DOMAIN s.data : s.data[a] \in Byte
      BY <1>1, <2>1, <2>2 DEF Bytes
    <3>2. size \in AccessSize
      BY <2>2 DEF AccessSize
    <3> DEFINE data == s.data
    <3> HIDE DEF data
    <3>3. Bytes(at, size) \subseteq DOMAIN data /\ \A a \in DOMAIN data : data[a] \in Byte
      BY <3>1 DEF data
    <3>4. Fetched(data, at, size) \in 0 .. Weight(size) - 1
      BY <2>2, <3>2, <3>3, FetchedType
    <3> QED BY <3>4 DEF data
  <2>3. /\ Fetched(s.data, PhoffAt, 4) \in Nat
        /\ Fetched(s.data, PhentsizeAt, 2) \in Nat
        /\ Fetched(s.data, PhnumAt, 2) \in Nat
    BY <2>2, DriverAssumption
  <2>4. Fetched(s.data, PhentsizeAt, 2) * Fetched(s.data, PhnumAt, 2) \in Nat
    BY <2>3, ProductIsNat
  <2> HIDE DEF skip
  <2>5. skip \in Address
    BY <2>3, <2>4, WrapType DEF skip, HeadersEnd
  <2> QED BY <2>5, WordValuesType DEF Address
<1> HIDE DEF skip
<1> QED BY <1>1, <1>2, WordValuesType DEF WalkStart, End, Address, skip

LEMMA TypeInit == Init => TypeInv
<1> SUFFICES ASSUME Init PROVE TypeInv
  OBVIOUS
<1>1. DOMAIN <<>> = {} /\ 0 \in Address /\ <<>> \in Seq(Line) /\ Len(<<>>) = 0
  BY WordValuesType DEF Address
<1>2. DOMAIN mem = {} /\ 1 \in 1 .. Len(segments) + 1 /\ seg = 1
  BY <1>1 DEF Init
<1>3. \A a \in DOMAIN mem : a \in Address /\ mem[a] \in Byte
  BY <1>2
<1>4. TypeOK
  BY <1>1, <1>2, <1>3 DEF Init, TypeOK
<1> QED BY <1>1, <1>4, NoSegments DEF Init, TypeInv

LEMMA PrepareType == TypeInv /\ Prepare => TypeInv'
<1> SUFFICES ASSUME TypeInv, Prepare PROVE TypeInv'
  OBVIOUS
<1>1. /\ UNCHANGED <<starting, elf, segments, machine, report, cursor, lines, verdict>>
      /\ seg = 1
      /\ temp \subseteq {"out", "runtime"} /\ guarded \subseteq {"out", "runtime"}
  BY DEF Prepare, TakeElf, FindCompiler, CreateRuntime, WriteRuntime, Compile, TypeInv, TypeOK
<1>2. /\ phase' \in {"runtime", "write", "compile", "load", "returned"}
      /\ temp' \subseteq {"out", "runtime"} /\ guarded' \subseteq {"out", "runtime"}
  BY <1>1 DEF Prepare, TakeElf, FindCompiler, CreateRuntime, WriteRuntime, Compile, Leave, Continue,
              RegistersRuntime
<1>3. TypeOK'
  BY <1>1, <1>2 DEF TypeInv, TypeOK, starting, machine, cursor
<1> QED BY <1>1, <1>2, <1>3 DEF TypeInv, starting, machine, cursor

LEMMA LoadType == TypeInv /\ Load => TypeInv'
<1> SUFFICES ASSUME TypeInv, Load PROVE TypeInv'
  OBVIOUS
<1>1. /\ UNCHANGED <<starting, guarded, segments, machine, report, cursor, lines, verdict>>
      /\ seg = 1
  BY DEF Load, TypeInv
<1>2. /\ phase' \in {"construct", "returned"}
      /\ temp' \subseteq {"out", "runtime"}
  BY DEF Load, Leave, Continue, TypeInv, TypeOK
<1>3. TypeOK'
  BY <1>1, <1>2 DEF TypeInv, TypeOK, starting, machine, cursor
<1>4. IsSegments(elf') /\ (phase' = "construct" => Loadable(file) /\ elf' = Segments(file))
  BY SegmentsLoaded DEF Load, Continue, Leave, TypeInv
<1> QED BY <1>1, <1>2, <1>3, <1>4 DEF TypeInv, starting, machine, cursor

LEMMA ConstructType == TypeInv /\ Construct => TypeInv'
<1> SUFFICES ASSUME TypeInv, Construct PROVE TypeInv'
  OBVIOUS
<1>1. /\ UNCHANGED <<starting, guarded, halt_reason, exit_code, cursor, lines>>
      /\ phase' = "run" /\ temp' = temp /\ seg = 1
      /\ elf' = <<>> /\ segments' \in {elf, <<>>}
      /\ mem' = Constructed(elf)
  BY DEF Construct, Continue, TypeInv
<1>2. IsSegments(elf') /\ IsSegments(segments')
  BY <1>1, NoSegments DEF TypeInv
<1>3. IsCopied(mem', Mapped(elf), elf, Len(elf)) /\ Mapped(elf) \subseteq Address
  BY <1>1, ConstructedEffect, MappedEffect DEF TypeInv
<1>4. \A a \in DOMAIN mem' : a \in Address /\ mem'[a] \in Byte
  BY <1>3 DEF IsCopied
<1>5. Len(segments') \in Nat
  BY <1>2 DEF IsSegments
<1>6. TypeOK'
  BY <1>1, <1>4, <1>5 DEF TypeInv, TypeOK, starting, cursor
<1> QED BY <1>1, <1>2, <1>6 DEF TypeInv, starting, cursor

LEMMA RunStoresType == TypeInv /\ RunStores => TypeInv'
<1> SUFFICES ASSUME TypeInv, RunStores PROVE TypeInv'
  OBVIOUS
<1>1. /\ UNCHANGED <<phase, starting, temp, guarded, elf, segments, halt_reason, exit_code, cursor, lines>>
      /\ phase = "run" /\ seg = 1
  BY DEF RunStores, TypeInv
<1>2. PICK w \in Writes : w[1] \in DOMAIN mem /\ mem' = Stored(mem, w[1], 1, w[2])
  BY DEF RunStores
<1>3. w[1] \in Address /\ w[2] \in Int
  BY <1>2, DriverAssumption, MemoryAssumption DEF Byte
<1> DEFINE size == 1
<1>4. size \in AccessSize /\ mem' = Stored(mem, w[1], size, w[2])
  BY <1>2 DEF AccessSize
<1> HIDE DEF size
<1>5. DOMAIN mem' = DOMAIN mem /\ \A a \in DOMAIN mem : mem'[a] \in Byte
  BY <1>3, <1>4, StoredEffect DEF TypeInv, TypeOK
<1>6. TypeOK'
  BY <1>1, <1>5 DEF TypeInv, TypeOK, starting, cursor
<1> QED BY <1>1, <1>6 DEF TypeInv, starting, cursor

LEMMA RunHaltsType == TypeInv /\ RunHalts => TypeInv'
<1> SUFFICES ASSUME TypeInv, RunHalts PROVE TypeInv'
  OBVIOUS
<1>1. /\ UNCHANGED <<starting, temp, guarded, elf, segments, mem, cursor, lines>>
      /\ phase' = "report" /\ seg = 1
      /\ halt_reason' \in {"ECALL", "EBREAK", "TRAP"} /\ exit_code' \in BOOLEAN
  BY DEF RunHalts, Continue, TypeInv
<1>2. TypeOK'
  BY <1>1 DEF TypeInv, TypeOK, starting, cursor
<1> QED BY <1>1, <1>2 DEF TypeInv, starting, cursor

LEMMA WriteReportType == TypeInv /\ WriteReport => TypeInv'
<1> SUFFICES ASSUME TypeInv, WriteReport PROVE TypeInv'
  OBVIOUS
<1>1. /\ UNCHANGED <<starting, guarded, elf, segments, machine, cursor, lines>>
      /\ phase' \in {"returned", "segment", "finish"} /\ seg = 1
      /\ temp' \subseteq {"out", "runtime"}
  BY DEF WriteReport, Leave, Continue, TypeInv, TypeOK
<1>2. TypeOK'
  BY <1>1 DEF TypeInv, TypeOK, starting, machine, cursor
<1> QED BY <1>1, <1>2 DEF TypeInv, starting, machine, cursor

LEMMA ListingType == TypeInv /\ print_disassembly => TypeInv'
<1> SUFFICES ASSUME TypeInv, print_disassembly PROVE TypeInv'
  OBVIOUS
<1>1. /\ UNCHANGED <<starting, guarded, elf, segments, mem, exit_code, entries>>
      /\ temp' = temp
  BY DEF print_disassembly, EnterSegment, Scan, List, NextSegment, Continue
<1>2. /\ Len(segments) \in Nat /\ DOMAIN segments = 1 .. Len(segments)
      /\ \A i \in 1 .. Len(segments) : segments[i] \in SegmentRecord /\ Placed(segments[i])
  BY DEF TypeInv, IsSegments
<1>3. /\ seg \in 1 .. Len(segments) + 1
      /\ pc \in Address /\ first_pc \in Address /\ last_pc \in Address /\ 0 \in Address
      /\ halt_reason \in {"NONE", "ECALL", "EBREAK", "TRAP"}
      /\ phase \in {"scan", "list"} => seg \in DOMAIN segments
  BY WordValuesType DEF TypeInv, TypeOK, Address
<1>4. Wrap(pc + 4) \in Address
  BY <1>3, WrapType, WordValuesType DEF Address
<1> DEFINE Sound == /\ phase' \in {"segment", "scan", "list", "finish"}
                    /\ halt_reason' \in {"NONE", "ECALL", "EBREAK", "TRAP"}
                    /\ pc' \in Address /\ first_pc' \in Address /\ last_pc' \in Address
                    /\ seg' \in 1 .. Len(segments) + 1
                    /\ phase' \in {"scan", "list"} => seg' \in DOMAIN segments
                    /\ lines' \in Seq(Line)
<1>5. ASSUME EnterSegment PROVE Sound
  <2>1. CASE seg > Len(segments)
    BY <1>3, <1>5, <2>1 DEF EnterSegment, Continue, cursor, TypeInv
  <2>2. CASE ~ (seg > Len(segments))
    <3>1. seg \in DOMAIN segments /\ seg + 1 \in 1 .. Len(segments) + 1
      BY <1>2, <1>3, <2>2
    <3>2. CASE ~segments[seg].executable
      BY <1>3, <1>5, <2>2, <3>1, <3>2 DEF EnterSegment, NextSegment, Continue, TypeInv
    <3>3. CASE segments[seg].executable
      <4>1. WalkStart(segments[seg]) \in Address
        BY <1>2, <3>1, WalkStartType
      <4> QED BY <1>3, <1>5, <2>2, <3>1, <3>3, <4>1 DEF EnterSegment, Continue, TypeInv
    <3> QED BY <3>2, <3>3
  <2> QED BY <2>1, <2>2
<1>6. ASSUME Scan PROVE Sound
  <2>1. seg \in DOMAIN segments /\ seg + 1 \in 1 .. Len(segments) + 1
    BY <1>2, <1>3, <1>6 DEF Scan
  <2>2. CASE MoreToScan(segments[seg])
    BY <1>3, <1>4, <1>6, <2>1, <2>2 DEF Scan, FirstOf, ScanNext, FetchTraps, TypeInv
  <2>3. CASE ~MoreToScan(segments[seg])
    BY <1>3, <1>6, <2>1, <2>3 DEF Scan, NextSegment, Continue, TypeInv
  <2> QED BY <2>2, <2>3
<1>7. ASSUME List PROVE Sound
  <2>1. seg \in DOMAIN segments /\ seg + 1 \in 1 .. Len(segments) + 1
    BY <1>2, <1>3, <1>7 DEF List
  <2>2. CASE pc <= last_pc
    <3>1. [pc |-> pc, word |-> FetchedWord, marked |-> pc \in entries] \in Line
      BY <1>3, FetchedWordType DEF Line
    <3>2. lines' \in Seq(Line)
      BY <1>7, <2>2, <3>1 DEF List, TypeInv
    <3> QED BY <1>3, <1>4, <1>7, <2>1, <2>2, <3>2 DEF List, FetchTraps
  <2>3. CASE ~ (pc <= last_pc)
    BY <1>3, <1>7, <2>1, <2>3 DEF List, NextSegment, Continue, TypeInv
  <2> QED BY <2>2, <2>3
<1>8. Sound
  <2> HIDE DEF Sound
  <2> QED BY <1>5, <1>6, <1>7 DEF print_disassembly
<1>9. TypeOK'
  BY <1>1, <1>8 DEF TypeInv, TypeOK
<1> QED BY <1>1, <1>8, <1>9 DEF TypeInv, starting

LEMMA FinishType == TypeInv /\ Finish => TypeInv'
<1> SUFFICES ASSUME TypeInv, Finish PROVE TypeInv'
  OBVIOUS
<1>1. /\ UNCHANGED <<starting, guarded, elf, segments, machine, cursor, lines>>
      /\ phase' = "returned" /\ temp' \subseteq {"out", "runtime"}
  BY DEF Finish, Leave, TypeInv, TypeOK
<1>2. TypeOK'
  BY <1>1 DEF TypeInv, TypeOK, starting, machine, cursor
<1> QED BY <1>1, <1>2 DEF TypeInv, starting, machine, cursor

LEMMA TypeStep == TypeInv /\ [Next]_vars => TypeInv'
<1>1. TypeInv /\ UNCHANGED vars => TypeInv'
  BY DEF vars, starting, machine, cursor, TypeInv, TypeOK
<1> QED BY <1>1, PrepareType, LoadType, ConstructType, RunStoresType, RunHaltsType, WriteReportType,
           ListingType, FinishType DEF Next, Main

LEMMA TypeInvariant == Spec => []TypeInv
BY TypeInit, TypeStep, PTL DEF Spec

LEMMA LineWord ==
    ASSUME TypeInv, NEW i \in DOMAIN lines
    PROVE  lines[i].word \in Address
<1>1. lines \in Seq(Line)
  BY DEF TypeInv
<1>2. lines[i] \in Line
  BY <1>1
<1> QED BY <1>2 DEF Line

\* TypeCorrect: for every file, word size and page size the listing stays inside
\* the segments and the address space, and memory holds bytes (disasm.cpp:191-238,
\* interpreter.cpp:272-297).
THEOREM TypeCorrect == Spec => []TypeOK
<1>1. TypeInv => TypeOK
  BY DEF TypeInv
<1> QED BY <1>1, TypeInvariant, PTL

\* ImageAlwaysLoaded: for every file the loader accepts, however its segments
\* overlap, the program starts with the image the headers describe
\* (loader.cpp:66-88, interpreter.cpp:272-297).
THEOREM ImageAlwaysLoaded == Spec => ImageIsLoaded
<1>1. TypeInv /\ [Next]_vars => [ConstructsImage]_vars
  <2> SUFFICES ASSUME TypeInv, Next, phase = "construct" PROVE ConstructsImage
    BY DEF ConstructsImage
  <2>1. Construct
    BY DEF Next, Main, Prepare, TakeElf, FindCompiler, CreateRuntime, WriteRuntime, Compile, Load,
           RunStores, RunHalts, WriteReport, print_disassembly, EnterSegment, Scan, List, Finish
  <2>2. file \in Files /\ Loadable(file) /\ mem' = Constructed(Segments(file))
    BY <2>1 DEF Construct, TypeInv
  <2> QED BY <2>2, ImageCopied DEF ConstructsImage
<1> QED BY <1>1, TypeInvariant, PTL DEF Spec, ImageIsLoaded

\* ImmediatesAlwaysEncoded: every line of every listing has the immediate the
\* instruction set puts into its word (decoder.cpp:17-41).
THEOREM ImmediatesAlwaysEncoded == Spec => []ImmediatesAsEncoded
<1>1. TypeInv => ImmediatesAsEncoded
  <2> SUFFICES ASSUME TypeInv, NEW i \in DOMAIN lines
               PROVE  LET d == Decoded[lines[i].word]
                      IN  d.imm = Encoded(d.raw, classify_opcode(d.opcode))
    BY DEF ImmediatesAsEncoded
  <2>1. lines[i].word \in Address
    BY LineWord
  <2>2. Instructions[lines[i].word] \in Word
    BY <2>1, DriverAssumption
  <2>3. Decoded[lines[i].word] = decode_raw_inst(Instructions[lines[i].word])
    BY <2>1 DEF Decoded
  <2> QED BY <2>2, <2>3, ImmediatesDecoded
<1> QED BY <1>1, TypeInvariant, PTL

\* AlwaysListedAsExecuted: for every word of every listing, what the interpreter
\* accepts is listed as it is executed (disasm.cpp:87-177, interpreter.cpp:90-281).
THEOREM AlwaysListedAsExecuted == Spec => []ListedAsExecuted
<1>1. TypeInv => ListedAsExecuted
  <2> SUFFICES ASSUME TypeInv, NEW i \in DOMAIN lines, ExecutedOf[lines[i].word] # Illegal
               PROVE  Assembled(TextOf[lines[i].word]) = ExecutedOf[lines[i].word]
    BY DEF ListedAsExecuted
  <2>1. lines[i].word \in Address
    BY LineWord
  <2> DEFINE n == lines[i].word
             d == decode_raw_inst(Instructions[n])
  <2>2. Instructions[n] \in Word
    BY <2>1, DriverAssumption
  <2>3. TextOf[n] = disassemble_instruction(d) /\ ExecutedOf[n] = Executed(d)
    BY <2>1 DEF Decoded, TextOf, ExecutedOf
  <2>4. AgreesOn(d)
    BY <2>2, WordsAgree
  <2> QED BY <2>3, <2>4 DEF AgreesOn
<1> QED BY <1>1, TypeInvariant, PTL

-----------------------------------------------------------------------------
(* The verdict.  The listing may disturb halt_reason by a fetch that traps.  *)
(* A walk that starts at a word stays on words of its segment, which are     *)
(* mapped, as long as the segment ends before the last word of the address   *)
(* space.  The walk over a segment that ends later never finds its end: it   *)
(* may trap, but no verdict follows.                                         *)

EndsEarly(s) == End(s) < WordValues - 4

SegmentsMapped ==
    phase \in {"run", "report", "segment", "scan", "list"} =>
        \A i \in 1 .. Len(segments) :
            segments[i].vaddr .. segments[i].vaddr + segments[i].size - 1 \subseteq DOMAIN mem

OnWords(s) ==
    /\ s.executable
    /\ pc % 4 = 0
    /\ phase = "list" => EndsEarly(s)
    /\ EndsEarly(s) =>
          /\ WalkStart(s) <= pc
          /\ phase = "scan" => pc <= End(s)
          /\ first_pc # 0 => /\ first_pc % 4 = 0 /\ WalkStart(s) <= first_pc
                             /\ last_pc + 4 <= End(s)
          /\ phase = "list" => last_pc + 4 <= End(s)
Aligned(s) == WalkStart(s) % 4 = 0
WalkInv ==
    phase \in {"scan", "list"} =>
        /\ segments[seg].executable
        /\ Aligned(segments[seg]) => OnWords(segments[seg])

Undisturbed ==
    \/ phase \in {"segment", "list", "finish"}
    \/ phase = "scan" /\ EndsEarly(segments[seg])
VerdictInv ==
    /\ phase # "returned" => verdict = NoReport
    /\ phase = "report" => (exit_code => halt_reason = "ECALL")
    /\ phase \in {"segment", "scan", "list", "finish"} =>
          /\ report = [halt_reason |-> report.halt_reason, exit_code |-> exit_code]
          /\ exit_code => report.halt_reason = "ECALL"
    /\ Undisturbed /\ WalksAligned => halt_reason = report.halt_reason
    /\ VerdictStands

LEMMA MappedStep == TypeInv /\ SegmentsMapped /\ [Next]_vars => SegmentsMapped'
<1> SUFFICES ASSUME TypeInv, SegmentsMapped, [Next]_vars PROVE SegmentsMapped'
  OBVIOUS
<1>1. CASE Construct
  <2>1. IsSegments(elf) /\ segments' \in {elf, <<>>} /\ mem' = Constructed(elf)
    BY <1>1 DEF Construct, TypeInv
  <2>2. DOMAIN mem' = Mapped(elf)
    BY <2>1, ConstructedEffect DEF IsCopied
  <2>3. \A i \in 1 .. Len(elf) :
            \A a \in elf[i].vaddr .. elf[i].vaddr + elf[i].size - 1 : a \in Mapped(elf)
    BY <2>1, MappedEffect
  <2>4. CASE segments' = elf
    BY <2>2, <2>3, <2>4 DEF SegmentsMapped
  <2>5. CASE segments' = <<>>
    BY <2>5 DEF SegmentsMapped
  <2> QED BY <2>1, <2>4, <2>5
<1>2. CASE RunStores
  <2>1. UNCHANGED <<phase, segments>> /\ DOMAIN mem' = DOMAIN mem
    BY <1>2 DEF RunStores, Stored
  <2> QED BY <2>1 DEF SegmentsMapped
<1>3. CASE Prepare \/ Load \/ Finish
  <2>1. phase' \notin {"run", "report", "segment", "scan", "list"}
    BY <1>3 DEF Prepare, TakeElf, FindCompiler, CreateRuntime, WriteRuntime, Compile, Load, Finish,
                Leave, Continue
  <2> QED BY <2>1 DEF SegmentsMapped
<1>4. CASE WriteReport \/ RunHalts \/ print_disassembly \/ UNCHANGED vars
  <2>1. /\ UNCHANGED <<segments, mem>>
        /\ phase' \in {"report", "segment", "scan", "list"}
              => phase \in {"run", "report", "segment", "scan", "list"}
        /\ phase' = "run" => phase = "run"
    BY <1>4 DEF WriteReport, RunHalts, print_disassembly, EnterSegment, Scan, List, NextSegment,
                Leave, Continue, machine, vars
  <2> QED BY <2>1 DEF SegmentsMapped
<1> QED BY <1>1, <1>2, <1>3, <1>4 DEF Next, Main

LEMMA WalkBounds ==
    ASSUME NEW s \in SegmentRecord, Placed(s)
    PROVE  /\ s.vaddr \in Nat /\ s.size \in Nat /\ WalkStart(s) \in Nat /\ End(s) \in Nat
           /\ s.vaddr + s.size <= WordValues - 1 /\ End(s) = s.vaddr + s.size
<1>1. s.vaddr \in Nat /\ s.size \in Nat
  BY WordValuesType DEF SegmentRecord, Address
<1>2. WalkStart(s) \in Nat
  BY WalkStartType, WordValuesType DEF Address
<1> QED BY <1>1, <1>2 DEF Placed, End

\* A fetch of a word of a segment does not trap.
LEMMA WordsAreFetched ==
    ASSUME TypeInv, SegmentsMapped, phase \in {"scan", "list"},
           LET s == segments[seg]
           IN  pc % 4 = 0 /\ WalkStart(s) <= pc /\ pc + 4 <= End(s)
    PROVE  FetchFault(mem, pc) = NoFault
<1> DEFINE s == segments[seg]
<1>1. /\ seg \in 1 .. Len(segments) /\ s \in SegmentRecord /\ Placed(s)
      /\ pc \in Address
  BY DEF TypeInv, TypeOK, IsSegments
<1>2. s.vaddr .. s.vaddr + s.size - 1 \subseteq DOMAIN mem
  BY <1>1 DEF SegmentsMapped
<1>3. s.vaddr <= WalkStart(s)
  BY <1>1, WalkStartType
<1>4. /\ s.vaddr \in Nat /\ s.size \in Nat /\ pc \in Nat /\ WalkStart(s) \in Nat
      /\ s.vaddr + s.size <= WordValues - 1 /\ End(s) = s.vaddr + s.size
  BY <1>1, WalkBounds, WordValuesType DEF Address
<1> HIDE DEF s
<1>5. WalkStart(s) <= pc /\ pc + 4 <= End(s) /\ pc % 4 = 0
  BY DEF s
<1>6. Bytes(pc, 4) \subseteq s.vaddr .. s.vaddr + s.size - 1
  BY <1>3, <1>4, <1>5 DEF Bytes
<1>7. ~ (pc > WordValues - 4)
  BY <1>4, <1>5, WordValuesType
<1> QED BY <1>2, <1>5, <1>6, <1>7 DEF FetchFault, AccessFault

\* One iteration of the scan over a segment that ends early.
LEMMA ScanStaysOnWords ==
    ASSUME TypeInv, SegmentsMapped, Scan, phase = "scan", OnWords(segments[seg]),
           MoreToScan(segments[seg]), EndsEarly(segments[seg])
    PROVE  /\ pc + 4 <= End(segments[seg]) /\ Wrap(pc + 4) = pc + 4
           /\ FetchFault(mem, pc) = NoFault
<1> DEFINE s == segments[seg]
           e == End(s)
<1>1. /\ s \in SegmentRecord /\ Placed(s) /\ pc \in Nat
  BY DEF TypeInv, TypeOK, IsSegments, Address
<1>2. e \in Nat /\ WalkStart(s) \in Nat
  BY <1>1, WalkStartType, WordValuesType DEF SegmentRecord, End, Address
<1>3. pc <= e /\ e < WordValues - 4 /\ Wrap(pc + 4) <= e /\ WalkStart(s) <= pc /\ pc % 4 = 0
  BY DEF OnWords, EndsEarly, MoreToScan
<1> HIDE DEF s, e
<1>4. pc + 4 \in Address
  BY <1>1, <1>2, <1>3, WordValuesType DEF Address
<1>5. Wrap(pc + 4) = pc + 4
  BY <1>4, WrapIsIdentity
<1>6. pc + 4 <= e
  BY <1>3, <1>5
<1>7. FetchFault(mem, pc) = NoFault
  BY <1>3, <1>6, WordsAreFetched DEF s, e
<1> QED BY <1>5, <1>6, <1>7 DEF s, e

\* A segment that reaches the last word is never left.
LEMMA LateSegmentsNeverEnd ==
    ASSUME NEW s \in SegmentRecord, pc \in Address, pc % 4 = 0, ~EndsEarly(s)
    PROVE  MoreToScan(s)
<1>1. WordValues \in Nat /\ WordValues % 4 = 0 /\ pc \in Nat /\ pc < WordValues /\ End(s) \in Nat
  BY WordValuesType, WordsFit DEF Address, SegmentRecord, End
<1>2. End(s) >= WordValues - 4
  BY <1>1 DEF EndsEarly
<1>3. CASE pc = WordValues - 4
  BY <1>1, <1>3 DEF MoreToScan, Wrap
<1>4. CASE pc # WordValues - 4
  <2> DEFINE W == WordValues
  <2>1. pc + 4 <= W - 4
    <3> HIDE DEF W
    <3>1. W \in Nat /\ W % 4 = 0 /\ pc < W /\ pc # W - 4 /\ pc \in Nat /\ pc % 4 = 0
      BY <1>1, <1>4 DEF W
    <3> QED BY <3>1
  <2>2. pc + 4 \in Address
    BY <1>1, <2>1 DEF Address
  <2>3. Wrap(pc + 4) = pc + 4
    BY <2>2, WrapIsIdentity
  <2> QED BY <1>1, <1>2, <2>1, <2>3 DEF MoreToScan
<1> QED BY <1>3, <1>4

LEMMA WalkedIsExecutable ==
    ASSUME TypeInv, WalkInv, [Next]_vars, phase' \in {"scan", "list"}
    PROVE  segments'[seg'].executable
<1>1. CASE UNCHANGED vars
  BY <1>1 DEF vars, cursor, WalkInv
<1>2. CASE Next
  <2>1. print_disassembly
    BY <1>2 DEF Next, Main, Prepare, TakeElf, FindCompiler, CreateRuntime, WriteRuntime, Compile,
                Load, Construct, RunStores, RunHalts, WriteReport, Finish, Leave, Continue
  <2>2. segments' = segments
    BY <2>1 DEF print_disassembly
  <2>3. CASE EnterSegment
    BY <2>2, <2>3 DEF EnterSegment, NextSegment, Continue
  <2>4. CASE Scan
    <3>1. phase = "scan" /\ seg' = seg
      BY <2>4 DEF Scan, NextSegment, Continue
    <3> QED BY <2>2, <3>1 DEF WalkInv
  <2>5. CASE List
    <3>1. phase = "list" /\ seg' = seg
      BY <2>5 DEF List, NextSegment, Continue
    <3> QED BY <2>2, <3>1 DEF WalkInv
  <2> QED BY <2>1, <2>3, <2>4, <2>5 DEF print_disassembly
<1> QED BY <1>1, <1>2

LEMMA WalkStep == TypeInv /\ SegmentsMapped /\ WalkInv /\ [Next]_vars => WalkInv'
<1> SUFFICES ASSUME TypeInv, SegmentsMapped, WalkInv, [Next]_vars, phase' \in {"scan", "list"},
                    Aligned(segments[seg])'
             PROVE  OnWords(segments[seg])'
  BY WalkedIsExecutable DEF WalkInv
<1>1. CASE UNCHANGED vars
  <2>1. /\ UNCHANGED <<phase, segments, seg, pc, first_pc, last_pc>>
        /\ phase \in {"scan", "list"}
    BY <1>1 DEF vars, cursor
  <2>2. Aligned(segments[seg])
    BY <2>1 DEF Aligned, WalkStart
  <2>3. OnWords(segments[seg])
    BY <2>1, <2>2 DEF WalkInv
  <2> QED BY <2>1, <2>3 DEF OnWords, EndsEarly, End, WalkStart
<1>2. CASE Next
  <2>1. print_disassembly
    BY <1>2 DEF Next, Main, Prepare, TakeElf, FindCompiler, CreateRuntime, WriteRuntime, Compile,
                Load, Construct, RunStores, RunHalts, WriteReport, Finish, Leave, Continue
  <2>2. segments' = segments /\ (seg' = seg => Aligned(segments[seg]))
    BY <2>1 DEF print_disassembly, Aligned, WalkStart
  <2>3. /\ \A i \in 1 .. Len(segments) : segments[i] \in SegmentRecord /\ Placed(segments[i])
        /\ DOMAIN segments = 1 .. Len(segments) /\ Len(segments) \in Nat
        /\ seg \in 1 .. Len(segments) + 1
        /\ phase \in {"scan", "list"} => seg \in DOMAIN segments
        /\ pc \in Nat /\ first_pc \in Nat /\ last_pc \in Nat /\ pc \in Address
    BY WordValuesType DEF TypeInv, TypeOK, IsSegments, Address
  <2>4. CASE EnterSegment
    <3> DEFINE s == segments[seg]
    <3>1. /\ seg \in DOMAIN segments /\ s.executable /\ phase' = "scan"
          /\ pc' = WalkStart(s) /\ first_pc' = 0 /\ last_pc' = 0 /\ seg' = seg
      BY <2>3, <2>4 DEF EnterSegment, NextSegment, Continue
    <3>2. WalkStart(s) % 4 = 0
      BY <2>2, <3>1 DEF Aligned
    <3>3. WalkStart(s) \in Nat /\ WalkStart(s) <= End(s)
      BY <2>3, <3>1, WalkStartType, WordValuesType DEF Address
    <3>4. End(s)' = End(s) /\ WalkStart(s)' = WalkStart(s) /\ EndsEarly(s)' = EndsEarly(s)
      BY <2>2, <3>1 DEF End, WalkStart, EndsEarly
    <3>5. s' = s
      BY <2>2, <3>1
    <3> QED BY <3>1, <3>2, <3>3, <3>4, <3>5 DEF OnWords
  <2>5. CASE Scan
    <3> DEFINE s == segments[seg]
    <3>2. seg' = seg
      BY <2>5 DEF Scan, NextSegment, Continue
    <3>1. phase = "scan" /\ s \in SegmentRecord /\ Placed(s) /\ OnWords(s)
      BY <2>2, <2>3, <2>5, <3>2 DEF Scan, WalkInv
    <3>3. s' = s /\ End(s)' = End(s) /\ WalkStart(s)' = WalkStart(s) /\ EndsEarly(s)' = EndsEarly(s)
      BY <2>2, <3>2 DEF End, WalkStart, EndsEarly
    <3>4. CASE MoreToScan(s)
      <4>1. /\ phase' = "scan" /\ pc' = Wrap(pc + 4)
            /\ first_pc' \in {first_pc, pc} /\ last_pc' \in {last_pc, pc}
            /\ first_pc' # 0 => first_pc # 0 \/ (first_pc' = pc /\ last_pc' = pc)
        BY <2>5, <3>1, <3>4 DEF Scan, ScanNext, FirstOf
      <4>2. pc' % 4 = 0
        <5>1. pc % 4 = 0 /\ WordValues % 4 = 0 /\ WordValues \in Nat \ {0} /\ pc < WordValues
          BY <2>3, <3>1, WordsFit, WordValuesType DEF OnWords, Address
        <5>2. pc + 4 <= WordValues
          BY <2>3, <5>1
        <5>3. CASE pc + 4 = WordValues
          BY <4>1, <5>1, <5>3 DEF Wrap
        <5>4. CASE pc + 4 < WordValues
          <6>1. Wrap(pc + 4) = pc + 4
            BY <2>3, <5>1, <5>4, WrapIsIdentity DEF Address
          <6> QED BY <2>3, <4>1, <5>1, <6>1
        <5> QED BY <2>3, <5>1, <5>2, <5>3, <5>4
      <4>3. ASSUME EndsEarly(s)
            PROVE  /\ WalkStart(s) <= pc' /\ pc' <= End(s)
                   /\ first_pc' # 0 => /\ first_pc' % 4 = 0 /\ WalkStart(s) <= first_pc'
                                       /\ last_pc' + 4 <= End(s)
        <5>1. pc + 4 <= End(s) /\ pc' = pc + 4
          BY <2>5, <3>1, <3>4, <4>1, <4>3, ScanStaysOnWords
        <5>2. /\ WalkStart(s) <= pc /\ pc % 4 = 0
              /\ first_pc # 0 => /\ first_pc % 4 = 0 /\ WalkStart(s) <= first_pc
                                 /\ last_pc + 4 <= End(s)
          BY <3>1, <4>3 DEF OnWords
        <5>3. WalkStart(s) \in Nat
          BY <3>1, WalkStartType, WordValuesType DEF Address
        <5> HIDE DEF s
        <5>4. WalkStart(s) <= pc' /\ pc' <= End(s)
          BY <2>3, <5>1, <5>2, <5>3
        <5>5. ASSUME first_pc' # 0
              PROVE  first_pc' % 4 = 0 /\ WalkStart(s) <= first_pc' /\ last_pc' + 4 <= End(s)
          <6>1. CASE first_pc # 0
            <7>1. first_pc % 4 = 0 /\ WalkStart(s) <= first_pc /\ last_pc + 4 <= End(s)
              BY <5>2, <6>1
            <7>2. first_pc' % 4 = 0 /\ WalkStart(s) <= first_pc'
              BY <4>1, <5>2, <7>1
            <7>3. last_pc' + 4 <= End(s)
              BY <4>1, <5>1, <7>1
            <7> QED BY <7>2, <7>3
          <6>2. CASE first_pc' = pc /\ last_pc' = pc
            BY <5>1, <5>2, <6>2
          <6> QED BY <4>1, <5>5, <6>1, <6>2
        <5> QED BY <5>4, <5>5
      <4>4. s.executable
        BY <3>1 DEF OnWords
      <4> QED BY <3>3, <4>1, <4>2, <4>3, <4>4 DEF OnWords
    <3>5. CASE ~MoreToScan(s)
      <4>1. /\ phase' = "list" /\ first_pc # 0 /\ pc' = first_pc
            /\ first_pc' = first_pc /\ last_pc' = last_pc
        BY <2>5, <3>1, <3>5 DEF Scan, NextSegment, Continue
      <4>2. EndsEarly(s)
        BY <2>3, <3>1, <3>5, LateSegmentsNeverEnd DEF OnWords
      <4> QED BY <3>1, <3>3, <4>1, <4>2 DEF OnWords
    <3> QED BY <3>4, <3>5
  <2>6. CASE List
    <3> DEFINE s == segments[seg]
    <3>2. /\ phase' = "list" /\ pc <= last_pc /\ pc' = Wrap(pc + 4) /\ seg' = seg
          /\ first_pc' = first_pc /\ last_pc' = last_pc
      BY <2>6 DEF List, NextSegment, Continue
    <3>1. phase = "list" /\ s \in SegmentRecord /\ Placed(s) /\ OnWords(s)
      BY <2>2, <2>3, <2>6, <3>2 DEF List, WalkInv
    <3>3. s' = s /\ End(s)' = End(s) /\ WalkStart(s)' = WalkStart(s) /\ EndsEarly(s)' = EndsEarly(s)
      BY <2>2, <3>2 DEF End, WalkStart, EndsEarly
    <3>4. /\ EndsEarly(s) /\ last_pc + 4 <= End(s) /\ WalkStart(s) <= pc /\ pc % 4 = 0
          /\ End(s) < WordValues - 4 /\ s.executable
          /\ first_pc # 0 => first_pc % 4 = 0 /\ WalkStart(s) <= first_pc
      BY <3>1 DEF OnWords, EndsEarly
    <3>5. WalkStart(s) \in Nat /\ End(s) \in Nat
      BY <3>1, WalkStartType, WordValuesType DEF Address, SegmentRecord, End
    <3> HIDE DEF s
    <3>6. pc' = pc + 4
      <4>1. pc + 4 \in Address
        BY <2>3, <3>2, <3>4, <3>5, WordValuesType DEF Address
      <4> QED BY <3>2, <4>1, WrapIsIdentity
    <3>7. WalkStart(s) <= pc' /\ pc' % 4 = 0
      BY <2>3, <3>4, <3>5, <3>6
    <3>8. OnWords(s)'
      BY <3>2, <3>3, <3>4, <3>7 DEF OnWords
    <3> QED BY <3>3, <3>8 DEF s, OnWords
  <2> QED BY <2>1, <2>4, <2>5, <2>6 DEF print_disassembly
<1> QED BY <1>1, <1>2

LEMMA VerdictStep ==
    TypeInv /\ SegmentsMapped /\ WalkInv /\ VerdictInv /\ [Next]_vars => VerdictInv'
<1> SUFFICES ASSUME TypeInv, SegmentsMapped, WalkInv, VerdictInv, [Next]_vars PROVE VerdictInv'
  OBVIOUS
<1> USE DEF VerdictInv, VerdictStands, Undisturbed
<1>1. CASE Prepare \/ Load \/ Construct \/ RunStores
  <2>1. /\ UNCHANGED <<report, verdict>>
        /\ phase # "returned"
        /\ phase' \notin {"report", "segment", "scan", "list", "finish"}
    BY <1>1 DEF Prepare, TakeElf, FindCompiler, CreateRuntime, WriteRuntime, Compile, Load,
                Construct, RunStores, Leave, Continue
  <2> QED BY <2>1
<1>2. CASE RunHalts
  <2>1. /\ phase' = "report" /\ phase = "run" /\ UNCHANGED <<report, verdict>>
        /\ exit_code' => halt_reason' = "ECALL"
    BY <1>2 DEF RunHalts, Continue
  <2> QED BY <2>1
<1>3. CASE WriteReport
  <2>1. /\ phase = "report" /\ UNCHANGED <<halt_reason, exit_code, verdict>>
        /\ \/ phase' = "returned"
           \/ /\ phase' \in {"segment", "finish"}
              /\ report' = [halt_reason |-> halt_reason, exit_code |-> exit_code]
    BY <1>3 DEF WriteReport, Leave, Continue, machine
  <2> QED BY <2>1
<1>4. CASE print_disassembly
  <2>1. UNCHANGED <<segments, exit_code, report, verdict>> /\ WalksAligned' = WalksAligned
    BY <1>4 DEF print_disassembly, WalksAligned, WalkStart
  <2>2. /\ phase \in {"segment", "scan", "list"}
        /\ phase' \in {"segment", "scan", "list", "finish"}
    BY <1>4 DEF print_disassembly, EnterSegment, Scan, List, NextSegment, Continue
  <2>3. ASSUME Undisturbed', WalksAligned PROVE halt_reason' = report.halt_reason
    <3> DEFINE s == segments[seg]
    <3>1. CASE EnterSegment
      BY <2>3, <3>1 DEF EnterSegment
    <3>2. CASE Scan
      <4>1. /\ phase = "scan" /\ s \in SegmentRecord /\ OnWords(s)
            /\ pc \in Address
        BY <2>3, <3>2 DEF Scan, WalkInv, WalksAligned, Aligned, TypeInv, TypeOK, IsSegments
      <4>2. CASE MoreToScan(s)
        <5>1. phase' = "scan" /\ seg' = seg /\ FetchTraps
          BY <3>2, <4>1, <4>2 DEF Scan
        <5>2. EndsEarly(s)
          BY <2>1, <2>3, <5>1 DEF EndsEarly, End
        <5>3. FetchFault(mem, pc) = NoFault
          BY <3>2, <4>1, <4>2, <5>2, ScanStaysOnWords
        <5> QED BY <2>3, <4>1, <5>1, <5>2, <5>3 DEF FetchTraps
      <4>3. CASE ~MoreToScan(s)
        <5>1. halt_reason' = halt_reason
          BY <3>2, <4>3 DEF Scan
        <5>2. EndsEarly(s)
          BY <4>1, <4>3, LateSegmentsNeverEnd DEF OnWords
        <5> QED BY <2>3, <4>1, <5>1, <5>2
      <4> QED BY <4>2, <4>3
    <3>3. CASE List
      <4>1. phase = "list" /\ OnWords(s)
        BY <2>3, <3>3 DEF List, WalkInv, WalksAligned, Aligned, TypeInv, TypeOK
      <4>2. CASE pc <= last_pc
        <5>1. /\ pc \in Nat /\ last_pc \in Nat /\ s \in SegmentRecord /\ End(s) \in Nat
          <6>1. s \in SegmentRecord /\ Placed(s)
            BY <4>1 DEF TypeInv, TypeOK, IsSegments
          <6>2. pc \in Nat /\ last_pc \in Nat
            BY WordValuesType DEF TypeInv, TypeOK, Address
          <6> QED BY <6>1, <6>2, WalkBounds
        <5>2. last_pc + 4 <= End(s) /\ WalkStart(s) <= pc /\ pc % 4 = 0
          BY <4>1 DEF OnWords
        <5>3. pc + 4 <= End(s)
          BY <4>2, <5>1, <5>2
        <5>4. FetchFault(mem, pc) = NoFault
          BY <4>1, <5>2, <5>3, WordsAreFetched
        <5>5. FetchTraps
          BY <3>3, <4>2 DEF List
        <5> QED BY <2>3, <4>1, <5>4, <5>5 DEF FetchTraps
      <4>3. CASE ~ (pc <= last_pc)
        BY <2>3, <3>3, <4>1, <4>3 DEF List
      <4> QED BY <4>2, <4>3
    <3> QED BY <1>4, <3>1, <3>2, <3>3 DEF print_disassembly
  <2> QED BY <2>1, <2>2, <2>3
<1>5. CASE Finish
  <2>1. /\ phase = "finish" /\ phase' = "returned" /\ UNCHANGED <<segments, report>>
        /\ verdict' = [halt_reason |-> IF exit_code THEN "ECALL" ELSE halt_reason,
                       exit_code |-> exit_code]
    BY <1>5 DEF Finish, Leave
  <2>2. WalksAligned' = WalksAligned
    BY <2>1 DEF WalksAligned, WalkStart
  <2>3. WalksAligned => verdict' = [halt_reason |-> report.halt_reason, exit_code |-> exit_code]
    BY <2>1
  <2> QED BY <2>1, <2>2, <2>3
<1>6. CASE UNCHANGED vars
  BY <1>6 DEF vars, machine, cursor, WalksAligned, EndsEarly, End, WalkStart
<1> QED BY <1>1, <1>2, <1>3, <1>4, <1>5, <1>6 DEF Next, Main

\* VerdictAlwaysStands: for every file, however its segments lie, the program
\* ends by saying what the report says if every executable segment is walked
\* from a word (main.cpp:744-787, disasm.cpp:203-238).
THEOREM VerdictAlwaysStands == Spec => []VerdictStands
<1>1. Init => SegmentsMapped /\ WalkInv /\ VerdictInv
  BY DEF Init, SegmentsMapped, WalkInv, VerdictInv, Undisturbed, VerdictStands
<1>2. VerdictInv => VerdictStands
  BY DEF VerdictInv
<1> QED BY <1>1, <1>2, TypeInvariant, MappedStep, WalkStep, VerdictStep, PTL DEF Spec

-----------------------------------------------------------------------------
(* The listing.  A segment is scanned for the first and the last word that  *)
(* is not zero and then listed between them, so while it is scanned the     *)
(* bounds are those of the words before the address, and while it is listed *)
(* the listing is that of the segments before with the lines up to the      *)
(* address.  The nonzero words of a segment are few enough to have bounds.  *)

\* Concatenating sequences is a loop.
Joining(q, n, S) == [i \in 1 .. n |-> [s \in Seq(S) |-> s \o q[i]]]

LEMMA EmptySequence == \A S : \A q \in Seq(S) : Len(q) = 0 => q = <<>>
OBVIOUS

LEMMA FlattenIsLoop ==
    ASSUME NEW S, NEW q \in Seq(Seq(S)), NEW g, NEW n \in Nat, n = Len(q),
           IsLoop(g, n, Seq(S), <<>>, Joining(q, n, S))
    PROVE  FlattenSeq(q) = g[n]
<1> DEFINE Step(f, i) == IF i = 1 THEN q[i] ELSE f[i - 1] \o q[i]
           IsFlatten(f) == f = [i \in 1 .. n |-> Step(f, i)]
           flatten == CHOOSE f : IsFlatten(f)
           h == [i \in 1 .. n |-> g[i]]
<1>1. /\ g \in [0 .. n -> Seq(S)] /\ g[0] = <<>>
      /\ \A i \in 1 .. n : g[i] = g[i - 1] \o q[i]
  <2>1. ASSUME NEW i \in 1 .. n PROVE g[i] = g[i - 1] \o q[i]
    <3>1. g[i - 1] \in Seq(S) /\ g[i] = Joining(q, n, S)[i][g[i - 1]]
      <4>1. i - 1 \in 0 .. n
        OBVIOUS
      <4>2. /\ g \in [0 .. n -> Seq(S)]
            /\ \A k \in 1 .. n : g[k] = Joining(q, n, S)[k][g[k - 1]]
        BY Zenon DEF IsLoop
      <4> QED BY <4>1, <4>2, Zenon
    <3>2. Joining(q, n, S)[i] = [s \in Seq(S) |-> s \o q[i]]
      BY DEF Joining
    <3> QED BY <3>1, <3>2
  <2> QED BY <2>1 DEF IsLoop
<1>2. \A i \in 1 .. n : q[i] \in Seq(S)
  OBVIOUS
<1>3. IsFlatten(h)
  <2>1. ASSUME NEW i \in 1 .. n PROVE g[i] = Step(h, i)
    <3>1. CASE i = 1
      <4>1. g[0] = <<>> /\ g[1] = g[0] \o q[1]
        <5>1. 1 \in 1 .. n /\ 1 - 1 = 0
          BY <3>1
        <5> QED BY <1>1, <5>1
      <4>2. q[1] \in Seq(S)
        BY <1>2, <3>1
      <4> QED BY <3>1, <4>1, <4>2
    <3>2. CASE i # 1
      <4>1. i - 1 \in 1 .. n
        BY <3>2
      <4> QED BY <1>1, <3>2, <4>1
    <3> QED BY <3>1, <3>2
  <2> QED BY <2>1
<1>4. IsFlatten(flatten)
  <2>1. \E f : IsFlatten(f)
    BY <1>3
  <2> HIDE DEF IsFlatten
  <2> QED BY <2>1
<1>5. CASE n = 0
  <2>1. Len(q) = 0
    BY <1>5
  <2> QED BY <1>1, <1>5, <2>1, EmptySequence DEF FlattenSeq
<1>6. CASE n # 0
  <2> DEFINE Same == {0} \cup {i \in 1 .. n : flatten[i] = h[i]}
  <2>1. ASSUME NEW i \in 1 .. n, i - 1 \in Same PROVE i \in Same
    <3>1. flatten[i] = Step(flatten, i) /\ h[i] = Step(h, i)
      <4> HIDE DEF flatten, h, Step
      <4> QED BY <1>3, <1>4
    <3>2. i # 1 => flatten[i - 1] = h[i - 1]
      <4> HIDE DEF flatten, h
      <4> QED BY <2>1
    <3> HIDE DEF flatten, h
    <3> QED BY <3>1, <3>2
  <2>2. 0 .. n \subseteq Same
    <3> HIDE DEF Same
    <3>1. 0 \in Same
      BY DEF Same
    <3> QED BY <2>1, <3>1, KeptThroughout
  <2>3. n \in 0 .. n /\ n \in 1 .. n
    BY <1>6
  <2>4. flatten[n] = h[n]
    <3> HIDE DEF flatten, h
    <3> QED BY <1>6, <2>2, <2>3
  <2>5. FlattenSeq(q) = flatten[n]
    <3>1. Len(q) # 0 /\ Len(q) = n
      BY <1>6
    <3> QED BY <3>1, Zenon DEF FlattenSeq, flatten, IsFlatten, Step
  <2> QED BY <2>3, <2>4, <2>5
<1> QED BY <1>5, <1>6

\* The last sequence is concatenated last.
LEMMA FlattenGrows ==
    ASSUME NEW S, NEW q \in Seq(Seq(S)), NEW n \in Nat, Len(q) = n + 1
    PROVE  /\ FlattenSeq([i \in 1 .. n |-> q[i]]) \in Seq(S)
           /\ FlattenSeq(q) = FlattenSeq([i \in 1 .. n |-> q[i]]) \o q[n + 1]
<1> DEFINE p == [i \in 1 .. n |-> q[i]]
           m == n + 1
<1>1. PICK g : IsLoop(g, m, Seq(S), <<>>, Joining(q, m, S))
  <2> DEFINE body == Joining(q, m, S)
  <2>1. \A i \in 1 .. m : body[i] \in [Seq(S) -> Seq(S)]
    <3>1. \A i \in 1 .. m : q[i] \in Seq(S)
      OBVIOUS
    <3>2. \A s, r \in Seq(S) : s \o r \in Seq(S)
      OBVIOUS
    <3> QED BY <3>1, <3>2 DEF Joining
  <2>2. <<>> \in Seq(S) /\ m \in Nat
    OBVIOUS
  <2> HIDE DEF body, m
  <2>3. \E g : IsLoop(g, m, Seq(S), <<>>, body)
    BY <2>1, <2>2, LoopRuns
  <2> QED BY <2>3 DEF body
<1>2. p \in Seq(Seq(S)) /\ Len(p) = n /\ m \in Nat /\ m = Len(q)
  OBVIOUS
<1> DEFINE h == [i \in 0 .. n |-> g[i]]
<1>3. IsLoop(h, n, Seq(S), <<>>, Joining(p, n, S))
  <2>1. h \in [0 .. n -> Seq(S)] /\ h[0] = <<>>
    BY <1>1 DEF IsLoop
  <2>2. ASSUME NEW i \in 1 .. n PROVE h[i] = Joining(p, n, S)[i][h[i - 1]]
    <3>1. /\ i \in 1 .. m /\ i - 1 \in 0 .. n
          /\ g[i] = Joining(q, m, S)[i][g[i - 1]] /\ g[i - 1] \in Seq(S)
      BY <1>1 DEF IsLoop
    <3>2. h[i] = g[i] /\ h[i - 1] = g[i - 1]
      BY <3>1
    <3>3. Joining(p, n, S)[i] = Joining(q, m, S)[i]
      <4>1. p[i] = q[i]
        OBVIOUS
      <4>2. /\ Joining(p, n, S)[i] = [s \in Seq(S) |-> s \o p[i]]
            /\ Joining(q, m, S)[i] = [s \in Seq(S) |-> s \o q[i]]
        <5> HIDE DEF p, m
        <5> QED BY <3>1 DEF Joining
      <4> QED BY <4>1, <4>2
    <3> QED BY <3>1, <3>2, <3>3
  <2> QED BY <2>1, <2>2 DEF IsLoop
<1>4. FlattenSeq(p) = h[n]
  <2> HIDE DEF p, h, m
  <2> QED BY <1>2, <1>3, FlattenIsLoop
<1>5. FlattenSeq(q) = g[m]
  <2> HIDE DEF p, h, m
  <2> QED BY <1>1, <1>2, FlattenIsLoop
<1>6. g[m] = g[n] \o q[m] /\ g[n] \in Seq(S) /\ h[n] = g[n]
  <2>1. m \in 1 .. m /\ m - 1 = n /\ n \in 0 .. m
    OBVIOUS
  <2>2. g[n] \in Seq(S) /\ g[m] = Joining(q, m, S)[m][g[n]]
    BY <1>1, <2>1 DEF IsLoop
  <2>3. Joining(q, m, S)[m] = [s \in Seq(S) |-> s \o q[m]]
    <3> HIDE DEF m
    <3> QED BY <2>1 DEF Joining
  <2>4. g[m] = g[n] \o q[m]
    <3> HIDE DEF m
    <3> QED BY <2>2, <2>3
  <2>5. h[n] = g[n]
    OBVIOUS
  <2> QED BY <2>2, <2>4, <2>5
<1> QED BY <1>4, <1>5, <1>6

\* Numbers up to a bound have a least and a greatest.
LEMMA BoundsOfNumbers ==
    ASSUME NEW n \in Nat, NEW S \in SUBSET (1 .. n), S # {}
    PROVE  /\ Min(S) \in S /\ Max(S) \in S
           /\ \A a \in S : Min(S) <= a /\ a <= Max(S)
<1>1. S \in SUBSET Nat
  OBVIOUS
<1>2. \E m \in S : \A a \in S : m <= a
  BY <1>1, LeastElement, Zenon
<1>3. \E m \in S : \A a \in S : m >= a
  <2>1. PICK m \in S : \A a \in S : a <= m
    BY GreatestElement
  <2>2. \A a \in S : m >= a
    BY <2>1, <1>1
  <2> QED BY <2>2
<1>4. Min(S) \in S /\ \A a \in S : Min(S) <= a
  BY <1>2 DEF Min
<1>5. Max(S) \in S /\ \A a \in S : Max(S) >= a
  BY <1>3 DEF Max
<1> QED BY <1>1, <1>4, <1>5

LEMMA BoundsAre ==
    ASSUME NEW n \in Nat, NEW S \in SUBSET (1 .. n), NEW a \in S, NEW b \in S,
           \A c \in S : a <= c /\ c <= b
    PROVE  a = Min(S) /\ b = Max(S)
<1> DEFINE least == Min(S)
           greatest == Max(S)
<1>1. /\ least \in S /\ greatest \in S
      /\ \A c \in S : least <= c /\ c <= greatest
  BY BoundsOfNumbers
<1> HIDE DEF least, greatest
<1>2. a \in Nat /\ b \in Nat /\ least \in Nat /\ greatest \in Nat
  BY <1>1
<1>3. a <= least /\ least <= a /\ b <= greatest /\ greatest <= b
  BY <1>1
<1> QED BY <1>2, <1>3 DEF least, greatest

\* The words of a segment's walk that are not zero, and what is listed of them.
Code(s) ==
    {a \in 1 .. WordValues - 4 :
        /\ a % 4 = 0 /\ WalkStart(s) % 4 = 0
        /\ WalkStart(s) <= a /\ a + 4 <= End(s)
        /\ Fetched(mem, a, 4) # 0}
LineAt(a) == [pc |-> a, word |-> Fetched(mem, a, 4), marked |-> a \in entries]
LinesFrom(a, n) == [k \in 1 .. n |-> LineAt(a + 4 * (k - 1))]
Walked(s) ==
    IF ~s.executable \/ Code(s) = {} THEN <<>>
    ELSE LinesFrom(Min(Code(s)), 1 + (Max(Code(s)) - Min(Code(s))) \div 4)
AnyLine == {LineAt(a) : a \in Nat}
Listed(n) == FlattenSeq([i \in 1 .. n |-> Walked(segments[i])])

BoundsOf(C) ==
    IF C = {} THEN first_pc = 0 /\ last_pc = 0 ELSE first_pc = Min(C) /\ last_pc = Max(C)
Before(C, a) == {c \in C : c < a}

ScannedUpTo(s) ==
    /\ Aligned(s) /\ EndsEarly(s) => BoundsOf(Before(Code(s), pc))
    /\ ~Aligned(s) => pc % 4 # 0 /\ first_pc = 0
ListedUpTo(s) ==
    /\ Aligned(s) /\ Code(s) # {} /\ BoundsOf(Code(s))
    /\ first_pc <= pc /\ pc <= last_pc + 4
    /\ lines = Listed(seg - 1) \o LinesFrom(first_pc, (pc - first_pc) \div 4)
ListingInv ==
    /\ phase \notin {"segment", "scan", "list", "finish", "returned"} => lines = <<>>
    /\ phase \in {"segment", "scan"} => lines = Listed(seg - 1)
    /\ phase = "scan" => ScannedUpTo(segments[seg])
    /\ phase = "list" => ListedUpTo(segments[seg])
    /\ phase = "finish" /\ disasm => lines = Listed(Len(segments))

LEMMA CodeIsBounded ==
    ASSUME NEW s
    PROVE  /\ WordValues - 4 \in Nat /\ Code(s) \in SUBSET (1 .. WordValues - 4)
           /\ \A a \in Code(s) : /\ a \in Nat /\ a # 0 /\ a % 4 = 0
                                 /\ WalkStart(s) <= a /\ a + 4 <= End(s)
<1>1. WordValues - 4 \in Nat
  BY WordValuesType, WordsFit
<1> QED BY <1>1 DEF Code

LEMMA WalkedLines ==
    ASSUME NEW s
    PROVE  /\ ~s.executable \/ Code(s) = {} => Walked(s) = <<>>
           /\ s.executable /\ Code(s) # {} =>
                 Walked(s) = LinesFrom(Min(Code(s)), 1 + (Max(Code(s)) - Min(Code(s))) \div 4)
           /\ Walked(s) \in Seq(AnyLine)
<1> DEFINE C == Code(s)
           first == Min(C)
           n == 1 + (Max(C) - first) \div 4
<1>1. /\ ~s.executable \/ C = {} => Walked(s) = <<>>
      /\ s.executable /\ C # {} => Walked(s) = LinesFrom(first, n)
  BY DEF Walked
<1>2. ASSUME C # {} PROVE LinesFrom(first, n) \in Seq(AnyLine)
  <2>1. first \in Nat /\ Max(C) \in Nat /\ first <= Max(C)
    <3>1. first \in C /\ Max(C) \in C /\ first <= Max(C)
      <4> HIDE DEF C
      <4>1. C \in SUBSET (1 .. WordValues - 4) /\ WordValues - 4 \in Nat
        BY CodeIsBounded DEF C
      <4> QED BY <1>2, <4>1, BoundsOfNumbers
    <3> QED BY <3>1, CodeIsBounded
  <2> HIDE DEF first, C
  <2>2. n \in Nat
    BY <2>1
  <2> HIDE DEF n
  <2>3. \A k \in 1 .. n : first + 4 * (k - 1) \in Nat
    BY <2>1
  <2>4. \A k \in 1 .. n : LineAt(first + 4 * (k - 1)) \in AnyLine
    BY <2>3 DEF AnyLine
  <2> QED BY <2>2, <2>4 DEF LinesFrom
<1>3. <<>> \in Seq(AnyLine)
  OBVIOUS
<1> HIDE DEF C, first, n
<1>4. Walked(s) \in Seq(AnyLine)
  BY <1>1, <1>2, <1>3
<1> QED BY <1>1, <1>4 DEF C, first, n

LEMMA ListedGrows ==
    ASSUME NEW n \in Nat
    PROVE  /\ Listed(n) \in Seq(AnyLine)
           /\ Listed(n + 1) = Listed(n) \o Walked(segments[n + 1])
<1> DEFINE q == [i \in 1 .. n + 1 |-> Walked(segments[i])]
           p == [i \in 1 .. n |-> q[i]]
<1>1. q \in Seq(Seq(AnyLine)) /\ Len(q) = n + 1
  BY WalkedLines
<1>2. p = [i \in 1 .. n |-> Walked(segments[i])] /\ q[n + 1] = Walked(segments[n + 1])
  OBVIOUS
<1>3. FlattenSeq(p) \in Seq(AnyLine) /\ FlattenSeq(q) = FlattenSeq(p) \o q[n + 1]
  <2> HIDE DEF q
  <2> QED BY <1>1, FlattenGrows
<1>4. Listed(n) = FlattenSeq(p) /\ Listed(n + 1) = FlattenSeq(q)
  BY <1>2 DEF Listed
<1> HIDE DEF p, q
<1> QED BY <1>2, <1>3, <1>4

\* One word of a walk is scanned.
LEMMA ScanExtendsBounds ==
    ASSUME TypeInv, NEW s \in SegmentRecord, EndsEarly(s), Aligned(s),
           pc % 4 = 0, WalkStart(s) <= pc, pc + 4 <= End(s),
           FetchedWord = Fetched(mem, pc, 4),
           BoundsOf(Before(Code(s), pc)),
           first_pc' = FirstOf(FetchedWord),
           last_pc' = (IF FetchedWord # 0 THEN pc ELSE last_pc)
    PROVE  LET C == Before(Code(s), pc + 4)
           IN  IF C = {} THEN first_pc' = 0 /\ last_pc' = 0
               ELSE first_pc' = Min(C) /\ last_pc' = Max(C)
<1> DEFINE B == Before(Code(s), pc)
           C == Before(Code(s), pc + 4)
           n == WordValues - 4
<1>1. pc \in Nat /\ End(s) \in Nat /\ End(s) < WordValues - 4 /\ WordValues \in Nat
  BY WordValuesType DEF TypeInv, TypeOK, SegmentRecord, Address, End, EndsEarly
<1>2. n \in Nat /\ Code(s) \in SUBSET (1 .. n) /\ B \in SUBSET (1 .. n) /\ C \in SUBSET (1 .. n)
  BY CodeIsBounded DEF Before
<1>3. \A a \in Code(s) : a \in Nat /\ a # 0 /\ a % 4 = 0
  BY CodeIsBounded
<1>4. pc \in Code(s) <=> FetchedWord # 0 /\ pc # 0
  <2>1. pc \in 1 .. WordValues - 4 <=> pc # 0
    BY <1>1
  <2> QED BY <2>1 DEF Code, Aligned
<1>5. C = B \cup (Code(s) \cap {pc})
  <2>1. \A a \in Code(s) : a < pc + 4 <=> a < pc \/ a = pc
    <3>1. \A a, b \in Nat : a % 4 = 0 /\ b % 4 = 0 => (a < b + 4 <=> a < b \/ a = b)
      OBVIOUS
    <3> QED BY <1>1, <1>3, <3>1
  <2> QED BY <2>1 DEF Before
<1>6. \A a \in B : a < pc /\ a \in Nat /\ a # 0
  BY <1>3 DEF Before
<1>7. /\ B = {} => first_pc = 0 /\ last_pc = 0
      /\ B # {} => first_pc = Min(B) /\ last_pc = Max(B)
  BY DEF BoundsOf
<1>8. B # {} => first_pc \in B /\ \A a \in B : first_pc <= a
  <2> HIDE DEF B, n
  <2> QED BY <1>2, <1>7, BoundsOfNumbers
<1> HIDE DEF B, C, n
<1>9. CASE pc \in Code(s)
  <2>1. FetchedWord # 0 /\ last_pc' = pc /\ first_pc' = (IF first_pc = 0 THEN pc ELSE first_pc)
    BY <1>4, <1>9 DEF FirstOf
  <2>2. pc \in C /\ C = B \cup {pc}
    BY <1>5, <1>9
  <2>3. first_pc' \in C /\ \A c \in C : first_pc' <= c /\ c <= pc
    <3>1. CASE B = {}
      BY <1>1, <1>7, <2>1, <2>2, <3>1
    <3>2. CASE B # {}
      <4>1. first_pc' = first_pc /\ first_pc \in B
        BY <1>6, <1>8, <2>1, <3>2
      <4> QED BY <1>1, <1>6, <1>8, <2>2, <3>2, <4>1
    <3> QED BY <3>1, <3>2
  <2>4. first_pc' = Min(C) /\ pc = Max(C)
    BY <1>2, <2>2, <2>3, BoundsAre
  <2> QED BY <2>1, <2>2, <2>4 DEF C
<1>10. CASE pc \notin Code(s)
  <2>1. C = B
    BY <1>5, <1>10
  <2>2. CASE FetchedWord = 0
    <3>1. first_pc' = first_pc /\ last_pc' = last_pc
      BY <2>2 DEF FirstOf
    <3> QED BY <1>7, <2>1, <3>1 DEF C
  <2>3. CASE FetchedWord # 0
    <3>1. pc = 0
      BY <1>4, <1>10, <2>3
    <3>2. B = {}
      BY <1>6, <3>1
    <3>3. first_pc' = 0 /\ last_pc' = 0
      BY <1>7, <2>3, <3>1, <3>2 DEF FirstOf
    <3> QED BY <2>1, <3>2, <3>3 DEF C
  <2> QED BY <2>2, <2>3
<1> QED BY <1>9, <1>10

LEMMA LinesGrow ==
    ASSUME NEW a \in Nat, NEW n \in Nat
    PROVE  /\ LinesFrom(a, n) \in Seq(AnyLine)
           /\ LinesFrom(a, n + 1) = Append(LinesFrom(a, n), LineAt(a + 4 * n))
<1>1. \A k \in Nat : k >= 1 => a + 4 * (k - 1) \in Nat
  OBVIOUS
<1>2. \A k \in 1 .. n + 1 : LineAt(a + 4 * (k - 1)) \in AnyLine
  BY <1>1 DEF AnyLine
<1>3. LinesFrom(a, n) \in Seq(AnyLine) /\ Len(LinesFrom(a, n)) = n
  BY <1>2 DEF LinesFrom
<1>4. LinesFrom(a, n + 1) \in Seq(AnyLine) /\ Len(LinesFrom(a, n + 1)) = n + 1
  BY <1>2 DEF LinesFrom
<1>5. \A k \in 1 .. n : LinesFrom(a, n + 1)[k] = LinesFrom(a, n)[k]
  BY DEF LinesFrom
<1>6. LinesFrom(a, n + 1)[n + 1] = LineAt(a + 4 * n)
  BY DEF LinesFrom
<1>7. LineAt(a + 4 * n) \in AnyLine
  BY DEF AnyLine
<1> QED BY <1>3, <1>4, <1>5, <1>6, <1>7

LEMMA AppendBehind ==
    \A S : \A p, q \in Seq(S) : \A x \in S : Append(p \o q, x) = p \o Append(q, x)
OBVIOUS

LEMMA WrapKeepsAlignment ==
    ASSUME NEW a \in Address, a % 4 # 0
    PROVE  Wrap(a + 4) % 4 # 0
<1>1. WordValues \in Nat \ {0} /\ WordValues % 4 = 0 /\ a \in Nat /\ a < WordValues
  BY WordsFit, WordValuesType DEF Address
<1>2. CASE a + 4 < WordValues
  <2>1. Wrap(a + 4) = a + 4
    BY <1>1, <1>2, WrapIsIdentity DEF Address
  <2> QED BY <1>1, <2>1
<1>3. CASE a + 4 >= WordValues
  <2>1. a + 4 - WordValues \in Address
    BY <1>1, <1>3, WordsFit DEF Address
  <2>2. Wrap(a + 4) = a + 4 - WordValues
    <3> DEFINE r == a + 4 - WordValues
    <3>1. a + 4 = r + 1 * WordValues /\ r \in Int /\ a + 4 \in Int /\ 1 \in Int
      BY <1>1
    <3>2. r \in Address
      BY <2>1
    <3> HIDE DEF r
    <3>3. Wrap(a + 4) = Wrap(r)
      BY <3>1, WrapUnique
    <3> QED BY <3>2, <3>3, WrapIsIdentity DEF r
  <2> DEFINE W == WordValues
  <2>3. (a + 4 - W) % 4 # 0
    <3>1. W \in Nat /\ W % 4 = 0 /\ a \in Nat /\ a % 4 # 0
      BY <1>1
    <3> HIDE DEF W
    <3> QED BY <3>1
  <2> QED BY <2>2, <2>3
<1> QED BY <1>1, <1>2, <1>3

\* The listing's loops keep what they are to have found.
LEMMA ListingStep ==
    TypeInv /\ SegmentsMapped /\ WalkInv /\ ListingInv /\ print_disassembly => ListingInv'
<1> SUFFICES ASSUME TypeInv, SegmentsMapped, WalkInv, ListingInv, print_disassembly
             PROVE  ListingInv'
  OBVIOUS
<1> DEFINE s == segments[seg]
<1>1. UNCHANGED <<segments, mem, entries, disasm>>
  BY DEF print_disassembly, starting
<1>2. /\ \A a : LineAt(a)' = LineAt(a)
      /\ \A r : Code(r)' = Code(r) /\ Walked(r)' = Walked(r)
      /\ \A r : Aligned(r)' = Aligned(r) /\ EndsEarly(r)' = EndsEarly(r)
  BY <1>1 DEF LineAt, LinesFrom, Code, Walked, WalkStart, End, Aligned, EndsEarly
<1>3. /\ \A n : Listed(n)' = Listed(n)
      /\ \A a, n : LinesFrom(a, n)' = LinesFrom(a, n)
  BY <1>1, <1>2 DEF Listed, LinesFrom
<1>4. /\ \A i \in 1 .. Len(segments) : segments[i] \in SegmentRecord /\ Placed(segments[i])
      /\ DOMAIN segments = 1 .. Len(segments) /\ Len(segments) \in Nat
      /\ seg \in 1 .. Len(segments) + 1
      /\ phase \in {"scan", "list"} => seg \in DOMAIN segments
      /\ pc \in Nat /\ first_pc \in Nat /\ last_pc \in Nat /\ pc \in Address
  BY WordValuesType DEF TypeInv, TypeOK, IsSegments, Address
<1>5. seg \in Nat /\ seg - 1 \in Nat /\ seg + 1 - 1 = seg /\ seg - 1 + 1 = seg
  BY <1>4
<1>6. Listed(seg) = Listed(seg - 1) \o Walked(segments[seg]) /\ Listed(seg - 1) \in Seq(AnyLine)
  <2> DEFINE n == seg - 1
  <2>1. n \in Nat /\ n + 1 = seg
    BY <1>5
  <2> HIDE DEF n
  <2>2. Listed(n) \in Seq(AnyLine) /\ Listed(n + 1) = Listed(n) \o Walked(segments[n + 1])
    BY <2>1, ListedGrows
  <2>3. Listed(n) \in Seq(AnyLine) /\ Listed(seg) = Listed(n) \o Walked(segments[seg])
    BY <2>1, <2>2
  <2> QED BY <2>3 DEF n
<1>7. Walked(s) = <<>> => Listed(seg) = Listed(seg - 1)
  BY <1>6
<1>8. ASSUME phase' = "segment", seg' = seg + 1, lines' = Listed(seg) PROVE ListingInv'
  <2>1. seg' - 1 = seg
    BY <1>5, <1>8
  <2> QED BY <1>3, <1>8, <2>1 DEF ListingInv
<1>9. CASE EnterSegment
  <2>1. phase = "segment" /\ lines = Listed(seg - 1) /\ lines' = lines
    BY <1>9 DEF EnterSegment, ListingInv
  <2>2. CASE seg > Len(segments)
    <3>1. seg - 1 = Len(segments)
      BY <1>4, <2>2
    <3>2. phase' = "finish"
      BY <1>9, <2>2 DEF EnterSegment, Continue
    <3> QED BY <1>1, <1>3, <2>1, <3>1, <3>2 DEF ListingInv
  <2>3. CASE seg <= Len(segments) /\ ~s.executable
    <3>1. phase' = "segment" /\ seg' = seg + 1
      BY <1>4, <1>9, <2>3 DEF EnterSegment, NextSegment, Continue
    <3>2. Walked(s) = <<>>
      BY <2>3, WalkedLines
    <3> QED BY <1>7, <1>8, <2>1, <3>1, <3>2
  <2>4. CASE seg <= Len(segments) /\ s.executable
    <3>1. /\ phase' = "scan" /\ seg' = seg /\ pc' = WalkStart(s)
          /\ first_pc' = 0 /\ last_pc' = 0
      BY <1>4, <1>9, <2>4 DEF EnterSegment, Continue
    <3>2. WalkStart(s) \in Nat
      BY <1>4, <2>4, WalkBounds
    <3>3. Before(Code(s), WalkStart(s)) = {}
      BY <3>2, CodeIsBounded DEF Before
    <3>4. s' = s /\ Before(Code(s), pc)' = {}
      BY <1>1, <1>2, <3>1, <3>3 DEF Before
    <3>5. ScannedUpTo(s)'
      BY <1>2, <3>1, <3>4 DEF ScannedUpTo, BoundsOf, Aligned
    <3> QED BY <1>3, <2>1, <3>1, <3>5 DEF ListingInv
  <2> QED BY <1>4, <2>2, <2>3, <2>4
<1>10. CASE Scan
  <2>1. /\ phase = "scan" /\ lines = Listed(seg - 1) /\ lines' = lines
        /\ s \in SegmentRecord /\ Placed(s) /\ ScannedUpTo(s) /\ s.executable
        /\ Aligned(s) => OnWords(s)
    BY <1>4, <1>10 DEF Scan, ListingInv, WalkInv
  <2>2. CASE MoreToScan(s)
    <3>1. /\ phase' = "scan" /\ seg' = seg /\ pc' = Wrap(pc + 4)
          /\ first_pc' = FirstOf(FetchedWord)
          /\ last_pc' = (IF FetchedWord # 0 THEN pc ELSE last_pc)
      BY <1>10, <2>2 DEF Scan, ScanNext
    <3>2. s' = s
      BY <1>1, <3>1
    <3>3. ASSUME Aligned(s), EndsEarly(s) PROVE BoundsOf(Before(Code(s), pc))'
      <4>1. pc + 4 <= End(s) /\ pc' = pc + 4 /\ FetchFault(mem, pc) = NoFault
        BY <1>10, <2>1, <2>2, <3>1, <3>3, ScanStaysOnWords
      <4>2. FetchedWord = Fetched(mem, pc, 4)
        BY <4>1 DEF FetchedWord
      <4>3. pc % 4 = 0 /\ WalkStart(s) <= pc /\ BoundsOf(Before(Code(s), pc))
        BY <2>1, <3>3 DEF OnWords, ScannedUpTo
      <4>4. LET C == Before(Code(s), pc + 4)
            IN  IF C = {} THEN first_pc' = 0 /\ last_pc' = 0
                ELSE first_pc' = Min(C) /\ last_pc' = Max(C)
        <5> HIDE DEF s
        <5> QED BY <2>1, <3>1, <3>3, <4>1, <4>2, <4>3, ScanExtendsBounds
      <4>5. Before(Code(s), pc)' = Before(Code(s), pc + 4)
        BY <1>2, <3>2, <4>1 DEF Before
      <4> QED BY <4>4, <4>5 DEF BoundsOf
    <3>4. ASSUME ~Aligned(s) PROVE pc' % 4 # 0 /\ first_pc' = 0
      <4>1. pc % 4 # 0 /\ first_pc = 0
        BY <2>1, <3>4 DEF ScannedUpTo
      <4>2. FetchFault(mem, pc) # NoFault
        BY <4>1 DEF FetchFault, AccessFault, Fault, NoFault
      <4>3. FetchedWord = 0
        BY <4>2 DEF FetchedWord
      <4>4. Wrap(pc + 4) % 4 # 0
        BY <1>4, <4>1, WrapKeepsAlignment
      <4> QED BY <3>1, <4>1, <4>3, <4>4 DEF FirstOf
    <3>5. ScannedUpTo(s)'
      BY <1>2, <3>2, <3>3, <3>4 DEF ScannedUpTo
    <3> QED BY <1>3, <2>1, <3>1, <3>5 DEF ListingInv
  <2>3. CASE ~MoreToScan(s) /\ ~Aligned(s)
    <3>1. first_pc = 0
      BY <2>1, <2>3 DEF ScannedUpTo
    <3>2. phase' = "segment" /\ seg' = seg + 1
      BY <1>10, <2>3, <3>1 DEF Scan, NextSegment, Continue
    <3>3. Code(s) = {}
      BY <2>3 DEF Code, Aligned
    <3>4. Walked(s) = <<>>
      BY <3>3, WalkedLines
    <3> QED BY <1>7, <1>8, <2>1, <3>2, <3>4
  <2>4. CASE ~MoreToScan(s) /\ Aligned(s)
    <3>1. pc % 4 = 0 /\ EndsEarly(s)
      BY <1>4, <2>1, <2>4, LateSegmentsNeverEnd DEF OnWords
    <3>2. pc <= End(s) /\ End(s) \in Nat /\ End(s) < WordValues - 4 /\ WordValues \in Nat
      BY <2>1, <2>4, <3>1, WalkBounds, WordValuesType DEF OnWords, EndsEarly
    <3>3. pc + 4 > End(s)
      <4>1. Wrap(pc + 4) = pc + 4
        BY <1>4, <3>2, WrapIsIdentity DEF Address
      <4> QED BY <1>4, <2>4, <3>2, <4>1 DEF MoreToScan
    <3>4. Before(Code(s), pc) = Code(s)
      <4>1. \A a \in Code(s) : a \in Nat /\ a + 4 <= End(s)
        BY CodeIsBounded
      <4>2. \A a \in Code(s) : a < pc
        BY <1>4, <3>2, <3>3, <4>1
      <4> QED BY <4>2 DEF Before
    <3>5. BoundsOf(Code(s))
      BY <2>1, <2>4, <3>1, <3>4 DEF ScannedUpTo
    <3>6. CASE first_pc = 0
      <4>1. Code(s) = {}
        <5>1. ASSUME Code(s) # {} PROVE FALSE
          <6>1. first_pc = Min(Code(s))
            BY <3>5, <5>1 DEF BoundsOf
          <6>2. Min(Code(s)) \in Code(s)
            BY <5>1, CodeIsBounded, BoundsOfNumbers
          <6> QED BY <3>6, <6>1, <6>2, CodeIsBounded
        <5> QED BY <5>1
      <4>2. Walked(s) = <<>>
        BY <4>1, WalkedLines
      <4>3. phase' = "segment" /\ seg' = seg + 1
        BY <1>10, <2>4, <3>6 DEF Scan, NextSegment, Continue
      <4> QED BY <1>7, <1>8, <2>1, <4>2, <4>3
    <3>7. CASE first_pc # 0
      <4>1. /\ phase' = "list" /\ seg' = seg /\ pc' = first_pc
            /\ first_pc' = first_pc /\ last_pc' = last_pc
        BY <1>10, <2>4, <3>7 DEF Scan, Continue
      <4>2. Code(s) # {} /\ first_pc = Min(Code(s)) /\ last_pc = Max(Code(s))
        BY <3>5, <3>7 DEF BoundsOf
      <4>3. first_pc <= last_pc + 4
        <5>1. Min(Code(s)) \in Code(s) /\ \A a \in Code(s) : a <= Max(Code(s))
          BY <4>2, CodeIsBounded, BoundsOfNumbers
        <5>2. first_pc <= last_pc
          BY <4>2, <5>1
        <5> QED BY <1>4, <5>2
      <4>4. LinesFrom(first_pc, (first_pc - first_pc) \div 4) = <<>>
        <5>1. (first_pc - first_pc) \div 4 = 0
          BY <1>4
        <5> QED BY <5>1 DEF LinesFrom
      <4>5. lines = lines \o <<>>
        BY <1>6, <2>1
      <4>6. s' = s
        BY <1>1, <4>1
      <4>7. (lines = Listed(seg - 1) \o LinesFrom(first_pc, (pc - first_pc) \div 4))'
        BY <1>3, <2>1, <4>1, <4>4, <4>5
      <4>8. BoundsOf(Code(s))'
        BY <1>2, <3>5, <4>1, <4>6 DEF BoundsOf
      <4>9. ListedUpTo(s)'
        <5>1. Aligned(s)' /\ (Code(s) # {})'
          BY <1>2, <2>4, <4>2, <4>6 DEF Aligned
        <5>2. (first_pc <= pc /\ pc <= last_pc + 4)'
          BY <1>4, <4>1, <4>3
        <5> QED BY <4>7, <4>8, <5>1, <5>2 DEF ListedUpTo
      <4> QED BY <4>1, <4>9 DEF ListingInv
    <3> QED BY <3>6, <3>7
  <2> QED BY <2>2, <2>3, <2>4
<1>11. CASE List
  <2>1. /\ phase = "list" /\ ListedUpTo(s) /\ s \in SegmentRecord /\ Placed(s) /\ s.executable
        /\ Aligned(s) /\ OnWords(s) /\ EndsEarly(s) /\ pc % 4 = 0
    BY <1>4, <1>11 DEF List, ListingInv, WalkInv, ListedUpTo, OnWords
  <2>2. /\ Code(s) # {} /\ first_pc = Min(Code(s)) /\ last_pc = Max(Code(s))
        /\ first_pc <= pc /\ pc <= last_pc + 4
        /\ lines = Listed(seg - 1) \o LinesFrom(first_pc, (pc - first_pc) \div 4)
    BY <2>1 DEF ListedUpTo, BoundsOf
  <2>3. first_pc \in Code(s) /\ last_pc \in Code(s)
    BY <2>2, CodeIsBounded, BoundsOfNumbers
  <2>4. /\ first_pc % 4 = 0 /\ last_pc % 4 = 0 /\ last_pc + 4 <= End(s)
        /\ WalkStart(s) <= first_pc
    BY <2>3, CodeIsBounded
  <2>5. /\ End(s) \in Nat /\ WalkStart(s) \in Nat /\ End(s) < WordValues - 4
        /\ WordValues \in Nat
    BY <2>1, WalkBounds, WordValuesType DEF EndsEarly
  <2> DEFINE n == (pc - first_pc) \div 4
             e == End(s)
             w == WalkStart(s)
  <2>6a. /\ pc \in Nat /\ first_pc \in Nat /\ last_pc \in Nat /\ e \in Nat /\ w \in Nat
        /\ pc % 4 = 0 /\ first_pc % 4 = 0 /\ last_pc % 4 = 0
        /\ first_pc <= pc /\ pc <= last_pc + 4
        /\ last_pc + 4 <= e /\ w <= first_pc
    BY <1>4, <2>1, <2>2, <2>4, <2>5
  <2> HIDE DEF e, w
  <2>6. n \in Nat /\ pc = first_pc + 4 * n
    BY <2>6a
  <2>7. CASE pc <= last_pc
    <3>1. /\ phase' = "list" /\ seg' = seg /\ pc' = Wrap(pc + 4)
          /\ first_pc' = first_pc /\ last_pc' = last_pc
          /\ lines' = Append(lines, [pc |-> pc, word |-> FetchedWord, marked |-> pc \in entries])
      BY <1>11, <2>7 DEF List
    <3>2. pc + 4 <= End(s) /\ WalkStart(s) <= pc
      <4>1. pc + 4 <= e /\ w <= pc
        BY <2>7, <2>6a
      <4> QED BY <4>1 DEF e, w
    <3>3. pc' = pc + 4
      BY <1>4, <2>5, <3>1, <3>2, WrapIsIdentity DEF Address
    <3>4. FetchFault(mem, pc) = NoFault
      BY <2>1, <3>2, WordsAreFetched
    <3>5. lines' = Append(lines, LineAt(pc))
      BY <3>1, <3>4 DEF LineAt, FetchedWord
    <3>6. (pc' - first_pc') \div 4 = n + 1
      <4> HIDE DEF n
      <4> QED BY <1>4, <2>6, <3>1, <3>3
    <3>7. /\ LinesFrom(first_pc, n) \in Seq(AnyLine)
          /\ LinesFrom(first_pc, n + 1) = Append(LinesFrom(first_pc, n), LineAt(pc))
      <4> HIDE DEF n
      <4> QED BY <1>4, <2>6, LinesGrow
    <3>8. lines' = Listed(seg - 1) \o LinesFrom(first_pc, n + 1)
      <4>1. LineAt(pc) \in AnyLine
        BY <1>4 DEF AnyLine
      <4>2. lines = Listed(seg - 1) \o LinesFrom(first_pc, n)
        BY <2>2
      <4>3. Append(lines, LineAt(pc)) = Listed(seg - 1) \o Append(LinesFrom(first_pc, n), LineAt(pc))
        <5>1. Listed(seg - 1) \in Seq(AnyLine)
          BY <1>6
        <5>2. LinesFrom(first_pc, n) \in Seq(AnyLine)
          BY <3>7
        <5> HIDE DEF n
        <5>3. \A x \in AnyLine : Append(Listed(seg - 1) \o LinesFrom(first_pc, n), x)
                                   = Listed(seg - 1) \o Append(LinesFrom(first_pc, n), x)
          BY <5>1, <5>2, AppendBehind
        <5> QED BY <4>1, <4>2, <5>3
      <4> HIDE DEF n
      <4> QED BY <3>5, <3>7, <4>3
    <3>9. (lines = Listed(seg - 1) \o LinesFrom(first_pc, (pc - first_pc) \div 4))'
      <4> HIDE DEF n
      <4> QED BY <1>3, <3>1, <3>6, <3>8
    <3>10. s' = s
      BY <1>1, <3>1
    <3>11. BoundsOf(Code(s))'
      BY <1>2, <2>1, <3>1, <3>10 DEF BoundsOf, ListedUpTo
    <3>12. first_pc' <= pc' /\ pc' <= last_pc' + 4
      BY <2>7, <2>6a, <3>1, <3>3
    <3>13. ListedUpTo(s)'
      BY <1>2, <2>1, <2>2, <3>9, <3>10, <3>11, <3>12 DEF ListedUpTo
    <3> QED BY <3>1, <3>13 DEF ListingInv
  <2>8. CASE ~ (pc <= last_pc)
    <3>1. phase' = "segment" /\ seg' = seg + 1 /\ lines' = lines
      BY <1>11, <2>8 DEF List, NextSegment, Continue
    <3>2. n = 1 + (last_pc - first_pc) \div 4
      <4>1. pc = last_pc + 4
        BY <2>8, <2>6a
      <4> QED BY <2>6a, <4>1
    <3>3. Walked(s) = LinesFrom(first_pc, n)
      <4> HIDE DEF n
      <4> QED BY <2>1, <2>2, <3>2, WalkedLines
    <3>4. lines = Listed(seg)
      BY <1>6, <2>2, <3>3
    <3> QED BY <1>8, <3>1, <3>4
  <2> QED BY <2>7, <2>8
<1> QED BY <1>9, <1>10, <1>11 DEF print_disassembly

LEMMA ListingInvStep ==
    TypeInv /\ SegmentsMapped /\ WalkInv /\ ListingInv /\ [Next]_vars => ListingInv'
<1> SUFFICES ASSUME TypeInv, SegmentsMapped, WalkInv, ListingInv, [Next]_vars PROVE ListingInv'
  OBVIOUS
<1>1. CASE UNCHANGED vars
  <2>1. UNCHANGED <<phase, segments, mem, entries, disasm, seg, pc, first_pc, last_pc, lines>>
    BY <1>1 DEF vars, starting, machine, cursor
  <2>2. \A n : Listed(n)' = Listed(n)
    BY <2>1 DEF Listed, Walked, LinesFrom, LineAt, Code, WalkStart, End
  <2>3. \A a, n : LinesFrom(a, n)' = LinesFrom(a, n)
    BY <2>1 DEF LinesFrom, LineAt
  <2>4. \A s : /\ Code(s)' = Code(s)
               /\ Aligned(s)' = Aligned(s) /\ EndsEarly(s)' = EndsEarly(s)
    BY <2>1 DEF Code, Aligned, EndsEarly, End, WalkStart
  <2>5. /\ ScannedUpTo(segments[seg])' = ScannedUpTo(segments[seg])
        /\ ListedUpTo(segments[seg])' = ListedUpTo(segments[seg])
    BY <2>1, <2>2, <2>3, <2>4 DEF ScannedUpTo, ListedUpTo, BoundsOf, Before
  <2> QED BY <2>1, <2>2, <2>5 DEF ListingInv
<1>2. CASE Prepare \/ Load \/ Construct \/ RunStores \/ RunHalts
  <2>1. /\ phase \notin {"segment", "scan", "list", "finish", "returned"} /\ lines' = lines
        /\ phase' \notin {"segment", "scan", "list", "finish"}
    BY <1>2 DEF Prepare, TakeElf, FindCompiler, CreateRuntime, WriteRuntime, Compile, Load,
                Construct, RunStores, RunHalts, Leave, Continue
  <2> QED BY <2>1 DEF ListingInv
<1>3. CASE WriteReport
  <2>1. /\ phase = "report" /\ UNCHANGED <<lines, disasm, seg>>
        /\ phase' = "returned" \/ phase' = (IF disasm THEN "segment" ELSE "finish")
    BY <1>3 DEF WriteReport, Leave, Continue, starting, cursor
  <2>2. lines = <<>> /\ seg = 1
    BY <2>1 DEF ListingInv, TypeInv
  <2>3. Listed(seg - 1)' = <<>>
    <3>1. Listed(0)' = <<>>
      <4>1. [i \in 1 .. 0 |-> Walked(segments[i])]' = <<>>
        OBVIOUS
      <4> QED BY <4>1, EmptySequence DEF Listed, FlattenSeq
    <3>2. seg' - 1 = 0
      BY <2>1, <2>2
    <3> QED BY <3>1, <3>2 DEF Listed
  <2> QED BY <2>1, <2>2, <2>3 DEF ListingInv
<1>4. CASE Finish
  <2>1. phase' = "returned"
    BY <1>4 DEF Finish, Leave
  <2> QED BY <2>1 DEF ListingInv
<1> QED BY <1>1, <1>2, <1>3, <1>4, ListingStep DEF Next, Main

\* Where code and comments agree, what the walk finds is what the image asks for.
LEMMA WalkedIsExpected ==
    ASSUME NEW s \in SegmentRecord, Placed(s), Undisputed(s)
    PROVE  Walked(s) = Expected(s)
<1> DEFINE C == Code(s)
           E == {a \in WordsOf(s) : Image(a) # 0}
           first == Min(C)
           n == 1 + (Max(C) - first) \div 4
<1>1. CASE ~s.executable
  BY <1>1 DEF Walked, Expected
<1>2. CASE s.executable
  <2>1. /\ WalkStart(s) % 4 = 0
        /\ \A a \in WordsOf(s) : Fetched(mem, a, 4) = Image(a) /\ (a = 0 => Image(a) = 0)
    BY <1>2 DEF Undisputed
  <2>2. /\ \A a \in 1 .. WordValues - 4 : a \in Address
        /\ \A a \in Address : a + 4 <= End(s) /\ a # 0 => a \in 1 .. WordValues - 4
    BY WordValuesType DEF Address, SegmentRecord, Placed, End
  <2>3. C = E
    BY <2>1, <2>2 DEF Code, WordsOf
  <2>4. ASSUME C # {}, NEW k \in 1 .. n PROVE first + 4 * (k - 1) \in WordsOf(s)
    <3>1. first \in C /\ Max(C) \in C /\ first <= Max(C)
      <4> HIDE DEF C
      <4>1. C \in SUBSET (1 .. WordValues - 4) /\ WordValues - 4 \in Nat
        BY CodeIsBounded DEF C
      <4> QED BY <2>4, <4>1, BoundsOfNumbers
    <3>2. /\ first \in Address /\ first % 4 = 0 /\ WalkStart(s) <= first
          /\ Max(C) \in Address /\ Max(C) % 4 = 0 /\ Max(C) + 4 <= End(s)
      BY <3>1, <2>2 DEF Code
    <3>3. WalkStart(s) \in Nat /\ End(s) \in Nat /\ End(s) <= WordValues - 1
      BY WalkStartType, WordValuesType DEF Address, SegmentRecord, Placed, End
    <3> DEFINE a == first + 4 * (k - 1)
               last == Max(C)
    <3>4. first \in Nat /\ last \in Nat /\ first <= last /\ k \in 1 .. 1 + (last - first) \div 4
      BY <3>1, <3>2, WordValuesType DEF Address
    <3> HIDE DEF first, last, C, n
    <3>5. a \in Nat /\ first <= a /\ a <= last /\ a % 4 = 0
      <4>1. (last - first) \div 4 \in Nat /\ 4 * ((last - first) \div 4) <= last - first
        BY <3>4
      <4>2. first % 4 = 0
        BY <3>2
      <4> QED BY <3>4, <4>1, <4>2
    <3>6. last + 4 <= End(s) /\ WalkStart(s) <= first
      BY <3>2 DEF last
    <3> HIDE DEF a
    <3>7. WalkStart(s) <= a /\ a + 4 <= End(s)
      BY <3>3, <3>4, <3>5, <3>6
    <3>8. a \in Address
      BY <3>3, <3>5, <3>7, WordValuesType DEF Address
    <3> QED BY <3>5, <3>7, <3>8 DEF WordsOf, a
  <2>5. CASE C = {}
    BY <2>3, <2>5 DEF Walked, Expected
  <2>6. CASE C # {}
    <3>1. Walked(s) = [k \in 1 .. n |-> LineAt(first + 4 * (k - 1))]
      BY <1>2, <2>6 DEF Walked, LinesFrom
    <3> DEFINE Shown(a) == [pc |-> a, word |-> Image(a), marked |-> a \in entries]
    <3>2. Expected(s) = [k \in 1 .. n |-> Shown(first + 4 * (k - 1))]
      BY <1>2, <2>3, <2>6 DEF Expected
    <3>3. \A k \in 1 .. n : LineAt(first + 4 * (k - 1)) = Shown(first + 4 * (k - 1))
      BY <2>1, <2>4, <2>6 DEF LineAt
    <3> HIDE DEF Shown, n, first, C
    <3> QED BY <3>1, <3>2, <3>3
  <2> QED BY <2>5, <2>6
<1> QED BY <1>1, <1>2

\* ListingAlwaysComplete: for every file, however its segments lie and overlap,
\* whether they begin with headers or not, a listing that ends shows every
\* executable segment from the first to the last word of code the file puts
\* there, once, in order, with the entries of blocks marked, if the run left these
\* words alone and every walk starts at a word (disasm.cpp:199-240).
THEOREM ListingAlwaysComplete == Spec => []ListingComplete
<1>1. Init => SegmentsMapped /\ WalkInv /\ ListingInv
  BY DEF Init, SegmentsMapped, WalkInv, ListingInv
<1>2. TypeInv /\ ListingInv => ListingComplete
  <2> SUFFICES ASSUME TypeInv, ListingInv, phase = "finish", disasm,
                      \A i \in DOMAIN segments : Undisputed(segments[i])
               PROVE  lines = FlattenSeq([i \in DOMAIN segments |-> Expected(segments[i])])
    BY DEF ListingComplete
  <2>1. /\ DOMAIN segments = 1 .. Len(segments)
        /\ \A i \in 1 .. Len(segments) : segments[i] \in SegmentRecord /\ Placed(segments[i])
    BY DEF TypeInv, IsSegments
  <2>2. \A i \in 1 .. Len(segments) : Walked(segments[i]) = Expected(segments[i])
    BY <2>1, WalkedIsExpected
  <2>3. lines = FlattenSeq([i \in 1 .. Len(segments) |-> Walked(segments[i])])
    BY DEF ListingInv, Listed
  <2>4. [i \in 1 .. Len(segments) |-> Walked(segments[i])]
          = [i \in 1 .. Len(segments) |-> Expected(segments[i])]
    BY <2>2
  <2> QED BY <2>1, <2>3, <2>4
<1> QED BY <1>1, <1>2, TypeInvariant, MappedStep, WalkStep, ListingInvStep, PTL DEF Spec

-----------------------------------------------------------------------------
(* Temporary files.  Every path that exists is known to the guard: the      *)
(* output of the compiler is registered before the compiler runs, the       *)
(* directory when it is made.                                               *)

CleanUp ==
    /\ temp \subseteq guarded
    /\ phase \in {"runtime", "write", "compile"} => "out" \in guarded
    /\ TempFilesRemoved

LEMMA LeaveCleansUp ==
    ASSUME NEW existing, existing \subseteq guarded, Leave(existing)
    PROVE  temp' = {} /\ phase' = "returned"
  BY DEF Leave

LEMMA CleanUpStep == CleanUp /\ [Next]_vars => CleanUp'
<1> SUFFICES ASSUME CleanUp, [Next]_vars PROVE CleanUp'
  OBVIOUS
<1> USE DEF CleanUp, TempFilesRemoved
<1>1. CASE TakeElf
  BY <1>1 DEF TakeElf, Continue
<1>2. CASE FindCompiler
  BY <1>2 DEF FindCompiler, Leave, Continue
<1>3. CASE CreateRuntime
  BY <1>3 DEF CreateRuntime, RegistersRuntime, Leave
<1>4. CASE WriteRuntime
  BY <1>4 DEF WriteRuntime, Leave, Continue
<1>5. CASE Compile
  <2>1. \A output \in {{}, {"out"}} : temp \cup output \subseteq guarded
    BY <1>5 DEF Compile
  <2> QED BY <1>5, <2>1 DEF Compile, Leave
<1>6. CASE Load
  BY <1>6 DEF Load, Leave, Continue
<1>7. CASE Construct
  BY <1>7 DEF Construct, Continue
<1>8. CASE RunStores
  BY <1>8 DEF RunStores
<1>9. CASE RunHalts
  BY <1>9 DEF RunHalts, Continue
<1>10. CASE WriteReport
  BY <1>10 DEF WriteReport, Leave, Continue
<1>11. CASE print_disassembly
  <2>1. CASE EnterSegment
    BY <1>11, <2>1 DEF print_disassembly, EnterSegment, NextSegment, Continue
  <2>2. CASE Scan
    BY <1>11, <2>2 DEF print_disassembly, Scan, NextSegment, Continue
  <2>3. CASE List
    BY <1>11, <2>3 DEF print_disassembly, List, NextSegment, Continue
  <2> QED BY <1>11, <2>1, <2>2, <2>3 DEF print_disassembly
<1>12. CASE Finish
  BY <1>12 DEF Finish, Leave
<1>13. CASE UNCHANGED vars
  BY <1>13 DEF vars
<1> QED
  BY <1>1, <1>2, <1>3, <1>4, <1>5, <1>6, <1>7, <1>8, <1>9, <1>10, <1>11, <1>12, <1>13
     DEF Next, Main, Prepare

\* TempFilesAlwaysRemoved: for every file and every way through main, nothing
\* temporary is left when main returns (main.cpp:76-140).
THEOREM TempFilesAlwaysRemoved == Spec => []TempFilesRemoved
<1>1. Init => CleanUp
  BY DEF Init, CleanUp, TempFilesRemoved
<1>2. CleanUp => TempFilesRemoved
  BY DEF CleanUp
<1> QED BY <1>1, <1>2, CleanUpStep, PTL DEF Spec

-----------------------------------------------------------------------------
(* The registry of Tunables: what it offers and what its defaults meet.    *)

TypeNames == {"predictor", "pipeline", "icache", "cache"}
Predictors == {"two-bit", "always-not-taken", "gshare", "tournament", "ras"}
ICaches == {"icache-fa", "icache-setassoc", "icache-plru", "icache-prefetch"}

LEMMA RegistryTypes ==
    /\ Types = TypeNames
    /\ DOMAIN TunablesOf["predictor"] = Predictors /\ DOMAIN TunablesOf["icache"] = ICaches
    /\ DOMAIN TunablesOf["pipeline"] = {"pipeline"} /\ DOMAIN TunablesOf["cache"] = {"l1-l2"}
BY DEF Types, TunablesOf, TypeNames, Predictors, ICaches, PredictorTunables, PipelineTunables,
       ICacheTunables, CacheTunables

LEMMA RegistryNames ==
    /\ Component = Predictors \cup ICaches \cup {"pipeline", "l1-l2"}
    /\ \A c \in Predictors : TypeOf(c) = "predictor"
    /\ \A c \in ICaches : TypeOf(c) = "icache"
    /\ TypeOf("pipeline") = "pipeline" /\ TypeOf("l1-l2") = "cache"
<1> DEFINE Registered(type) == DOMAIN TunablesOf[type]
<1>1. /\ Registered("predictor") = Predictors /\ Registered("icache") = ICaches
      /\ Registered("pipeline") = {"pipeline"} /\ Registered("cache") = {"l1-l2"} /\ Types = TypeNames
  BY RegistryTypes
<1>2. \A c : TypeOf(c) = CHOOSE type \in Types : c \in Registered(type)
  BY DEF TypeOf
<1>3. Component = UNION {Registered(type) : type \in Types}
  BY DEF Component
<1> HIDE DEF Registered
<1>4. ASSUME NEW c, NEW type \in Types, c \in Registered(type),
             \A other \in Types : c \in Registered(other) => other = type
      PROVE  TypeOf(c) = type
  BY <1>2, <1>4
<1>5. Component = Registered("predictor") \cup Registered("icache") \cup Registered("pipeline") \cup Registered("cache")
  BY <1>1, <1>3 DEF TypeNames
<1>6. ASSUME NEW c \in Predictors PROVE TypeOf(c) = "predictor"
  BY <1>1, <1>4 DEF TypeNames, Predictors, ICaches
<1>7. ASSUME NEW c \in ICaches PROVE TypeOf(c) = "icache"
  BY <1>1, <1>4 DEF TypeNames, Predictors, ICaches
<1>8. TypeOf("pipeline") = "pipeline" /\ TypeOf("l1-l2") = "cache"
  BY <1>1, <1>4 DEF TypeNames, Predictors, ICaches
<1> QED BY <1>1, <1>5, <1>6, <1>7, <1>8

\* A table of tunables that names each once, with a value its component takes.
Consistent(table) ==
    /\ \A t \in table, u \in table : t.name = u.name => t = u
    /\ \A t \in table : Meets(t.takes, t.default)

LEMMA PowersFit == 1024 \in PowersOfTwo /\ 4 \in PowersOfTwo
<1>1. 2 ^ 10 = 1024 /\ 2 ^ 2 = 4
  OBVIOUS
<1> DEFINE k == 10
           n == 1024
           j == 2
           m == 4
<1>2. n = 2 ^ k /\ k \in 0 .. LongBits - 1 /\ m = 2 ^ j /\ j \in 0 .. LongBits - 1
  BY <1>1, WidthsAssumption
<1> HIDE DEF k, n, j, m
<1>3. n \in PowersOfTwo /\ m \in PowersOfTwo
  BY <1>2 DEF PowersOfTwo
<1> QED BY <1>3 DEF n, m

\* What a component takes of a value, one requirement at a time.
LEMMA MeetsCases ==
    ASSUME NEW v
    PROVE  /\ Meets("any", v) /\ (Meets("positive", v) <=> v >= 1)
           /\ (Meets("power of two", v) <=> v \in PowersOfTwo)
           /\ (Meets("history", v) <=> v \in 1 .. 16) /\ (Meets("depth", v) <=> v <= 64)
BY DEF Meets, HistoryLengths, kMaxDepth

LEMMA TunableFields ==
    ASSUME NEW name, NEW takes, NEW default
    PROVE  /\ Tunable(name, takes, default).name = name
           /\ Tunable(name, takes, default).takes = takes
           /\ Tunable(name, takes, default).default = default
BY DEF Tunable

\* One tunable whose construction it would accept.
Sound(t, name) == t.name = name /\ Meets(t.takes, t.default)

LEMMA SoundTunable ==
    ASSUME NEW name, NEW takes, NEW default, Meets(takes, default)
    PROVE  Sound(Tunable(name, takes, default), name)
BY TunableFields DEF Sound

LEMMA SoundPositive ==
    ASSUME NEW name, NEW default \in Nat, default >= 1
    PROVE  Sound(Tunable(name, "positive", default), name)
BY MeetsCases, SoundTunable

LEMMA SoundAny ==
    ASSUME NEW name, NEW default
    PROVE  Sound(Tunable(name, "any", default), name)
BY MeetsCases, SoundTunable

LEMMA SoundHistory ==
    ASSUME NEW name, NEW default \in 1 .. 16
    PROVE  Sound(Tunable(name, "history", default), name)
BY MeetsCases, SoundTunable

LEMMA SoundPower ==
    ASSUME NEW name, NEW default \in PowersOfTwo
    PROVE  Sound(Tunable(name, "power of two", default), name)
BY MeetsCases, SoundTunable

LEMMA SoundRas == Sound(RasDepth, "ras-depth")
<1>1. Meets("depth", 16)
  BY DEF Meets, kMaxDepth
<1> QED BY <1>1, SoundTunable DEF RasDepth

\* Tables grow by a tunable of another name.
Without(table, name) == \A t \in table : t.name # name

LEMMA EmptyTable == Consistent({}) /\ \A name : Without({}, name)
BY DEF Consistent, Without

LEMMA GrownTable ==
    ASSUME NEW table, Consistent(table), NEW t, NEW name, Sound(t, name), Without(table, name)
    PROVE  /\ Consistent(table \cup {t})
           /\ \A other : other # name /\ Without(table, other) => Without(table \cup {t}, other)
BY DEF Consistent, Sound, Without

LEMMA PairTable ==
    ASSUME NEW t, NEW u, NEW a, NEW b, Sound(t, a), Sound(u, b), a # b
    PROVE  Consistent({t, u}) /\ Consistent({t})
           /\ \A other : other \notin {a, b} => Without({t, u}, other)
BY DEF Consistent, Sound, Without

LEMMA JoinedTables ==
    ASSUME NEW table, NEW others, Consistent(table), Consistent(others),
           \A u \in others : Without(table, u.name)
    PROVE  Consistent(table \cup others)
BY DEF Consistent, Without

LEMMA PredictorsConsistent == \A c \in Predictors : Consistent(PredictorTunables[c])
<1> DEFINE size == Tunable("table-size", "power of two", 1024)
           long == Tunable("history-bits", "history", 12)
           short == Tunable("history-bits", "history", 10)
<1>1. /\ PredictorTunables["two-bit"] = {size, RasDepth}
      /\ PredictorTunables["always-not-taken"] = {}
      /\ PredictorTunables["gshare"] = {long, RasDepth}
      /\ PredictorTunables["tournament"] = {short, RasDepth}
      /\ PredictorTunables["ras"] = {RasDepth}
  BY DEF PredictorTunables
<1>2. Sound(size, "table-size") /\ Sound(long, "history-bits") /\ Sound(short, "history-bits")
  <2>1. Sound(size, "table-size")
    BY PowersFit, SoundPower
  <2>2. Meets("history", 12) /\ Meets("history", 10)
    BY DEF Meets, HistoryLengths
  <2> QED BY <2>1, <2>2, SoundTunable
<1> HIDE DEF size, long, short
<1>3. Consistent({size, RasDepth}) /\ Consistent({RasDepth})
  BY <1>2, SoundRas, PairTable
<1>4. Consistent({long, RasDepth}) /\ Consistent({short, RasDepth})
  BY <1>2, SoundRas, PairTable
<1> QED BY <1>1, <1>3, <1>4, EmptyTable DEF Predictors

LEMMA ICachesConsistent == \A c \in ICaches : Consistent(ICacheTunables[c])
<1> DEFINE penalty == Tunable("miss-penalty", "any", 50)
           size == Tunable("line-size", "positive", 16)
           sets == Tunable("sets", "positive", 16)
           ways == Tunable("ways", "positive", 16)
           Ways(takes) == Tunable("ways", takes, 4)
<1>1. /\ ICacheTunables["icache-fa"] = Shared \cup {ways}
      /\ ICacheTunables["icache-plru"] = Shared \cup Geometry("power of two")
      /\ ICacheTunables["icache-setassoc"] = Shared \cup Geometry("positive")
      /\ ICacheTunables["icache-prefetch"] = Shared \cup Geometry("positive")
  BY DEF ICacheTunables
<1>2. Shared = {penalty, size} /\ \A takes : Geometry(takes) = {sets, Ways(takes)}
  BY DEF Shared, Geometry
<1>3. /\ Sound(penalty, "miss-penalty") /\ Sound(size, "line-size") /\ Sound(sets, "sets")
      /\ Sound(ways, "ways")
  BY SoundAny, SoundPositive
<1>4. Sound(Ways("positive"), "ways") /\ Sound(Ways("power of two"), "ways")
  <2>1. Sound(Ways("power of two"), "ways")
    BY PowersFit, SoundPower
  <2>2. Sound(Ways("positive"), "ways")
    BY SoundPositive
  <2> QED BY <2>1, <2>2
<1> HIDE DEF penalty, size, sets, ways, Ways
<1>5. Consistent(Shared) /\ Without(Shared, "sets") /\ Without(Shared, "ways")
  <2>1. Consistent(Shared)
    BY <1>2, <1>3, PairTable
  <2>2. Without(Shared, "sets") /\ Without(Shared, "ways")
    BY <1>2, <1>3 DEF Without, Sound
  <2> QED BY <2>1, <2>2
<1>6. Consistent(Shared \cup {ways})
  BY <1>3, <1>5, GrownTable
<1>7. ASSUME NEW takes, Sound(Ways(takes), "ways") PROVE Consistent(Shared \cup Geometry(takes))
  <2>1. Consistent(Geometry(takes))
    BY <1>2, <1>3, <1>7, PairTable
  <2>2. \A u \in Geometry(takes) : Without(Shared, u.name)
    BY <1>2, <1>3, <1>5, <1>7 DEF Sound
  <2> QED BY <2>1, <2>2, <1>5, JoinedTables
<1> QED BY <1>1, <1>4, <1>6, <1>7 DEF ICaches

\* The tunables of one level of the data cache.
LEMMA LevelConsistent ==
    ASSUME NEW a, NEW b, NEW c, NEW d, NEW e, NEW na, NEW nb, NEW nc, NEW nd, NEW ne,
           Sound(a, na), Sound(b, nb), Sound(c, nc), Sound(d, nd), Sound(e, ne),
           na # nb, nc \notin {na, nb}, nd \notin {na, nb, nc}, ne \notin {na, nb, nc, nd}
    PROVE  /\ Consistent({a, b, c, d, e})
           /\ \A other : other \notin {na, nb, nc, nd, ne} => Without({a, b, c, d, e}, other)
BY DEF Consistent, Sound, Without

LEMMA OthersConsistent ==
    Consistent(PipelineTunables["pipeline"]) /\ Consistent(CacheTunables["l1-l2"])
<1> DEFINE stages == Tunable("stages", "positive", 5)
           stall == Tunable("stall-penalty", "any", 0)
           a1 == Tunable("l1-hit-latency", "any", 4)
           b1 == Tunable("l1-miss-penalty", "any", 100)
           c1 == Tunable("l1-line-size", "positive", 16)
           d1 == Tunable("l1-sets", "positive", 16)
           e1 == Tunable("l1-ways", "positive", 4)
           a2 == Tunable("l2-hit-latency", "any", 14)
           b2 == Tunable("l2-miss-penalty", "any", 100)
           c2 == Tunable("l2-line-size", "positive", 64)
           d2 == Tunable("l2-sets", "positive", 32)
           e2 == Tunable("l2-ways", "positive", 8)
<1>1. PipelineTunables["pipeline"] = {stages, stall}
  BY DEF PipelineTunables
<1>2. CacheTunables["l1-l2"] = {a1, b1, c1, d1, e1} \cup {a2, b2, c2, d2, e2}
  BY DEF CacheTunables
<1>3. Sound(stages, "stages") /\ Sound(stall, "stall-penalty")
  BY SoundAny, SoundPositive
<1>4. /\ Sound(a1, "l1-hit-latency") /\ Sound(b1, "l1-miss-penalty") /\ Sound(c1, "l1-line-size")
      /\ Sound(d1, "l1-sets") /\ Sound(e1, "l1-ways")
  BY SoundAny, SoundPositive
<1>5. /\ Sound(a2, "l2-hit-latency") /\ Sound(b2, "l2-miss-penalty") /\ Sound(c2, "l2-line-size")
      /\ Sound(d2, "l2-sets") /\ Sound(e2, "l2-ways")
  BY SoundAny, SoundPositive
<1> HIDE DEF stages, stall, a1, b1, c1, d1, e1, a2, b2, c2, d2, e2
<1>6. Consistent({stages, stall})
  BY <1>3, PairTable
<1> DEFINE l1 == {a1, b1, c1, d1, e1}
           l2 == {a2, b2, c2, d2, e2}
           n1 == {"l1-hit-latency", "l1-miss-penalty", "l1-line-size", "l1-sets", "l1-ways"}
<1>7. Consistent(l1) /\ \A other : other \notin n1 => Without(l1, other)
  <2>1. Consistent(l1)
    BY <1>4, LevelConsistent
  <2>2. \A other : other \notin n1 => Without(l1, other)
    BY <1>4 DEF Without, Sound
  <2> QED BY <2>1, <2>2
<1>8. Consistent(l2)
  BY <1>5, LevelConsistent
<1>9. \A u \in l2 : u.name \notin n1
  BY <1>5 DEF Sound
<1> HIDE DEF l1, l2, n1
<1>10. Consistent(l1 \cup l2)
  BY <1>7, <1>8, <1>9, JoinedTables
<1> QED BY <1>1, <1>2, <1>6, <1>10 DEF l1, l2

LEMMA RegistryConsistent == \A c \in Component : Consistent(Parameters(c))
<1>1. /\ TunablesOf["predictor"] = PredictorTunables /\ TunablesOf["icache"] = ICacheTunables
      /\ TunablesOf["pipeline"] = PipelineTunables /\ TunablesOf["cache"] = CacheTunables
  BY DEF TunablesOf
<1>2. \A c \in Predictors : Parameters(c) = PredictorTunables[c]
  BY <1>1, RegistryNames DEF Parameters
<1>3. \A c \in ICaches : Parameters(c) = ICacheTunables[c]
  BY <1>1, RegistryNames DEF Parameters
<1>4. Parameters("pipeline") = PipelineTunables["pipeline"] /\ Parameters("l1-l2") = CacheTunables["l1-l2"]
  BY <1>1, RegistryNames DEF Parameters
<1> QED BY <1>2, <1>3, <1>4, RegistryNames, PredictorsConsistent, ICachesConsistent, OthersConsistent

-----------------------------------------------------------------------------
(* A component as its configuration.                                       *)

NamesIn(c) == {t.name : t \in Parameters(c)}

\* A configuration gives every tunable a value; but for the pipeline, whose
\* fields are narrower than what it checks, one the component takes.
Sized(c, config) ==
    /\ config = [p \in NamesIn(c) |-> config[p]]
    /\ c # "pipeline" => \A t \in Parameters(c) : Meets(t.takes, config[t.name])

LEMMA MadeSized == ASSUME NEW c \in Component PROVE Sized(c, Made(c)) /\ DOMAIN Made(c) = NamesIn(c)
<1>1. Made(c) = [p \in NamesIn(c) |-> (CHOOSE t \in Parameters(c) : t.name = p).default]
  BY DEF Made, NamesIn
<1>2. ASSUME NEW t \in Parameters(c) PROVE Meets(t.takes, Made(c)[t.name])
  <2>1. t.name \in NamesIn(c)
    BY DEF NamesIn
  <2>2. (CHOOSE u \in Parameters(c) : u.name = t.name) = t
    BY RegistryConsistent DEF Consistent
  <2>3. Made(c)[t.name] = t.default
    BY <1>1, <2>1, <2>2
  <2> QED BY <2>3, RegistryConsistent DEF Consistent
<1> QED BY <1>1, <1>2 DEF Sized

\* set_parameter gives the tunable it names what is kept of the value and
\* leaves the others alone.
LEMMA SetSized ==
    ASSUME NEW c \in Component, NEW config, Sized(c, config), NEW name, NEW v
    PROVE  /\ Sized(c, SetParameter(c, config, name, v))
           /\ \A p \in NamesIn(c) : SetParameter(c, config, name, v)[p] =
                  IF p = name /\ Accepts(c, name, v) THEN Kept(c, v) ELSE config[p]
<1> DEFINE set == SetParameter(c, config, name, v)
<1>1. CASE ~Accepts(c, name, v)
  BY <1>1 DEF SetParameter
<1>2. CASE Accepts(c, name, v)
  <2>1. set = [config EXCEPT ![name] = Kept(c, v)]
    BY <1>2 DEF SetParameter
  <2>2. PICK t \in Parameters(c) : t.name = name /\ Meets(t.takes, v)
    BY <1>2 DEF Accepts
  <2>3. name \in NamesIn(c) /\ DOMAIN config = NamesIn(c)
    BY <2>2 DEF NamesIn, Sized
  <2>4. /\ set = [p \in NamesIn(c) |-> set[p]]
        /\ \A p \in NamesIn(c) : set[p] = IF p = name THEN Kept(c, v) ELSE config[p]
    BY <2>1, <2>3
  <2>5. ASSUME c # "pipeline", NEW u \in Parameters(c) PROVE Meets(u.takes, set[u.name])
    <3>1. u.name \in NamesIn(c) /\ Kept(c, v) = v
      BY <2>5 DEF NamesIn, Kept
    <3>2. CASE u.name = name
      <4>1. u = t
        BY <3>2, <2>2, RegistryConsistent DEF Consistent
      <4> QED BY <4>1, <3>1, <2>2, <2>4
    <3>3. CASE u.name # name
      <4>1. set[u.name] = config[u.name]
        BY <3>1, <3>3, <2>4
      <4> QED BY <4>1, <2>5 DEF Sized
    <3> QED BY <3>2, <3>3
  <2> QED BY <1>2, <2>4, <2>5 DEF Sized
<1> QED BY <1>1, <1>2

-----------------------------------------------------------------------------
(* The last of several.                                                    *)

\* The places of a sequence, or of its first k, that hold a member of F.
Places(s, F) == {i \in DOMAIN s : s[i] \in F}
FirstPlaces(s, k, F) == {i \in 1 .. k : s[i] \in F}
Final(s, F) == s[Latest(Places(s, F))]

\* There is a latest of them, if there are any.
Ordered(indices) == indices # {} => \E i \in indices : \A j \in indices : j <= i

LEMMA LatestIsTop ==
    ASSUME NEW indices \in SUBSET Int, NEW top \in indices, \A j \in indices : j <= top
    PROVE  Latest(indices) = top
<1>1. ASSUME NEW i \in indices, \A j \in indices : j <= i PROVE i = top
  BY <1>1
<1>2. \E i \in indices : \A j \in indices : j <= i
  OBVIOUS
<1>3. Latest(indices) \in indices /\ \A j \in indices : j <= Latest(indices)
  BY <1>2 DEF Latest
<1> QED BY <1>1, <1>3

LEMMA LatestGrows ==
    ASSUME NEW k \in Nat, NEW indices \in SUBSET (1 .. k)
    PROVE  Latest(indices \cup {k + 1}) = k + 1 /\ Ordered(indices \cup {k + 1})
<1>1. \A j \in indices \cup {k + 1} : j <= k + 1
  OBVIOUS
<1>2. indices \cup {k + 1} \in SUBSET Int /\ k + 1 \in indices \cup {k + 1}
  OBVIOUS
<1>3. Latest(indices \cup {k + 1}) = k + 1
  BY <1>1, <1>2, LatestIsTop
<1> QED BY <1>1, <1>3 DEF Ordered

LEMMA LatestIsOne ==
    ASSUME NEW indices, indices # {}, Ordered(indices)
    PROVE  Latest(indices) \in indices
BY DEF Latest, Ordered

\* A member put at the end is the final one.
LEMMA FinalAppended ==
    ASSUME NEW S, NEW s \in Seq(S), NEW x \in S, NEW F, x \in F
    PROVE  /\ Places(Append(s, x), F) # {} /\ Ordered(Places(Append(s, x), F))
           /\ Final(Append(s, x), F) = x
<1> DEFINE n == Len(s)
           t == Append(s, x)
<1>1. n \in Nat /\ DOMAIN t = 1 .. n + 1 /\ DOMAIN s = 1 .. n /\ t[n + 1] = x
  OBVIOUS
<1>2. \A i \in 1 .. n : t[i] = s[i]
  OBVIOUS
<1>3. Places(t, F) = Places(s, F) \cup {n + 1} /\ Places(s, F) \in SUBSET (1 .. n)
  <2> HIDE DEF n, t
  <2> QED BY <1>1, <1>2 DEF Places
<1> HIDE DEF n, t
<1>4. Latest(Places(t, F)) = n + 1 /\ Ordered(Places(t, F))
  BY <1>1, <1>3, LatestGrows
<1>5. Places(t, F) # {} /\ Ordered(Places(t, F)) /\ Final(t, F) = x
  BY <1>1, <1>3, <1>4 DEF Final
<1> QED BY <1>5 DEF t

\* Any other leaves the final one what it was.
LEMMA FinalKept ==
    ASSUME NEW S, NEW s \in Seq(S), NEW x \in S, NEW F, x \notin F, Ordered(Places(s, F))
    PROVE  /\ Places(Append(s, x), F) = Places(s, F)
           /\ Places(s, F) # {} => Final(Append(s, x), F) = Final(s, F)
<1> DEFINE n == Len(s)
           t == Append(s, x)
<1>1. n \in Nat /\ DOMAIN t = 1 .. n + 1 /\ DOMAIN s = 1 .. n /\ t[n + 1] = x
  OBVIOUS
<1>2. \A i \in 1 .. n : t[i] = s[i]
  OBVIOUS
<1> HIDE DEF n, t
<1>3. Places(t, F) = Places(s, F) /\ Places(s, F) \in SUBSET (1 .. n)
  BY <1>1, <1>2 DEF Places
<1>4. ASSUME Places(s, F) # {} PROVE Final(t, F) = Final(s, F)
  <2>1. Latest(Places(s, F)) \in 1 .. n
    BY <1>3, <1>4, LatestIsOne
  <2> QED BY <1>2, <1>3, <2>1 DEF Final
<1> QED BY <1>3, <1>4 DEF t

\* The places among the first, one more at a time.
LEMMA FirstPlacesGrow ==
    ASSUME NEW s, NEW k \in Nat, NEW F
    PROVE  /\ s[k + 1] \in F => Latest(FirstPlaces(s, k + 1, F)) = k + 1
                                /\ FirstPlaces(s, k + 1, F) # {}
           /\ s[k + 1] \notin F => FirstPlaces(s, k + 1, F) = FirstPlaces(s, k, F)
           /\ FirstPlaces(s, 0, F) = {}
<1>1. FirstPlaces(s, k, F) \in SUBSET (1 .. k) /\ FirstPlaces(s, 0, F) = {}
  BY DEF FirstPlaces
<1>2. ASSUME s[k + 1] \in F PROVE FirstPlaces(s, k + 1, F) = FirstPlaces(s, k, F) \cup {k + 1}
  BY <1>2 DEF FirstPlaces
<1>3. ASSUME s[k + 1] \notin F PROVE FirstPlaces(s, k + 1, F) = FirstPlaces(s, k, F)
  BY <1>3 DEF FirstPlaces
<1> QED BY <1>1, <1>2, <1>3, LatestGrows

-----------------------------------------------------------------------------
(* The types, with sizes that components can work with.                    *)

Phase == {"arguments", "validate", "apply", "run", "left"}
Option == {"--predictor", "--icache", "--dcache", "--comparison", "--pipeline-stages",
           "--stall-penalty", "--param"}
Argument == [option : Option, value : Names \cup Texts \cup Overrides]
Options == [predictor : Names \cup {"two-bit"}, icache : Names \cup {"icache-fa"},
         dcache : Names \cup {"l1-l2"}, saw_predictor : BOOLEAN, comparison_mode : BOOLEAN,
         comparison_type : Names \cup Types \cup {""}, comparison_only : Component \cup {""},
         overrides : Seq(Overrides)]

CommandTypeOK ==
    /\ stage \in Phase /\ argv \in Seq(Argument) /\ options \in Options /\ turn \in Nat
    /\ Sized("pipeline", pipeline)
    /\ DOMAIN active \subseteq Component
    /\ \A c \in DOMAIN active : Sized(c, active[c])

LEMMA PipelineNames == "pipeline" \in Component /\ {"stages", "stall-penalty"} \subseteq NamesIn("pipeline")
<1>1. "pipeline" \in Component
  BY RegistryNames
<1>2. Parameters("pipeline") = {Tunable("stages", "positive", 5), Tunable("stall-penalty", "any", 0)}
  BY RegistryNames DEF Parameters, TunablesOf, PipelineTunables
<1> QED BY <1>1, <1>2, TunableFields DEF NamesIn

LEMMA InitTypes == CommandInit => CommandTypeOK
<1> SUFFICES ASSUME CommandInit PROVE CommandTypeOK
  OBVIOUS
<1>1. options \in Options
  <2>1. options = [predictor |-> "two-bit", icache |-> "icache-fa", dcache |-> "l1-l2",
               saw_predictor |-> FALSE, comparison_mode |-> FALSE,
               comparison_type |-> "", comparison_only |-> "", overrides |-> <<>>]
    BY DEF CommandInit
  <2>2. <<>> \in Seq(Overrides)
    BY EmptySeq
  <2> QED BY <2>1, <2>2 DEF Options
<1>2. argv \in Seq(Argument) /\ turn \in Nat /\ stage \in Phase
  BY EmptySeq DEF CommandInit, Phase
<1>3. Sized("pipeline", pipeline)
  BY MadeSized, PipelineNames DEF CommandInit
<1>4. DOMAIN active = {}
  <2>1. active = <<>>
    BY DEF CommandInit
  <2> QED BY <2>1, EmptySeq
<1> QED BY <1>1, <1>2, <1>3, <1>4 DEF CommandTypeOK

LEMMA ReadKeepsTypes ==
    ASSUME CommandTypeOK, NEW o \in Option, NEW v \in Names \cup Texts \cup Overrides, Read(o, v)
    PROVE  /\ argv' \in Seq(Argument) /\ argv' = Append(argv, [option |-> o, value |-> v])
           /\ [option |-> o, value |-> v] \in Argument
           /\ active' = active /\ turn' = turn /\ stage = "arguments"
<1> DEFINE x == [option |-> o, value |-> v]
<1>1. x \in Argument
  BY DEF Argument
<1> HIDE DEF x
<1>2. argv' = Append(argv, x) /\ active' = active /\ turn' = turn /\ stage = "arguments"
  BY DEF Read, x
<1>3. argv' \in Seq(Argument)
  BY <1>1, <1>2 DEF CommandTypeOK
<1> QED BY <1>1, <1>2, <1>3 DEF x

LEMMA TypeOfType == ASSUME NEW c \in Component PROVE TypeOf(c) \in Types
BY RegistryNames, RegistryTypes DEF TypeNames

\* What an option does to what main keeps of it.
LEMMA SelectKeepsTypes ==
    ASSUME CommandTypeOK, NEW name \in Names,
           SelectPredictor(name) \/ SelectICache(name) \/ SelectDCache(name) \/ Compare(name)
    PROVE  CommandTypeOK'
<1>1. argv' \in Seq(Argument) /\ active' = active /\ turn' = turn /\ pipeline' = pipeline
  BY ReadKeepsTypes DEF SelectPredictor, SelectICache, SelectDCache, Compare, Reject, Option
<1>2. options' \in Options
  <2>0. options \in Options
    BY DEF CommandTypeOK
  <2>1. CASE SelectPredictor(name)
    BY <2>0, <2>1 DEF SelectPredictor, Options
  <2>2. CASE SelectICache(name)
    BY <2>0, <2>2 DEF SelectICache, Options
  <2>3. CASE SelectDCache(name)
    BY <2>0, <2>3 DEF SelectDCache, Options
  <2>4. CASE Compare(name)
    <3>1. CASE name \in Component /\ options' = [options EXCEPT !.comparison_mode = TRUE,
                       !.comparison_only = name, !.comparison_type = TypeOf(name)]
      <4>1. TypeOf(name) \in Types
        BY <3>1, TypeOfType
      <4> QED BY <2>0, <3>1, <4>1 DEF Options
    <3>2. CASE options' = [options EXCEPT !.comparison_mode = TRUE, !.comparison_type = name]
      BY <2>0, <3>2 DEF Options
    <3>3. CASE options' = options
      BY <2>0, <3>3
    <3> QED BY <2>4, <3>1, <3>2, <3>3 DEF Compare, Reject
  <2> QED BY <2>1, <2>2, <2>3, <2>4
<1>3. stage' \in Phase
  BY DEF SelectPredictor, SelectICache, SelectDCache, Compare, Reject, CommandTypeOK, Phase
<1> QED BY <1>1, <1>2, <1>3 DEF CommandTypeOK

LEMMA PipelineOptionKeepsTypes ==
    ASSUME CommandTypeOK, NEW o \in {"--pipeline-stages", "--stall-penalty"}, NEW name,
           NEW v \in Texts, PipelineOption(o, name, v)
    PROVE  CommandTypeOK'
<1>1. argv' \in Seq(Argument) /\ active' = active /\ turn' = turn
  BY ReadKeepsTypes DEF PipelineOption, Option
<1>2. options' = options /\ stage' \in Phase
  BY DEF PipelineOption, Reject, CommandTypeOK, Phase
<1>3. Sized("pipeline", pipeline')
  <2>1. CASE Accepts("pipeline", name, v)
    <3>1. pipeline' = SetParameter("pipeline", pipeline, name, v)
      BY <2>1 DEF PipelineOption, SetParameter, Kept
    <3> QED BY <3>1, PipelineNames, SetSized DEF CommandTypeOK
  <2>2. CASE ~Accepts("pipeline", name, v)
    BY <2>2 DEF PipelineOption, Reject, CommandTypeOK
  <2> QED BY <2>1, <2>2
<1> QED BY <1>1, <1>2, <1>3 DEF CommandTypeOK

LEMMA ParamKeepsTypes == ASSUME CommandTypeOK, NEW o \in Overrides, Param(o) PROVE CommandTypeOK'
<1>1. argv' \in Seq(Argument) /\ active' = active /\ turn' = turn
  BY ReadKeepsTypes DEF Param, Option
<1>2. options' = [options EXCEPT !.overrides = Append(@, o)] /\ stage' = stage /\ pipeline' = pipeline
  BY DEF Param
<1>3. options' \in Options
  <2>1. options \in Options /\ options.overrides \in Seq(Overrides)
    BY DEF CommandTypeOK, Options
  <2>2. Append(options.overrides, o) \in Seq(Overrides)
    BY <2>1
  <2> QED BY <1>2, <2>1, <2>2 DEF Options
<1> QED BY <1>1, <1>2, <1>3 DEF CommandTypeOK

LEMMA NamesAreComponents == ASSUME NEW type PROVE NamesOf(type) \subseteq Component
BY DEF NamesOf

LEMMA MakeKeepsTypes == ASSUME CommandTypeOK, Make PROVE CommandTypeOK'
<1>1. UNCHANGED <<argv, options, pipeline>> /\ turn' \in Nat /\ stage' \in Phase
  BY DEF Make, CommandTypeOK, Phase
<1>2. ASSUME NEW names \in SUBSET Component, active' = [c \in names |-> Made(c)]
      PROVE  DOMAIN active' \subseteq Component /\ \A c \in DOMAIN active' : Sized(c, active'[c])
  BY <1>2, MadeSized
<1>3. CASE options.comparison_mode
  <2>1. Compared \in SUBSET Component
    BY NamesAreComponents DEF Compared, CommandTypeOK, Options
  <2>2. active' = [c \in Compared |-> Made(c)]
    BY <1>3 DEF Make
  <2>3. DOMAIN active' \subseteq Component /\ \A c \in DOMAIN active' : Sized(c, active'[c])
    BY <1>2, <2>1, <2>2
  <2> QED BY <1>1, <2>3 DEF CommandTypeOK
<1>4. CASE ~options.comparison_mode
  <2>1. CASE active' = active
    BY <1>1, <2>1 DEF CommandTypeOK
  <2>2. CASE active' # active
    <3>1. /\ options.predictor \in NamesOf("predictor") /\ options.icache \in NamesOf("icache")
          /\ options.dcache \in NamesOf("cache")
          /\ active' = [c \in {options.predictor, options.icache, options.dcache} |-> Made(c)]
      BY <1>4, <2>2 DEF Make
    <3>2. {options.predictor, options.icache, options.dcache} \in SUBSET Component
      BY <3>1, NamesAreComponents
    <3>3. DOMAIN active' \subseteq Component /\ \A c \in DOMAIN active' : Sized(c, active'[c])
      BY <1>2, <3>1, <3>2
    <3> QED BY <1>1, <3>3 DEF CommandTypeOK
  <2> QED BY <2>1, <2>2
<1> QED BY <1>3, <1>4

LEMMA ApplyKeepsTypes == ASSUME CommandTypeOK, Apply PROVE CommandTypeOK'
<1> DEFINE o == options.overrides[turn]
<1>1. /\ UNCHANGED <<stage, argv, options>> /\ turn' = turn + 1
      /\ active' = [c \in DOMAIN active |->
                        IF c = o.component THEN SetParameter(c, active[c], o.name, o.value)
                        ELSE active[c]]
      /\ pipeline' = IF o.component = "pipeline"
                     THEN SetParameter("pipeline", pipeline, o.name, o.value) ELSE pipeline
  BY DEF Apply
<1> HIDE DEF o
<1>2. Sized("pipeline", pipeline')
  BY <1>1, SetSized, PipelineNames DEF CommandTypeOK
<1>3. DOMAIN active' = DOMAIN active
  BY <1>1
<1>4. ASSUME NEW c \in DOMAIN active' PROVE Sized(c, active'[c])
  <2>1. c \in Component /\ Sized(c, active[c])
    BY <1>3, <1>4 DEF CommandTypeOK
  <2> QED BY <1>1, <1>3, <1>4, <2>1, SetSized
<1> QED BY <1>1, <1>2, <1>3, <1>4 DEF CommandTypeOK

\* reset leaves a component its configuration.
LEMMA RunKeepsComponents == ASSUME Run
    PROVE DOMAIN active' = DOMAIN active /\ \A c \in DOMAIN active : active'[c] = active[c]
BY DEF Run, Reset

LEMMA TypesAreKept == ASSUME CommandTypeOK, [CommandNext]_commandVars PROVE CommandTypeOK'
<1>1. ASSUME NEW name \in Names,
             SelectPredictor(name) \/ SelectICache(name) \/ SelectDCache(name) \/ Compare(name)
      PROVE  CommandTypeOK'
  BY <1>1, SelectKeepsTypes
<1>2. ASSUME NEW v \in Texts, \/ PipelineOption("--pipeline-stages", "stages", v)
                              \/ PipelineOption("--stall-penalty", "stall-penalty", v)
      PROVE  CommandTypeOK'
  BY <1>2, PipelineOptionKeepsTypes
<1>3. ASSUME NEW o \in Overrides, Param(o) PROVE CommandTypeOK'
  BY <1>3, ParamKeepsTypes
<1>4. CASE LeaveEarly \/ EndOfArguments \/ Validate
  <2>1. UNCHANGED <<argv, options, pipeline, active>> /\ stage' \in Phase /\ turn' \in Nat
    BY <1>4 DEF LeaveEarly, EndOfArguments, Validate, Reject, CommandTypeOK, Phase
  <2> QED BY <2>1 DEF CommandTypeOK
<1>5. CASE Make
  BY <1>5, MakeKeepsTypes
<1>6. CASE Apply
  BY <1>6, ApplyKeepsTypes
<1>7. CASE Run
  <2>1. UNCHANGED <<argv, options, pipeline, turn>> /\ stage' \in Phase
    BY <1>7 DEF Run, Phase
  <2>2. DOMAIN active' \subseteq Component /\ \A c \in DOMAIN active' : Sized(c, active'[c])
    BY <1>7, RunKeepsComponents DEF CommandTypeOK
  <2> QED BY <2>1, <2>2 DEF CommandTypeOK
<1>8. CASE UNCHANGED commandVars
  BY <1>8 DEF commandVars, CommandTypeOK
<1> QED BY <1>1, <1>2, <1>3, <1>4, <1>5, <1>6, <1>7, <1>8 DEF CommandNext

(***************************************************************************)
(* The locals of main, its pipeline and the components it makes keep their *)
(* types, for every command line.                                          *)
(***************************************************************************)
THEOREM ConfigurationsAreTyped == CommandSpec => []CommandTypeOK
BY InitTypes, TypesAreKept, PTL DEF CommandSpec

(***************************************************************************)
(* For every command line, of any length, what prices the run has sizes    *)
(* its simulator can work with: no override and no order of overrides      *)
(* breaks what construction gave (pseudo_lru.hpp:9, two_bit_saturating.cpp:12).*)
(***************************************************************************)
THEOREM GeometryStaysUsable == CommandSpec => []GeometryUsable
<1>1. CommandTypeOK => GeometryUsable
  BY DEF CommandTypeOK, Sized, GeometryUsable
<1> QED BY <1>1, ConfigurationsAreTyped, PTL

-----------------------------------------------------------------------------
(* What validate_overrides has seen holds of everything applied.           *)

Accepted(o) == MayTarget(o.component) /\ Accepts(o.component, o.name, o.value)

Validated ==
    /\ stage = "arguments" => turn = 1
    /\ stage = "validate" => turn >= 1 /\ \A i \in 1 .. turn - 1 : Accepted(options.overrides[i])
    /\ stage \in {"apply", "run"} => \A i \in DOMAIN options.overrides : Accepted(options.overrides[i])

\* Outside a comparison the components are the three that were named.
Named ==
    stage \in {"apply", "run"} /\ ~options.comparison_mode =>
        DOMAIN active = {options.predictor, options.icache, options.dcache}

OverridesInv == CommandTypeOK /\ Validated /\ Named

\* Everything an argument does happens in the first phase.
LEMMA OptionsComeFirst ==
    ASSUME CommandTypeOK,
           \/ \E name \in Names : \/ SelectPredictor(name) \/ SelectICache(name)
                                  \/ SelectDCache(name) \/ Compare(name)
           \/ \E v \in Texts : \/ PipelineOption("--pipeline-stages", "stages", v)
                               \/ PipelineOption("--stall-penalty", "stall-penalty", v)
           \/ \E o \in Overrides : Param(o)
    PROVE  stage = "arguments" /\ stage' \in {"arguments", "left"} /\ turn' = turn
BY DEF SelectPredictor, SelectICache, SelectDCache, Compare, PipelineOption, Param, Read, Reject

LEMMA OverridesAreKept == ASSUME OverridesInv, [CommandNext]_commandVars PROVE OverridesInv'
<1>0. CommandTypeOK /\ CommandTypeOK' /\ Validated /\ Named
  BY TypesAreKept DEF OverridesInv
<1>2. ASSUME stage' = "left" PROVE Validated' /\ Named'
  BY <1>2 DEF Validated, Named
<1>3. ASSUME stage = "arguments", stage' = "arguments", turn' = turn PROVE Validated' /\ Named'
  BY <1>0, <1>3 DEF Validated, Named
<1>4. CASE EndOfArguments
  <2>1. stage' \in {"left", "validate"} /\ turn' = 1
    BY <1>0, <1>4 DEF EndOfArguments, Validated
  <2> QED BY <1>0, <1>2, <2>1 DEF Validated, Named, OverridesInv
<1>5. CASE Validate
  <2>1. UNCHANGED <<argv, options, pipeline, active>> /\ stage = "validate" /\ turn <= Len(options.overrides)
    BY <1>5 DEF Validate
  <2>2. CASE stage' = "left"
    BY <1>0, <1>2, <2>2 DEF OverridesInv
  <2>3. CASE stage' # "left"
    <3>1. stage' = "validate" /\ turn' = turn + 1 /\ Accepted(options.overrides[turn])
      BY <1>5, <2>1, <2>3 DEF Validate, Accepted
    <3>2. turn \in Nat /\ turn >= 1 /\ \A i \in 1 .. turn - 1 : Accepted(options.overrides[i])
      BY <1>0, <2>1 DEF Validated, CommandTypeOK
    <3>3. \A i \in 1 .. turn' - 1 : Accepted(options.overrides[i])
      BY <3>1, <3>2
    <3>4. \A i \in 1 .. turn' - 1 : Accepted(options.overrides[i])'
      BY <2>1, <3>3 DEF Accepted, MayTarget
    <3> QED BY <1>0, <3>1, <3>2, <3>4 DEF OverridesInv, Validated, Named
  <2> QED BY <2>2, <2>3
<1>6. CASE Make
  <2>1. UNCHANGED <<argv, options, pipeline>> /\ stage = "validate" /\ turn > Len(options.overrides) /\ turn' = 1
    BY <1>6 DEF Make
  <2>2. CASE stage' = "left"
    BY <1>0, <1>2, <2>2 DEF OverridesInv
  <2>3. CASE stage' # "left"
    <3>1. /\ stage' = "apply"
          /\ ~options.comparison_mode => active' = [c \in {options.predictor, options.icache, options.dcache} |-> Made(c)]
      BY <1>6, <2>3 DEF Make
    <3>2. options.overrides \in Seq(Overrides)
      BY <1>0 DEF CommandTypeOK, Options
    <3>3. \A i \in DOMAIN options.overrides : i \in 1 .. turn - 1
      BY <1>0, <2>1, <3>2 DEF CommandTypeOK
    <3>4. \A i \in DOMAIN options.overrides : Accepted(options.overrides[i])
      BY <1>0, <2>1, <3>3 DEF Validated
    <3>5. \A i \in DOMAIN options'.overrides : Accepted(options.overrides[i])'
      BY <2>1, <3>4 DEF Accepted, MayTarget
    <3>6. Named'
      BY <2>1, <3>1 DEF Named
    <3> QED BY <1>0, <3>1, <3>5, <3>6 DEF OverridesInv, Validated
  <2> QED BY <2>2, <2>3
<1>7. CASE Apply \/ Run
  <2>1. /\ options' = options /\ stage = "apply" /\ stage' \in {"apply", "run"}
        /\ DOMAIN active' = DOMAIN active
    BY <1>7, RunKeepsComponents DEF Apply, Run
  <2>2. \A i \in DOMAIN options'.overrides : Accepted(options.overrides[i])'
    BY <1>0, <2>1 DEF Validated, Accepted, MayTarget
  <2> QED BY <1>0, <2>1, <2>2 DEF OverridesInv, Validated, Named
<1>8. CASE UNCHANGED commandVars
  BY <1>0, <1>8 DEF commandVars, OverridesInv, Validated, Named, Accepted, MayTarget
<1>9. CASE LeaveEarly
  BY <1>0, <1>2, <1>9 DEF LeaveEarly, Reject, OverridesInv
<1>10. CASE \/ \E name \in Names : \/ SelectPredictor(name) \/ SelectICache(name)
                                   \/ SelectDCache(name) \/ Compare(name)
            \/ \E v \in Texts : \/ PipelineOption("--pipeline-stages", "stages", v)
                                \/ PipelineOption("--stall-penalty", "stall-penalty", v)
            \/ \E o \in Overrides : Param(o)
  BY <1>0, <1>2, <1>3, <1>10, OptionsComeFirst DEF OverridesInv
<1> QED BY <1>4, <1>5, <1>6, <1>7, <1>8, <1>9, <1>10 DEF CommandNext

LEMMA OverridesAreValidated == CommandSpec => []OverridesInv
<1>1. CommandInit => OverridesInv
  <2> SUFFICES ASSUME CommandInit PROVE OverridesInv
    OBVIOUS
  <2>1. CommandTypeOK /\ stage = "arguments" /\ turn = 1
    BY InitTypes DEF CommandInit
  <2> QED BY <2>1 DEF OverridesInv, Validated, Named
<1> QED BY <1>1, OverridesAreKept, PTL DEF CommandSpec

(***************************************************************************)
(* No command line has an override dropped in silence: one that names a    *)
(* component outside the run, or that no number can be read from, ends     *)
(* main before the program starts.                                         *)
(***************************************************************************)
THEOREM EveryOverrideCounts == CommandSpec => []NoOverrideIgnored
<1>1. OverridesInv => NoOverrideIgnored
  <2> SUFFICES ASSUME OverridesInv, stage = "run", ~options.comparison_mode, NEW i \in DOMAIN options.overrides
               PROVE  /\ options.overrides[i].component \in DOMAIN active \cup {"pipeline"}
                      /\ options.overrides[i].value # Junk
    BY DEF NoOverrideIgnored
  <2>1. Accepted(options.overrides[i])
    BY DEF OverridesInv, Validated
  <2> QED BY <2>1 DEF OverridesInv, Named, Accepted, MayTarget, Accepts
<1> QED BY <1>1, OverridesAreValidated, PTL

-----------------------------------------------------------------------------
(* What was asked for, on the command line and in the list of overrides.   *)

ParamsFor(c, name) ==
    {x \in Argument : x.option = "--param" /\ x.value.component = c /\ x.value.name = name}
OptionsFor(option) == {x \in Argument : x.option = option}
OverridesFor(c, name) == {o \in Overrides : o.component = c /\ o.name = name}

PipelineOptions == {"--pipeline-stages", "--stall-penalty"}

\* The list of overrides tells what the --param arguments told.
ListAgrees(c, name) ==
    /\ Ordered(Places(argv, ParamsFor(c, name)))
    /\ Ordered(Places(options.overrides, OverridesFor(c, name)))
    /\ Places(argv, ParamsFor(c, name)) = {} <=> Places(options.overrides, OverridesFor(c, name)) = {}
    /\ Places(argv, ParamsFor(c, name)) # {} =>
          Final(argv, ParamsFor(c, name)).value = Final(options.overrides, OverridesFor(c, name))

\* The value of a tunable of the pipeline before the overrides.
Chosen(option, name) ==
    IF Places(argv, OptionsFor(option)) = {} THEN Made("pipeline")[name]
    ELSE AsInt(Final(argv, OptionsFor(option)).value)

ArgumentsInv ==
    /\ CommandTypeOK
    /\ stage # "left" => \A c \in Component : \A name \in NamesIn(c) : ListAgrees(c, name)
    /\ \A option \in PipelineOptions : Ordered(Places(argv, OptionsFor(option)))

LEMMA ParamListed ==
    ASSUME CommandTypeOK, NEW o \in Overrides, Param(o), NEW c, NEW name, ListAgrees(c, name)
    PROVE  ListAgrees(c, name)'
<1> DEFINE x == [option |-> "--param", value |-> o]
           P == ParamsFor(c, name)
           O == OverridesFor(c, name)
<1>1. argv' = Append(argv, x) /\ x \in Argument /\ argv \in Seq(Argument)
  BY ReadKeepsTypes DEF Param, Option, CommandTypeOK
<1>2. options.overrides \in Seq(Overrides) /\ options'.overrides = Append(options.overrides, o)
  <2>1. options \in Options /\ options' = [options EXCEPT !.overrides = Append(@, o)]
    BY DEF CommandTypeOK, Param
  <2> QED BY <2>1 DEF Options
<1>3. (x \in P <=> o \in O) /\ x.value = o
  BY <1>1 DEF ParamsFor, OverridesFor
<1> HIDE DEF x, P, O
<1>4. /\ Ordered(Places(argv, P)) /\ Ordered(Places(options.overrides, O))
      /\ Places(argv, P) = {} <=> Places(options.overrides, O) = {}
      /\ Places(argv, P) # {} => Final(argv, P).value = Final(options.overrides, O)
  BY DEF ListAgrees, P, O
<1>5. CASE x \in P
  <2>1. /\ Places(argv', P) # {} /\ Ordered(Places(argv', P)) /\ Final(argv', P) = x
    BY <1>1, <1>5, FinalAppended
  <2>2. /\ Places(options'.overrides, O) # {} /\ Ordered(Places(options'.overrides, O))
        /\ Final(options'.overrides, O) = o
    BY <1>2, <1>3, <1>5, FinalAppended
  <2> QED BY <1>3, <2>1, <2>2 DEF ListAgrees, P, O
<1>6. CASE x \notin P
  <2>1. /\ Places(argv', P) = Places(argv, P)
        /\ Places(argv, P) # {} => Final(argv', P) = Final(argv, P)
    BY <1>1, <1>4, <1>6, FinalKept
  <2>2. /\ Places(options'.overrides, O) = Places(options.overrides, O)
        /\ Places(options.overrides, O) # {} => Final(options'.overrides, O) = Final(options.overrides, O)
    BY <1>2, <1>3, <1>4, <1>6, FinalKept
  <2> QED BY <1>4, <2>1, <2>2 DEF ListAgrees, P, O
<1> QED BY <1>5, <1>6

LEMMA OthersListed ==
    ASSUME CommandTypeOK, NEW option \in Option \ {"--param"},
           NEW v \in Names \cup Texts \cup Overrides, Read(option, v),
           options'.overrides = options.overrides,
           NEW c, NEW name, ListAgrees(c, name)
    PROVE  ListAgrees(c, name)'
<1> DEFINE x == [option |-> option, value |-> v]
           P == ParamsFor(c, name)
<1>1. argv' = Append(argv, x) /\ x \in Argument /\ argv \in Seq(Argument)
  BY ReadKeepsTypes DEF CommandTypeOK
<1>2. x \notin P
  BY <1>1 DEF ParamsFor
<1> HIDE DEF x, P
<1>3. Ordered(Places(argv, P))
  BY DEF ListAgrees, P
<1>4. /\ Places(argv', P) = Places(argv, P)
      /\ Places(argv, P) # {} => Final(argv', P) = Final(argv, P)
  BY <1>1, <1>2, <1>3, FinalKept
<1> QED BY <1>4 DEF ListAgrees, P

\* An argument moves only the choice it is about.
LEMMA ChoiceGrows ==
    ASSUME CommandTypeOK, NEW option \in Option, NEW v \in Names \cup Texts \cup Overrides,
           Read(option, v), NEW asked, Ordered(Places(argv, OptionsFor(asked)))
    PROVE  /\ Ordered(Places(argv', OptionsFor(asked)))
           /\ \A name : Chosen(asked, name)' =
                  IF asked = option THEN AsInt(v) ELSE Chosen(asked, name)
<1> DEFINE x == [option |-> option, value |-> v]
           F == OptionsFor(asked)
<1>1. argv' = Append(argv, x) /\ x \in Argument /\ argv \in Seq(Argument) /\ x.value = v
  BY ReadKeepsTypes DEF CommandTypeOK
<1>2. x \in F <=> asked = option
  BY <1>1 DEF OptionsFor
<1>3. Ordered(Places(argv, F))
  OBVIOUS
<1> HIDE DEF x, F
<1>4. CASE asked = option
  <2>1. Places(argv', F) # {} /\ Ordered(Places(argv', F)) /\ Final(argv', F) = x
    BY <1>1, <1>2, <1>4, FinalAppended
  <2> QED BY <1>1, <1>4, <2>1 DEF Chosen, F
<1>5. CASE asked # option
  <2>1. /\ Places(argv', F) = Places(argv, F)
        /\ Places(argv, F) # {} => Final(argv', F) = Final(argv, F)
    BY <1>1, <1>2, <1>3, <1>5, FinalKept
  <2> QED BY <1>3, <1>5, <2>1 DEF Chosen, F
<1> QED BY <1>4, <1>5

\* What one step does to the arguments: it reads one or none.
LEMMA ArgumentsAreKept == ASSUME ArgumentsInv, [CommandNext]_commandVars PROVE ArgumentsInv'
<1>0. /\ CommandTypeOK /\ CommandTypeOK'
      /\ stage # "left" => \A c \in Component : \A name \in NamesIn(c) : ListAgrees(c, name)
      /\ \A option \in PipelineOptions : Ordered(Places(argv, OptionsFor(option)))
  BY TypesAreKept DEF ArgumentsInv
<1>1. ASSUME NEW option \in Option \ {"--param"}, NEW v \in Names \cup Texts \cup Overrides,
             Read(option, v), options'.overrides = options.overrides
      PROVE  ArgumentsInv'
  <2>1. stage # "left"
    BY <1>1 DEF Read
  <2>2. \A c \in Component : \A name \in NamesIn(c) : ListAgrees(c, name)'
    BY <1>0, <1>1, <2>1, OthersListed
  <2>3. \A asked \in PipelineOptions : Ordered(Places(argv', OptionsFor(asked)))
    BY <1>0, <1>1, ChoiceGrows
  <2> QED BY <1>0, <2>2, <2>3 DEF ArgumentsInv
<1>2. ASSUME NEW name \in Names,
             SelectPredictor(name) \/ SelectICache(name) \/ SelectDCache(name) \/ Compare(name)
      PROVE  ArgumentsInv'
  <2>1. options'.overrides = options.overrides
    <3>1. options \in Options
      BY <1>0 DEF CommandTypeOK
    <3> QED BY <1>2, <3>1 DEF SelectPredictor, SelectICache, SelectDCache, Compare, Reject, Options
  <2>2. \E option \in Option \ {"--param"} : Read(option, name)
    BY <1>2 DEF SelectPredictor, SelectICache, SelectDCache, Compare, Option
  <2> QED BY <1>1, <2>1, <2>2
<1>3. ASSUME NEW v \in Texts, \/ PipelineOption("--pipeline-stages", "stages", v)
                              \/ PipelineOption("--stall-penalty", "stall-penalty", v)
      PROVE  ArgumentsInv'
  <2>1. options' = options /\ \E option \in Option \ {"--param"} : Read(option, v)
    BY <1>3 DEF PipelineOption, Reject, Option
  <2> QED BY <1>1, <2>1
<1>4. ASSUME NEW o \in Overrides, Param(o) PROVE ArgumentsInv'
  <2>1. Read("--param", o) /\ "--param" \in Option /\ stage # "left"
    BY <1>4 DEF Param, Read, Option
  <2>2. \A c \in Component : \A name \in NamesIn(c) : ListAgrees(c, name)'
    BY <1>0, <1>4, <2>1, ParamListed
  <2>3. \A asked \in PipelineOptions : Ordered(Places(argv', OptionsFor(asked)))
    BY <1>0, <2>1, ChoiceGrows
  <2> QED BY <1>0, <2>2, <2>3 DEF ArgumentsInv
<1>5. CASE argv' = argv /\ options' = options /\ (stage = "left" => stage' = "left")
  BY <1>0, <1>5 DEF ArgumentsInv, ListAgrees
<1>6. CASE LeaveEarly \/ EndOfArguments \/ Validate \/ Make \/ Apply \/ Run \/ UNCHANGED commandVars
  <2>1. argv' = argv /\ options' = options /\ (stage = "left" => stage' = "left")
    BY <1>6 DEF LeaveEarly, EndOfArguments, Validate, Make, Apply, Run, Reject, commandVars
  <2> QED BY <1>5, <2>1
<1> QED BY <1>2, <1>3, <1>4, <1>6 DEF CommandNext

LEMMA InitArguments == CommandInit => ArgumentsInv
<1> SUFFICES ASSUME CommandInit PROVE ArgumentsInv
  OBVIOUS
<1>1. argv = <<>> /\ options.overrides = <<>>
  BY DEF CommandInit
<1>2. \A F : Places(<<>>, F) = {}
  BY EmptySeq DEF Places
<1>3. \A F : Ordered(Places(argv, F)) /\ Ordered(Places(options.overrides, F))
  BY <1>1, <1>2 DEF Ordered
<1> QED BY <1>1, <1>2, <1>3, InitTypes DEF ArgumentsInv, ListAgrees

-----------------------------------------------------------------------------
(* What the first of the overrides have made of a value.                   *)

Applied == CASE stage = "apply" -> turn - 1
             [] stage = "run" -> Len(options.overrides)
             [] OTHER -> 0

After(k, c, name, otherwise) ==
    IF FirstPlaces(options.overrides, k, OverridesFor(c, name)) = {} THEN otherwise
    ELSE Kept(c, options.overrides[Latest(FirstPlaces(options.overrides, k, OverridesFor(c, name)))].value)

PipelineAfter(option, name) ==
    pipeline[name] = After(Applied, "pipeline", name, Chosen(option, name))

Priced ==
    /\ stage \in {"apply", "run"} =>
           \A c \in DOMAIN active : \A name \in NamesIn(c) :
               active[c][name] = After(Applied, c, name, Made(c)[name])
    /\ stage # "left" => /\ PipelineAfter("--pipeline-stages", "stages")
                         /\ PipelineAfter("--stall-penalty", "stall-penalty")

PricingInv ==
    /\ OverridesInv /\ ArgumentsInv /\ Priced
    /\ stage = "apply" => turn >= 1 /\ turn - 1 <= Len(options.overrides)

LEMMA AfterNone == ASSUME NEW c, NEW name, NEW otherwise PROVE After(0, c, name, otherwise) = otherwise
BY FirstPlacesGrow DEF After

\* One more override, tried and accepted, gives the value of its tunable and
\* leaves every other.
LEMMA AfterOne ==
    ASSUME NEW k \in Nat, k + 1 \in DOMAIN options.overrides, CommandTypeOK, NEW c, NEW name, NEW otherwise
    PROVE  After(k + 1, c, name, otherwise) =
               IF options.overrides[k + 1].component = c /\ options.overrides[k + 1].name = name
               THEN Kept(c, options.overrides[k + 1].value) ELSE After(k, c, name, otherwise)
<1> DEFINE s == options.overrides
           F == OverridesFor(c, name)
<1>1. s \in Seq(Overrides)
  BY DEF CommandTypeOK, Options
<1>2. s[k + 1] \in Overrides
  BY <1>1
<1>3. s[k + 1] \in F <=> s[k + 1].component = c /\ s[k + 1].name = name
  BY <1>2 DEF OverridesFor
<1>0. k \in Nat
  OBVIOUS
<1> HIDE DEF s, F
<1>4. /\ s[k + 1] \in F => Latest(FirstPlaces(s, k + 1, F)) = k + 1 /\ FirstPlaces(s, k + 1, F) # {}
      /\ s[k + 1] \notin F => FirstPlaces(s, k + 1, F) = FirstPlaces(s, k, F)
  BY ONLY <1>0, FirstPlacesGrow
<1> QED BY <1>3, <1>4 DEF After, s, F

LEMMA SizedNames == ASSUME NEW c, NEW config, Sized(c, config) PROVE DOMAIN config = NamesIn(c)
BY DEF Sized

\* A tunable before and after an override is applied to its component.
LEMMA ApplyOne ==
    ASSUME PricingInv, stage = "apply", turn <= Len(options.overrides),
           NEW c \in Component, NEW config, Sized(c, config),
           c \in DOMAIN active \/ c = "pipeline", NEW name \in NamesIn(c), NEW otherwise,
           config[name] = After(turn - 1, c, name, otherwise)
    PROVE  LET o == options.overrides[turn]
           IN  (IF c = o.component THEN SetParameter(c, config, o.name, o.value) ELSE config)[name]
                   = After(turn, c, name, otherwise)
<1> DEFINE o == options.overrides[turn]
<1>1. CommandTypeOK /\ Validated /\ turn \in Nat /\ turn >= 1 /\ options.overrides \in Seq(Overrides)
  BY DEF PricingInv, OverridesInv, CommandTypeOK, Options
<1>2. turn \in DOMAIN options.overrides /\ turn - 1 \in Nat /\ (turn - 1) + 1 = turn
  BY <1>1
<1>3. Accepts(o.component, o.name, o.value)
  BY <1>1, <1>2 DEF Validated, Accepted
<1>4. After(turn, c, name, otherwise) =
          IF o.component = c /\ o.name = name THEN Kept(c, o.value)
          ELSE After(turn - 1, c, name, otherwise)
  <2> DEFINE k == turn - 1
  <2>1. k \in Nat /\ k + 1 = turn
    BY <1>2
  <2> HIDE DEF k
  <2>2. After(k + 1, c, name, otherwise) =
               IF options.overrides[k + 1].component = c /\ options.overrides[k + 1].name = name
               THEN Kept(c, options.overrides[k + 1].value) ELSE After(k, c, name, otherwise)
    BY <1>1, <1>2, <2>1, AfterOne
  <2> QED BY <2>1, <2>2 DEF k
<1> HIDE DEF o
<1>5. CASE c = o.component
  <2>1. SetParameter(c, config, o.name, o.value)[name] =
            IF name = o.name /\ Accepts(c, o.name, o.value) THEN Kept(c, o.value) ELSE config[name]
    BY SetSized
  <2> QED BY <1>3, <1>4, <1>5, <2>1 DEF o
<1>6. CASE c # o.component
  BY <1>4, <1>6 DEF o
<1> QED BY <1>5, <1>6

LEMMA ApplyKeepsPrices == ASSUME PricingInv, CommandTypeOK', Apply PROVE Priced'
<1> DEFINE o == options.overrides[turn]
<1>1. /\ stage = "apply" /\ UNCHANGED <<stage, argv, options>> /\ turn' = turn + 1
      /\ turn <= Len(options.overrides)
      /\ active' = [c \in DOMAIN active |->
                        IF c = o.component THEN SetParameter(c, active[c], o.name, o.value)
                        ELSE active[c]]
      /\ pipeline' = IF o.component = "pipeline"
                     THEN SetParameter("pipeline", pipeline, o.name, o.value) ELSE pipeline
  BY DEF Apply
<1>2. CommandTypeOK /\ Priced /\ turn \in Nat
  BY DEF PricingInv, OverridesInv, CommandTypeOK
<1>3. Applied = turn - 1 /\ Applied' = turn
  BY <1>1, <1>2 DEF Applied
<1>4. \A k, c, name, otherwise : After(k, c, name, otherwise)' = After(k, c, name, otherwise)
  BY <1>1 DEF After
<1>5. ASSUME NEW c \in DOMAIN active', NEW name \in NamesIn(c)
      PROVE  active'[c][name] = After(turn, c, name, Made(c)[name])
  <2>1. c \in DOMAIN active /\ c \in Component /\ Sized(c, active[c])
    BY <1>1, <1>2 DEF CommandTypeOK
  <2>2. active[c][name] = After(turn - 1, c, name, Made(c)[name])
    BY <1>1, <1>2, <1>3, <1>5, <2>1 DEF Priced
  <2>3. active'[c] = IF c = o.component THEN SetParameter(c, active[c], o.name, o.value) ELSE active[c]
    BY <1>1, <2>1
  <2> QED BY <1>1, <2>1, <2>2, <2>3, ApplyOne
<1>6. ASSUME NEW option, NEW name \in NamesIn("pipeline"), PipelineAfter(option, name)
      PROVE  PipelineAfter(option, name)'
  <2>1. pipeline[name] = After(turn - 1, "pipeline", name, Chosen(option, name))
    BY <1>3, <1>6 DEF PipelineAfter
  <2>2. pipeline'[name] = After(turn, "pipeline", name, Chosen(option, name))
    BY <1>1, <1>2, <2>1, PipelineNames, ApplyOne DEF CommandTypeOK
  <2>3. Chosen(option, name)' = Chosen(option, name)
    BY <1>1 DEF Chosen
  <2> QED BY <1>3, <1>4, <2>2, <2>3 DEF PipelineAfter
<1>7. \A c \in DOMAIN active' : \A name \in NamesIn(c) :
          active'[c][name] = After(Applied, c, name, Made(c)[name])'
  BY <1>3, <1>4, <1>5
<1>8. PipelineAfter("--pipeline-stages", "stages")' /\ PipelineAfter("--stall-penalty", "stall-penalty")'
  BY <1>1, <1>2, <1>6, PipelineNames DEF Priced
<1> QED BY <1>7, <1>8 DEF Priced

\* Before the overrides the pipeline is what the options have made of it.
LEMMA OptionKeepsPrices ==
    ASSUME PricingInv, NEW o \in PipelineOptions, NEW name \in NamesIn("pipeline"),
           NEW v \in Texts, PipelineOption(o, name, v),
           stage' # "left", NEW asked \in PipelineOptions, NEW p \in NamesIn("pipeline"),
           asked = o <=> p = name, PipelineAfter(asked, p)
    PROVE  PipelineAfter(asked, p)'
<1>1. CommandTypeOK /\ Ordered(Places(argv, OptionsFor(asked)))
  BY DEF PricingInv, ArgumentsInv
<1>2. /\ Read(o, v) /\ stage = "arguments" /\ stage' = "arguments" /\ Accepts("pipeline", name, v)
      /\ pipeline' = [pipeline EXCEPT ![name] = AsInt(v)]
  BY DEF PipelineOption, Read, Reject
<1>3. o \in Option /\ v \in Names \cup Texts \cup Overrides
  BY DEF PipelineOptions, Option
<1>4. Chosen(asked, p)' = IF asked = o THEN AsInt(v) ELSE Chosen(asked, p)
  BY <1>1, <1>2, <1>3, ChoiceGrows
<1>5. Applied = 0 /\ Applied' = 0
  BY <1>2 DEF Applied
<1>6. pipeline[p] = Chosen(asked, p)
  BY <1>5, AfterNone DEF PipelineAfter
<1>7. DOMAIN pipeline = NamesIn("pipeline")
  BY <1>1, SizedNames DEF CommandTypeOK
<1>8. pipeline'[p] = Chosen(asked, p)'
  BY <1>2, <1>4, <1>6, <1>7
<1>9. \A c, otherwise : After(0, c, p, otherwise)' = otherwise
  BY FirstPlacesGrow DEF After
<1> QED BY <1>5, <1>8, <1>9 DEF PipelineAfter

\* The other arguments leave the choices of the pipeline alone.
LEMMA OtherOptionKeepsPrices ==
    ASSUME PricingInv, NEW o \in Option \ PipelineOptions, NEW v \in Names \cup Texts \cup Overrides,
           Read(o, v), stage' = "arguments", pipeline' = pipeline
    PROVE  Priced'
<1>1. CommandTypeOK /\ Priced /\ \A asked \in PipelineOptions : Ordered(Places(argv, OptionsFor(asked)))
  BY DEF PricingInv, ArgumentsInv
<1>2. stage = "arguments" /\ Applied = 0 /\ Applied' = 0
  BY DEF Read, Applied
<1>3. ASSUME NEW asked \in PipelineOptions, NEW p, PipelineAfter(asked, p)
      PROVE  PipelineAfter(asked, p)'
  <2>1. Chosen(asked, p)' = Chosen(asked, p)
    BY <1>1, ChoiceGrows
  <2>2. pipeline[p] = Chosen(asked, p)
    BY <1>2, <1>3, AfterNone DEF PipelineAfter
  <2>3. \A c, otherwise : After(0, c, p, otherwise)' = otherwise
    BY FirstPlacesGrow DEF After
  <2> QED BY <1>2, <2>1, <2>2, <2>3 DEF PipelineAfter
<1>4. PipelineAfter("--pipeline-stages", "stages")' /\ PipelineAfter("--stall-penalty", "stall-penalty")'
  BY <1>1, <1>2, <1>3 DEF Priced, PipelineOptions
<1> QED BY <1>4 DEF Priced

LEMMA MakeKeepsPrices == ASSUME PricingInv, Make, stage' # "left" PROVE Priced'
<1>1. /\ UNCHANGED <<argv, options, pipeline>> /\ stage = "validate" /\ stage' = "apply" /\ turn' = 1
      /\ \E names : active' = [c \in names |-> Made(c)]
  BY DEF Make
<1>2. Applied = 0 /\ Applied' = 0
  BY <1>1 DEF Applied
<1>3. \A c, name, otherwise : After(0, c, name, otherwise)' = otherwise
  BY FirstPlacesGrow DEF After
<1>4. \A c \in DOMAIN active' : \A name \in NamesIn(c) :
          active'[c][name] = After(Applied, c, name, Made(c)[name])'
  BY <1>1, <1>2, <1>3
<1>5. \A option, name : PipelineAfter(option, name) => PipelineAfter(option, name)'
  <2>1. \A option, name : Chosen(option, name)' = Chosen(option, name)
    BY <1>1 DEF Chosen
  <2> QED BY <1>1, <1>2, <1>3, <2>1, AfterNone DEF PipelineAfter
<1> QED BY <1>1, <1>4, <1>5 DEF PricingInv, Priced

\* The steps that leave the components alone.
LEMMA StillKeepsPrices ==
    ASSUME PricingInv, UNCHANGED <<argv, options, pipeline>>, Applied' = Applied,
           DOMAIN active' = DOMAIN active, \A c \in DOMAIN active : active'[c] = active[c],
           stage' \in {"apply", "run"} => stage \in {"apply", "run"}, stage = "left" => stage' = "left"
    PROVE  Priced'
<1>1. \A k, c, name, otherwise : After(k, c, name, otherwise)' = After(k, c, name, otherwise)
  BY DEF After
<1>2. \A option, name : Chosen(option, name)' = Chosen(option, name)
  BY DEF Chosen
<1>3. \A option, name : PipelineAfter(option, name) => PipelineAfter(option, name)'
  BY <1>1, <1>2 DEF PipelineAfter
<1>4. Priced
  BY DEF PricingInv
<1>5. ASSUME stage' \in {"apply", "run"}, NEW c \in DOMAIN active', NEW name \in NamesIn(c)
      PROVE  active'[c][name] = After(Applied, c, name, Made(c)[name])'
  BY <1>1, <1>4, <1>5 DEF Priced
<1> QED BY <1>3, <1>4, <1>5 DEF Priced

LEMMA ListLength == ASSUME CommandTypeOK PROVE Len(options.overrides) \in Nat
<1>1. options.overrides \in Seq(Overrides)
  BY DEF CommandTypeOK, Options
<1> QED BY <1>1

LEMMA PricesAreKept == ASSUME PricingInv, [CommandNext]_commandVars PROVE PricingInv'
<1>0. /\ OverridesInv' /\ ArgumentsInv' /\ CommandTypeOK /\ CommandTypeOK' /\ Priced
      /\ stage = "apply" => turn >= 1 /\ turn - 1 <= Len(options.overrides)
  BY OverridesAreKept, ArgumentsAreKept, TypesAreKept DEF PricingInv, OverridesInv
<1>1. CASE stage' = "left"
  BY <1>0, <1>1 DEF PricingInv, Priced
<1>2. ASSUME stage' # "left", NEW name \in Names,
             SelectPredictor(name) \/ SelectICache(name) \/ SelectDCache(name) \/ Compare(name)
      PROVE  PricingInv'
  <2>1. pipeline' = pipeline /\ stage' = "arguments" /\ \E o \in Option \ PipelineOptions : Read(o, name)
    BY <1>2 DEF SelectPredictor, SelectICache, SelectDCache, Compare, Reject, Read, Option, PipelineOptions
  <2> QED BY <1>0, <2>1, OtherOptionKeepsPrices DEF PricingInv
<1>3. ASSUME stage' # "left", NEW v \in Texts,
             \/ PipelineOption("--pipeline-stages", "stages", v)
             \/ PipelineOption("--stall-penalty", "stall-penalty", v)
      PROVE  PricingInv'
  <2>1. PipelineAfter("--pipeline-stages", "stages") /\ PipelineAfter("--stall-penalty", "stall-penalty")
        /\ stage' = "arguments"
    BY <1>0, <1>3 DEF Priced, PipelineOption, Read, Reject
  <2>2. PipelineAfter("--pipeline-stages", "stages")' /\ PipelineAfter("--stall-penalty", "stall-penalty")'
    <3>1. CASE PipelineOption("--pipeline-stages", "stages", v)
      BY <1>3, <2>1, <3>1, PipelineNames, OptionKeepsPrices DEF PipelineOptions
    <3>2. CASE PipelineOption("--stall-penalty", "stall-penalty", v)
      BY <1>3, <2>1, <3>2, PipelineNames, OptionKeepsPrices DEF PipelineOptions
    <3> QED BY <1>3, <3>1, <3>2
  <2> QED BY <1>0, <2>1, <2>2 DEF PricingInv, Priced
<1>4. ASSUME NEW o \in Overrides, Param(o) PROVE PricingInv'
  <2>1. pipeline' = pipeline /\ stage' = "arguments" /\ Read("--param", o)
        /\ "--param" \in Option \ PipelineOptions
    BY <1>4 DEF Param, Read, Option, PipelineOptions
  <2> QED BY <1>0, <2>1, OtherOptionKeepsPrices DEF PricingInv
<1>5. CASE stage' # "left" /\ (LeaveEarly \/ EndOfArguments \/ Validate \/ UNCHANGED commandVars)
  <2>1. /\ UNCHANGED <<argv, options, pipeline, active>>
        /\ stage' \in {"apply", "run"} => stage' = stage /\ turn' = turn
        /\ stage \in {"apply", "run"} => stage' = stage /\ turn' = turn
        /\ stage = "left" => stage' = "left"
    BY <1>5 DEF LeaveEarly, EndOfArguments, Validate, Reject, commandVars
  <2>2. Applied' = Applied
    BY <2>1 DEF Applied
  <2> QED BY <1>0, <2>1, <2>2, StillKeepsPrices DEF PricingInv
<1>6. CASE stage' # "left" /\ Make
  <2>1. stage' = "apply" /\ turn' = 1 /\ options' = options
    BY <1>6 DEF Make
  <2>2. Len(options.overrides) \in Nat
    BY <1>0, ListLength
  <2> QED BY <1>0, <1>6, <2>1, <2>2, MakeKeepsPrices DEF PricingInv
<1>7. CASE Apply
  <2>1. stage' = "apply" /\ turn' = turn + 1 /\ options' = options /\ turn <= Len(options.overrides) /\ stage = "apply"
    BY <1>7 DEF Apply
  <2>2. turn \in Nat
    BY <1>0 DEF CommandTypeOK
  <2> QED BY <1>0, <1>7, <2>1, <2>2, ApplyKeepsPrices DEF PricingInv
<1>8. CASE Run
  <2>1. /\ UNCHANGED <<argv, options, pipeline, turn>> /\ stage = "apply" /\ stage' = "run"
        /\ turn > Len(options.overrides)
    BY <1>8 DEF Run
  <2>2. turn \in Nat /\ Len(options.overrides) \in Nat
    BY <1>0, ListLength DEF CommandTypeOK
  <2>3. Applied = turn - 1 /\ Applied' = Len(options.overrides) /\ turn - 1 = Len(options.overrides)
    BY <1>0, <2>1, <2>2 DEF Applied
  <2>4. DOMAIN active' = DOMAIN active /\ \A c \in DOMAIN active : active'[c] = active[c]
    BY <1>8, RunKeepsComponents
  <2>5. Priced'
    BY <2>1, <2>3, <2>4, StillKeepsPrices
  <2> QED BY <1>0, <2>1, <2>5 DEF PricingInv
<1> QED BY <1>1, <1>2, <1>3, <1>4, <1>5, <1>6, <1>7, <1>8 DEF CommandNext

LEMMA InitPrices == CommandInit => PricingInv
<1> SUFFICES ASSUME CommandInit PROVE PricingInv
  OBVIOUS
<1>1. CommandTypeOK /\ ArgumentsInv /\ stage = "arguments" /\ turn = 1
  BY InitTypes, InitArguments DEF CommandInit
<1>2. OverridesInv
  BY <1>1 DEF OverridesInv, Validated, Named
<1>3. argv = <<>> /\ pipeline = Made("pipeline")
  BY DEF CommandInit
<1>4. \A option, name : Chosen(option, name) = Made("pipeline")[name]
  <2>1. \A F : Places(argv, F) = {}
    BY <1>3, EmptySeq DEF Places
  <2> QED BY <2>1 DEF Chosen
<1>5. Applied = 0
  BY <1>1 DEF Applied
<1>6. \A option, name : PipelineAfter(option, name)
  BY <1>3, <1>4, <1>5, AfterNone DEF PipelineAfter
<1> QED BY <1>1, <1>2, <1>6 DEF PricingInv, Priced

-----------------------------------------------------------------------------
(* What the property says of the arguments, by their places.               *)

LEMMA AskedParams ==
    ASSUME CommandTypeOK, NEW c, NEW name, NEW otherwise
    PROVE  Wanted(c, name, otherwise) =
               IF Places(argv, ParamsFor(c, name)) = {} THEN otherwise
               ELSE Kept(c, Final(argv, ParamsFor(c, name)).value.value)
<1> DEFINE asked == {i \in DOMAIN argv : /\ argv[i].option = "--param"
                                        /\ argv[i].value.component = c /\ argv[i].value.name = name}
<1>1. \A i \in DOMAIN argv : argv[i] \in Argument
  BY DEF CommandTypeOK
<1>2. asked = Places(argv, ParamsFor(c, name))
  BY <1>1 DEF Places, ParamsFor
<1>3. Wanted(c, name, otherwise) =
          IF asked = {} THEN otherwise ELSE Kept(c, argv[Latest(asked)].value.value)
  BY DEF Wanted
<1> QED BY <1>2, <1>3 DEF Final

LEMMA AskedOption ==
    ASSUME CommandTypeOK, NEW option, NEW name
    PROVE  WantedByOption(option, name) = Chosen(option, name)
<1> DEFINE asked == {i \in DOMAIN argv : argv[i].option = option}
<1>1. \A i \in DOMAIN argv : argv[i] \in Argument
  BY DEF CommandTypeOK
<1>2. asked = Places(argv, OptionsFor(option))
  BY <1>1 DEF Places, OptionsFor
<1>3. WantedByOption(option, name) =
          IF asked = {} THEN Made("pipeline")[name] ELSE AsInt(argv[Latest(asked)].value)
  BY DEF WantedByOption
<1> QED BY <1>2, <1>3 DEF Final, Chosen

LEMMA AllApplied ==
    ASSUME PricingInv, stage = "run", NEW c \in Component, NEW name \in NamesIn(c), NEW otherwise
    PROVE  After(Applied, c, name, otherwise) = Wanted(c, name, otherwise)
<1> DEFINE s == options.overrides
           O == OverridesFor(c, name)
           P == ParamsFor(c, name)
<1>1. CommandTypeOK /\ ListAgrees(c, name) /\ s \in Seq(Overrides) /\ Applied = Len(s)
  BY DEF PricingInv, ArgumentsInv, CommandTypeOK, Options, Applied
<1>2. FirstPlaces(s, Applied, O) = Places(s, O)
  <2>1. DOMAIN s = 1 .. Len(s)
    BY <1>1
  <2> HIDE DEF s, O
  <2> QED BY <1>1, <2>1 DEF FirstPlaces, Places
<1> HIDE DEF s, O, P
<1>3. /\ Places(argv, P) = {} <=> Places(s, O) = {}
      /\ Places(argv, P) # {} => Final(argv, P).value = Final(s, O)
  BY <1>1 DEF ListAgrees, s, O, P
<1>4. After(Applied, c, name, otherwise) =
          IF Places(s, O) = {} THEN otherwise ELSE Kept(c, Final(s, O).value)
  BY <1>2 DEF After, Final, s, O
<1> QED BY <1>1, <1>3, <1>4, AskedParams DEF P

(***************************************************************************)
(* For every list of arguments, of any length and in any order, each       *)
(* tunable of each component that prices the run has the value of the last *)
(* argument that set it, or of its construction: the validation, the order *)
(* of the overrides and the resets lose none and mix up none.              *)
(***************************************************************************)
THEOREM RunsArePricedAsAsked == CommandSpec => []PricedAsAsked
<1>1. PricingInv => PricedAsAsked
  <2> SUFFICES ASSUME PricingInv, stage = "run" PROVE PricedAsAsked
    BY DEF PricedAsAsked
  <2>1. CommandTypeOK /\ Priced
    BY DEF PricingInv, OverridesInv
  <2>2. ASSUME NEW c \in DOMAIN active, NEW name \in DOMAIN active[c]
        PROVE  active[c][name] = Wanted(c, name, Made(c)[name])
    <3>1. c \in Component /\ name \in NamesIn(c)
      BY <2>1, <2>2, SizedNames DEF CommandTypeOK
    <3>2. active[c][name] = After(Applied, c, name, Made(c)[name])
      BY <2>1, <2>2, <3>1 DEF Priced
    <3> QED BY <3>1, <3>2, AllApplied
  <2>3. ASSUME NEW option, NEW name \in NamesIn("pipeline"), PipelineAfter(option, name)
        PROVE  pipeline[name] = Wanted("pipeline", name, WantedByOption(option, name))
    BY <2>1, <2>3, PipelineNames, AllApplied, AskedOption DEF PipelineAfter
  <2>4. PipelineAfter("--pipeline-stages", "stages") /\ PipelineAfter("--stall-penalty", "stall-penalty")
    BY <2>1 DEF Priced
  <2> QED BY <2>2, <2>3, <2>4, PipelineNames DEF PricedAsAsked
<1>2. CommandSpec => []PricingInv
  BY InitPrices, PricesAreKept, PTL DEF CommandSpec
<1> QED BY <1>1, <1>2, PTL
=============================================================================
