-------------------------- MODULE DeviceTreeProofs --------------------------
(***************************************************************************)
(* What the functions over device tree values guarantee for every width of *)
(* a cell, every page size, every size of a pixel and every value that the *)
(* tree can state: UemuFdtAlignRange, and the geometry checks of the frame *)
(* buffer driver.                                                          *)
(***************************************************************************)
EXTENDS SimpleFb, SequenceLemmas

\* The page boundary below an address, and the distance to it.
LEMMA PageBaseBelow ==
  ASSUME NEW a \in Nat
  PROVE  /\ PageBase(a) \in Nat
         /\ PageBase(a) <= a
         /\ a < PageBase(a) + PAGE
         /\ \E k \in Nat : PageBase(a) = k * PAGE
<1>1. a % PAGE \in 0 .. (PAGE - 1) /\ a = PAGE * (a \div PAGE) + (a % PAGE)
  BY FdtAssumption
<1>2. a \div PAGE \in Nat
  BY FdtAssumption
<1>3. PageBase(a) = (a \div PAGE) * PAGE
  BY <1>1, <1>2, FdtAssumption DEF PageBase
<1>4. \E k \in Nat : PageBase(a) = k * PAGE
  BY <1>2, <1>3
<1>5. PageBase(a) = a - (a % PAGE)
  BY DEF PageBase
<1>6. QED
  BY <1>1, <1>4, <1>5, FdtAssumption

\* A range that AlignRange accepts is covered by the pages it returns, which
\* begin and end on page boundaries, reach less than a page further at either
\* end, and do not wrap around the address space.
THEOREM AlignRangeCovers ==
  ASSUME NEW base \in Nat, NEW size \in Nat,
         UemuFdtAlignRange(base, size).status = "SUCCESS"
  PROVE  LET pages == UemuFdtAlignRange(base, size)
         IN  /\ pages.base <= base
             /\ base + size <= pages.base + pages.size
             /\ base - pages.base < PAGE
             /\ pages.base + pages.size < base + size + PAGE
             /\ pages.base + pages.size <= MAX_UINT64
             /\ \E k \in Nat : pages.base = k * PAGE
             /\ \E k \in Nat : pages.base + pages.size = k * PAGE
<1> DEFINE pages == UemuFdtAlignRange(base, size)
<1>1. /\ base + size <= MAX_UINT64 - (PAGE - 1)
      /\ pages.base = PageBase(base)
      /\ pages.size = PageEnd(base + size) - PageBase(base)
  BY FdtAssumption DEF UemuFdtAlignRange, Failure, AlignedSize, MAX_UINT64
<1>2. /\ PageBase(base) \in Nat
      /\ PageBase(base) <= base
      /\ base < PageBase(base) + PAGE
      /\ \E k \in Nat : PageBase(base) = k * PAGE
  BY PageBaseBelow
<1>3. /\ PageEnd(base + size) \in Nat
      /\ PageEnd(base + size) <= base + size + (PAGE - 1)
      /\ base + size + (PAGE - 1) < PageEnd(base + size) + PAGE
      /\ \E k \in Nat : PageEnd(base + size) = k * PAGE
  <2>1. base + size + (PAGE - 1) \in Nat
    BY FdtAssumption
  <2>2. QED
    BY <2>1, PageBaseBelow DEF PageEnd
<1>4. pages.base + pages.size = PageEnd(base + size)
  BY <1>1, <1>2, <1>3
<1>5. MAX_UINT64 \in Int
  BY FdtAssumption DEF MAX_UINT64
<1> HIDE DEF pages
<1>6. /\ pages.base <= base
      /\ base + size <= pages.base + pages.size
      /\ base - pages.base < PAGE
      /\ pages.base + pages.size < base + size + PAGE
      /\ pages.base + pages.size <= MAX_UINT64
  BY <1>1, <1>2, <1>3, <1>4, <1>5, FdtAssumption
<1>7. /\ \E k \in Nat : pages.base = k * PAGE
      /\ \E k \in Nat : pages.base + pages.size = k * PAGE
  BY <1>1, <1>2, <1>3, <1>4
<1>8. QED
  BY <1>6, <1>7 DEF pages

-----------------------------------------------------------------------------
Words == 0 .. MAX_UINT32

\* Facts of arithmetic that the checks rest on.
LEMMA ProductMonotone ==
  ASSUME NEW a \in Nat, NEW b \in Nat, NEW c \in Nat, a <= b
  PROVE  a * c <= b * c
<1>1. PICK d \in Nat : b = a + d
  <2>1. b - a \in Nat /\ b = a + (b - a)
    OBVIOUS
  <2>2. QED
    BY <2>1
<1>2. b * c = a * c + d * c
  BY <1>1
<1>3. d * c \in Nat /\ a * c \in Nat
  BY <1>1
<1>4. QED
  BY <1>2, <1>3

\* A factor that is at most the quotient gives a product that fits.
LEMMA QuotientBound ==
  ASSUME NEW limit \in Nat, NEW b \in Nat \ {0}, NEW a \in Nat, a <= limit \div b
  PROVE  a * b <= limit
<1>1. /\ limit \div b \in Nat
      /\ limit = b * (limit \div b) + (limit % b)
      /\ limit % b \in 0 .. (b - 1)
  OBVIOUS
<1>2. a * b <= (limit \div b) * b
  BY <1>1, ProductMonotone
<1>3. (limit \div b) * b = b * (limit \div b)
  BY <1>1
<1>4. a * b \in Nat /\ b * (limit \div b) \in Nat
  BY <1>1
<1>5. QED
  BY <1>1, <1>2, <1>3, <1>4

\* A scan line that is not too narrow holds its pixels, and the product of the
\* check does not overflow 32 bits.
LEMMA LineHoldsPixels ==
  ASSUME NEW width \in Words \ {0}, NEW stride \in Words, ~IsTooNarrow(width, stride)
  PROVE  /\ width * FB_BYTES_PER_PIXEL <= MAX_UINT32
         /\ width * FB_BYTES_PER_PIXEL <= stride
         /\ stride > 0
<1>1. MAX_UINT32 \in Nat /\ width \in Nat \ {0} /\ stride \in Nat
  BY FdtAssumption DEF MAX_UINT32, Words
<1>2. FB_BYTES_PER_PIXEL \in Nat \ {0}
  BY FbAssumption
<1>3. MAX_UINT32 \div FB_BYTES_PER_PIXEL \in Nat
  BY <1>1, <1>2
<1>4. width <= MAX_UINT32 \div FB_BYTES_PER_PIXEL
  BY <1>1, <1>3 DEF IsTooNarrow
<1>5. width * FB_BYTES_PER_PIXEL <= MAX_UINT32
  BY <1>1, <1>2, <1>4, QuotientBound
<1>6. width * FB_BYTES_PER_PIXEL \in Nat
  BY <1>1, <1>2
<1>7. width * FB_BYTES_PER_PIXEL <= stride
  BY <1>1, <1>6 DEF IsTooNarrow
<1>8. 1 * FB_BYTES_PER_PIXEL <= width * FB_BYTES_PER_PIXEL
  BY <1>1, <1>2, ProductMonotone
<1>9. QED
  BY <1>1, <1>2, <1>5, <1>6, <1>7, <1>8

\* A geometry that is accepted and whose lines fit into the range of the tree
\* keeps every pixel and every byte that is cleared inside that range; lines do
\* not run into each other and begin at whole pixels; and no product of the
\* checks overflows its 32 or 64 bits.
THEOREM GeometryFits ==
  ASSUME NEW g, g.width \in Words, g.height \in Words, g.stride \in Words,
         ~IsCompromised(g), NEW size \in Nat, g.stride * g.height <= size
  PROVE  LET pixelsPerLine == g.stride \div FB_BYTES_PER_PIXEL
         IN  /\ g.stride = FB_BYTES_PER_PIXEL * pixelsPerLine
             /\ g.width * FB_BYTES_PER_PIXEL <= g.stride
             /\ (g.height - 1) * g.stride + g.width * FB_BYTES_PER_PIXEL <= size
             /\ g.width * FB_BYTES_PER_PIXEL <= MAX_UINT32
             /\ g.stride * g.height <= MAX_UINT64
<1>1. /\ g.width \in Words \ {0} /\ g.height \in Words \ {0}
      /\ g.stride % FB_BYTES_PER_PIXEL = 0
      /\ ~IsTooNarrow(g.width, g.stride)
      /\ ~(g.height > MAX_UINT64 \div g.stride)
  BY FdtAssumption DEF IsCompromised, Words, MAX_UINT32
<1>2. /\ g.width \in Nat \ {0} /\ g.height \in Nat \ {0} /\ g.stride \in Nat
      /\ FB_BYTES_PER_PIXEL \in Nat \ {0}
      /\ MAX_UINT64 \in Nat
  <2>1. CELL * CELL \in Nat /\ CELL * CELL >= 1
    BY FdtAssumption, ProductMonotone
  <2>2. QED
    BY <1>1, <2>1, FdtAssumption, FbAssumption DEF Words, MAX_UINT32, MAX_UINT64
<1>3. /\ g.width * FB_BYTES_PER_PIXEL <= MAX_UINT32
      /\ g.width * FB_BYTES_PER_PIXEL <= g.stride
      /\ g.stride > 0
  BY <1>1, LineHoldsPixels
<1>4. g.stride = FB_BYTES_PER_PIXEL * (g.stride \div FB_BYTES_PER_PIXEL)
  <2>1. g.stride = FB_BYTES_PER_PIXEL * (g.stride \div FB_BYTES_PER_PIXEL)
                     + (g.stride % FB_BYTES_PER_PIXEL)
    BY <1>2
  <2>2. FB_BYTES_PER_PIXEL * (g.stride \div FB_BYTES_PER_PIXEL) \in Nat
    BY <1>2
  <2>3. QED
    BY <1>1, <2>1, <2>2
<1>5. g.stride * g.height <= MAX_UINT64
  <2>1. MAX_UINT64 \div g.stride \in Nat
    BY <1>2, <1>3
  <2>2. g.height * g.stride <= MAX_UINT64
    BY <1>1, <1>2, <1>3, <2>1, QuotientBound
  <2>3. g.stride * g.height = g.height * g.stride
    BY <1>2
  <2>4. QED
    BY <2>2, <2>3
<1>6. (g.height - 1) * g.stride + g.width * FB_BYTES_PER_PIXEL <= size
  <2>1. (g.height - 1) * g.stride + g.stride = g.stride * g.height
    BY <1>2
  <2>2. (g.height - 1) * g.stride \in Nat /\ g.width * FB_BYTES_PER_PIXEL \in Nat
    BY <1>2
  <2>3. QED
    BY <1>2, <1>3, <2>1, <2>2
<1>7. QED
  BY <1>3, <1>4, <1>5, <1>6

-----------------------------------------------------------------------------
\* The constants in arithmetic.
LEMMA FdtConstants ==
  /\ CELL \in Nat \ {0} /\ PAGE \in Nat \ {0}
  /\ MAX_UINT64 \in Nat /\ CELL * CELL = MAX_UINT64 + 1
  /\ MAX_UINT64 \div CELL \in Nat /\ MAX_UINT64 \div CELL <= MAX_UINT64
<1>1. CELL * CELL \in Nat /\ CELL * CELL >= 1
  BY FdtAssumption, ProductMonotone
<1>2. MAX_UINT64 \in Nat /\ CELL * CELL = MAX_UINT64 + 1
  BY <1>1 DEF MAX_UINT64
<1>3. \A limit \in Nat, b \in Nat \ {0} : limit \div b \in Nat /\ limit \div b <= limit
  <2> SUFFICES ASSUME NEW limit \in Nat, NEW b \in Nat \ {0}
               PROVE  limit \div b \in Nat /\ limit \div b <= limit
    OBVIOUS
  <2>1. /\ limit \div b \in Nat
        /\ limit = b * (limit \div b) + (limit % b)
        /\ limit % b \in 0 .. (b - 1)
    OBVIOUS
  <2>2. 1 * (limit \div b) <= b * (limit \div b)
    BY <2>1, ProductMonotone
  <2>3. b * (limit \div b) \in Nat
    BY <2>1
  <2>4. QED
    BY <2>1, <2>2, <2>3
<1>4. QED
  BY <1>2, <1>3, FdtAssumption

CellValue == 0 .. (CELL - 1)

\* The recursion of Number, and its values one by one.
IsNumber(value, cells) ==
  value = [i \in 0 .. Len(cells) |->
             IF i = 0 THEN 0 ELSE PushCell(value[i - 1], cells[i])]

Reads(value, cells) ==
  /\ value \in [0 .. Len(cells) -> Nat]
  /\ value[0] = 0
  /\ \A i \in 1 .. Len(cells) : value[i] = PushCell(value[i - 1], cells[i])

\* One cell more is a natural number.
LEMMA PushCellType ==
  ASSUME NEW v \in Nat, NEW c \in CellValue
  PROVE  PushCell(v, c) \in Nat
<1>1. v * CELL \in Nat
  BY FdtConstants
<1>2. QED
  BY <1>1, FdtConstants DEF PushCell, CellValue

\* Number reads one cell after the other.
LEMMA NumberStep ==
  ASSUME NEW cells \in Seq(CellValue), NEW value, IsNumber(value, cells)
  PROVE  /\ value[0] = 0
         /\ \A i \in 1 .. Len(cells) : value[i] = PushCell(value[i - 1], cells[i])
<1> DEFINE n == Len(cells)
           F(i) == IF i = 0 THEN 0 ELSE PushCell(value[i - 1], cells[i])
<1>1. n \in Nat
  OBVIOUS
<1>2. value = [i \in 0 .. n |-> F(i)]
  BY Zenon DEF IsNumber
<1>3. F(0) = 0 /\ \A i \in 1 .. n : F(i) = PushCell(value[i - 1], cells[i])
  OBVIOUS
<1> HIDE DEF F, n
<1>4. value[0] = F(0) /\ \A i \in 1 .. n : value[i] = F(i)
  BY <1>1, <1>2
<1>5. QED
  BY <1>3, <1>4, Zenon DEF n

\* Number is the last value of its recursion, all values of which are numbers.
LEMMA NumberReads ==
  ASSUME NEW cells \in Seq(CellValue)
  PROVE  \E value : Reads(value, cells) /\ Number(cells) = value[Len(cells)]
<1> DEFINE n == Len(cells)
           G == [i \in 1 .. n |-> [v \in Nat |-> PushCell(v, cells[i])]]
<1>0. n \in Nat /\ \A i \in 1 .. n : cells[i] \in CellValue
  OBVIOUS
<1>1. G \in [1 .. n -> [Nat -> Nat]]
  BY <1>0, PushCellType
<1>2. PICK f : IsRecursion(f, n, Nat, 0, G)
  <2> HIDE DEF n, G
  <2>1. QED
    BY <1>0, <1>1, PrefixRecursion
<1>3. /\ f \in [0 .. n -> Nat] /\ f[0] = 0
      /\ \A i \in 1 .. n : f[i] = PushCell(f[i - 1], cells[i])
  <2>1. f \in [0 .. n -> Nat] /\ f[0] = 0 /\ \A i \in 1 .. n : f[i] = G[i][f[i - 1]]
    BY <1>2, Zenon DEF IsRecursion
  <2>2. \A i \in 1 .. n : f[i - 1] \in Nat
    BY <1>0, <2>1
  <2>3. QED
    BY <2>1, <2>2
<1>4. IsNumber(f, cells)
  <2> DEFINE F(i) == IF i = 0 THEN 0 ELSE PushCell(f[i - 1], cells[i])
  <2>1. \A i \in 0 .. n : f[i] = F(i)
    BY <1>0, <1>3
  <2>2. f = [i \in 0 .. n |-> F(i)]
    <3> HIDE DEF F, n
    <3>1. QED
      BY <1>3, <2>1
  <2>3. QED
    BY <2>2, Zenon DEF IsNumber
<1> DEFINE value == CHOOSE v : IsNumber(v, cells)
<1>5. IsNumber(value, cells)
  BY <1>4
<1>6. Number(cells) = value[Len(cells)]
  BY DEF Number, IsNumber
<1> HIDE DEF value
<1>7. value[0] = 0 /\ \A i \in 1 .. n : value[i] = PushCell(value[i - 1], cells[i])
  BY <1>5, NumberStep
<1>8. \A i \in 0 .. n : value[i] \in Nat
  <2> DEFINE T == {i \in 0 .. n : value[i] \in Nat}
  <2>1. 0 \in T
    BY <1>0, <1>7
  <2>2. ASSUME NEW i \in 1 .. n, i - 1 \in T PROVE i \in T
    <3>1. value[i - 1] \in Nat /\ cells[i] \in CellValue /\ i \in 0 .. n
      BY <1>0, <2>2
    <3>2. PushCell(value[i - 1], cells[i]) \in Nat
      BY <3>1, PushCellType
    <3>3. QED
      BY <1>7, <3>1, <3>2
  <2>3. 0 .. n \subseteq T
    <3> HIDE DEF T, n
    <3>1. QED
      BY <1>0, <2>1, <2>2, IntervalInduction
  <2>4. QED
    BY <2>3
<1>9. value \in [0 .. n -> Nat]
  BY <1>5, <1>8 DEF IsNumber
<1>10. QED
  BY <1>6, <1>7, <1>9 DEF Reads

\* A number that DecodeCells accepts.
LEMMA DecodedNumber ==
  ASSUME NEW cells \in Seq(CellValue), DecodeCells(cells).status = "SUCCESS"
  PROVE  /\ Number(cells) \in 0 .. MAX_UINT64
         /\ DecodeCells(cells).value = Number(cells)
<1>1. Number(cells) \in Nat
  <2>1. PICK value : Reads(value, cells) /\ Number(cells) = value[Len(cells)]
    BY NumberReads
  <2>2. Len(cells) \in 0 .. Len(cells)
    OBVIOUS
  <2>3. QED
    BY <2>1, <2>2 DEF Reads
<1>2. ~ Number(cells) > MAX_UINT64 /\ DecodeCells(cells).value = Number(cells)
  BY DEF DecodeCells, Failure
<1>3. QED
  BY <1>1, <1>2, FdtConstants

-----------------------------------------------------------------------------
\* The cells of a reg property between two places.
LEMMA CellsBetween ==
  ASSUME NEW reg \in Seq(CellValue), NEW a \in Nat, NEW b \in Nat, b <= Len(reg)
  PROVE  SubSeq(reg, a + 1, b) \in Seq(CellValue)
<1>1. \A i \in a + 1 .. b : i \in 1 .. Len(reg)
  OBVIOUS
<1>2. QED
  BY <1>1

\* A reg property with a readable index has cells, and cells for that index.
LEMMA RegHasIndex ==
  ASSUME NEW node, IsNode(node), NEW index \in Nat,
         UemuFdtGetReg(node, index).status = "SUCCESS"
  PROVE  LET tupleCells == node.addressCells + node.sizeCells
         IN  /\ node.reg \in Seq(CellValue) /\ node.reg # Absent
             /\ node.addressCells \in 1 .. 4 /\ node.sizeCells \in 1 .. 4
             /\ index < Len(node.reg)
             /\ index * tupleCells + tupleCells <= Len(node.reg)
             /\ RegTuple(DecodeCells(SubSeq(node.reg, index * tupleCells + 1,
                                            index * tupleCells + node.addressCells)),
                         DecodeCells(SubSeq(node.reg, index * tupleCells + node.addressCells + 1,
                                            index * tupleCells + tupleCells)))
                  = UemuFdtGetReg(node, index)
<1> DEFINE tupleCells == node.addressCells + node.sizeCells
           length == Len(node.reg)
<1>1. /\ {node.addressCells, node.sizeCells} \subseteq 1 .. FDT_MAX_NCELLS
      /\ node.reg # Absent /\ HasIndex(index, length, tupleCells)
      /\ RegTuple(DecodeCells(SubSeq(node.reg, index * tupleCells + 1,
                                     index * tupleCells + node.addressCells)),
                  DecodeCells(SubSeq(node.reg, index * tupleCells + node.addressCells + 1,
                                     index * tupleCells + tupleCells)))
           = UemuFdtGetReg(node, index)
  BY Zenon DEF UemuFdtGetReg, Failure
<1>2. node.reg \in Seq(CellValue) /\ length \in Nat
  BY <1>1 DEF IsNode, CellValue
<1>3. /\ node.addressCells \in 1 .. 4 /\ node.sizeCells \in 1 .. 4
      /\ tupleCells \in Nat \ {0}
  BY <1>1 DEF FDT_MAX_NCELLS
<1>4. index < length \div tupleCells
  BY <1>1 DEF HasIndex
<1> HIDE DEF tupleCells, length
<1>5. length \div tupleCells \in Nat /\ (length \div tupleCells) * tupleCells <= length
  <2>1. length \div tupleCells \in Nat
    BY <1>2, <1>3
  <2>2. QED
    BY <1>2, <1>3, <2>1, QuotientBound
<1>6. (index + 1) * tupleCells <= (length \div tupleCells) * tupleCells
  BY <1>3, <1>4, <1>5, ProductMonotone
<1>7. index * tupleCells + tupleCells <= length
  <2>1. (index + 1) * tupleCells = index * tupleCells + tupleCells
    BY <1>3
  <2>2. /\ index * tupleCells \in Nat
        /\ (length \div tupleCells) * tupleCells \in Nat
    BY <1>3, <1>5
  <2>3. QED
    BY <1>2, <1>3, <1>5, <1>6, <2>1, <2>2
<1>8. index < length
  <2>1. index * 1 <= index * tupleCells /\ index * tupleCells \in Nat
    <3>1. 1 * index <= tupleCells * index
      BY <1>3, ProductMonotone
    <3>2. QED
      BY <1>3, <3>1
  <2>2. QED
    BY <1>2, <1>3, <1>7, <2>1
<1>9. QED
  BY <1>1, <1>2, <1>3, <1>7, <1>8 DEF tupleCells, length

\* What UemuFdtGetReg returns: the two numbers of the index, which make a range
\* that is not empty and does not wrap.
LEMMA RegRange ==
  ASSUME NEW node, IsNode(node), NEW index \in Nat,
         UemuFdtGetReg(node, index).status = "SUCCESS"
  PROVE  LET reg        == UemuFdtGetReg(node, index)
             tupleCells == node.addressCells + node.sizeCells
             first      == index * tupleCells
         IN  /\ reg.base \in Nat /\ reg.size \in Nat \ {0}
             /\ reg.base + reg.size <= MAX_UINT64
             /\ reg.base = Number(SubSeq(node.reg, first + 1, first + node.addressCells))
             /\ reg.size = Number(SubSeq(node.reg, first + node.addressCells + 1,
                                         first + tupleCells))
             /\ Number(SubSeq(node.reg, first + 1, first + node.addressCells)) <= MAX_UINT64
             /\ Number(SubSeq(node.reg, first + node.addressCells + 1, first + tupleCells))
                  <= MAX_UINT64
<1> DEFINE tupleCells == node.addressCells + node.sizeCells
           first == index * tupleCells
           middle == first + node.addressCells
           reg == UemuFdtGetReg(node, index)
           addressCells == SubSeq(node.reg, first + 1, middle)
           sizeCells == SubSeq(node.reg, middle + 1, first + tupleCells)
           address == DecodeCells(addressCells)
           size == DecodeCells(sizeCells)
<1>1. /\ node.reg \in Seq(CellValue)
      /\ node.addressCells \in 1 .. 4 /\ node.sizeCells \in 1 .. 4
      /\ first + tupleCells <= Len(node.reg)
      /\ RegTuple(address, size) = reg
  BY RegHasIndex
<1>2. first \in Nat /\ middle \in Nat /\ middle <= Len(node.reg) /\ first + tupleCells \in Nat
  <2>1. tupleCells \in Nat
    BY <1>1
  <2>2. first \in Nat
    BY <2>1
  <2>3. /\ node.addressCells \in 1 .. 4 /\ node.sizeCells \in 1 .. 4
        /\ Len(node.reg) \in Nat /\ tupleCells = node.addressCells + node.sizeCells
        /\ first + tupleCells <= Len(node.reg)
    BY <1>1
  <2> HIDE DEF first, tupleCells, reg, addressCells, sizeCells, address, size
  <2>4. node.addressCells \in Nat /\ node.addressCells <= tupleCells
    BY <2>3
  <2>5. middle = first + node.addressCells
    OBVIOUS
  <2> HIDE DEF middle
  <2>6. middle \in Nat /\ middle <= first + tupleCells /\ first + tupleCells \in Nat
    BY <2>1, <2>2, <2>4, <2>5
  <2>7. QED
    BY <2>2, <2>3, <2>6
<1>3. addressCells \in Seq(CellValue) /\ sizeCells \in Seq(CellValue)
  <2> HIDE DEF first, middle, tupleCells
  <2>1. QED
    BY <1>1, <1>2, CellsBetween
<1> HIDE DEF reg, address, size
<1>4. /\ address.status = "SUCCESS" /\ size.status = "SUCCESS"
      /\ ~(size.value = 0 \/ address.value > MAX_UINT64 - size.value)
      /\ reg.base = address.value /\ reg.size = size.value
  <2>1. reg.status = "SUCCESS"
    BY DEF reg
  <2>2. QED
    BY <1>1, <2>1 DEF RegTuple, Failure
<1>5. /\ Number(addressCells) \in 0 .. MAX_UINT64 /\ address.value = Number(addressCells)
      /\ Number(sizeCells) \in 0 .. MAX_UINT64 /\ size.value = Number(sizeCells)
  <2> HIDE DEF addressCells, sizeCells
  <2>1. QED
    BY <1>3, <1>4, DecodedNumber DEF address, size
<1> HIDE DEF addressCells, sizeCells
<1>6. /\ reg.base \in Nat /\ reg.size \in Nat \ {0} /\ reg.base + reg.size <= MAX_UINT64
      /\ reg.base = Number(addressCells) /\ reg.size = Number(sizeCells)
      /\ Number(addressCells) <= MAX_UINT64 /\ Number(sizeCells) <= MAX_UINT64
  BY <1>4, <1>5, FdtConstants
<1>7. QED
  BY <1>6 DEF reg, addressCells, sizeCells

-----------------------------------------------------------------------------
\* A quotient is known by its remainder.
LEMMA QuotientUnique ==
  ASSUME NEW b \in Nat \ {0}, NEW q \in Nat, NEW r \in 0 .. (b - 1)
  PROVE  (b * q + r) \div b = q
<1> DEFINE a == b * q + r
           d == a \div b
<1>1. a \in Nat /\ b * q \in Nat
  OBVIOUS
<1>2. d \in Nat /\ a = b * d + (a % b) /\ a % b \in 0 .. (b - 1)
  <2> HIDE DEF a
  <2>1. QED
    BY <1>1
<1>3. CASE d < q
  <2>1. b * (d + 1) <= b * q
    <3>1. (d + 1) * b <= q * b
      BY <1>2, <1>3, ProductMonotone
    <3>2. QED
      BY <1>2, <3>1
  <2>2. b * (d + 1) = b * d + b /\ b * d \in Nat
    BY <1>2
  <2> HIDE DEF d
  <2>3. QED
    BY <1>1, <1>2, <2>1, <2>2
<1>4. CASE d > q
  <2>1. b * (q + 1) <= b * d
    <3>1. (q + 1) * b <= d * b
      BY <1>2, <1>4, ProductMonotone
    <3>2. QED
      BY <1>2, <3>1
  <2>2. b * (q + 1) = b * q + b /\ b * d \in Nat
    BY <1>2
  <2> HIDE DEF d
  <2>3. QED
    BY <1>1, <1>2, <2>1, <2>2
<1>5. QED
  BY <1>2, <1>3, <1>4

\* A page boundary below an address, and one at or after it, by page numbers.
LEMMA PageNumbers ==
  ASSUME NEW a \in Nat
  PROVE  /\ a \div PAGE \in Nat
         /\ PageBase(a) = (a \div PAGE) * PAGE
         /\ (a \div PAGE) * PAGE \in Nat
         /\ (a \div PAGE) * PAGE <= a /\ a < (a \div PAGE) * PAGE + PAGE
         /\ PageEnd(a + 1) = (a \div PAGE) * PAGE + PAGE
<1> DEFINE q == a \div PAGE
           r == a % PAGE
<1>1. q \in Nat /\ r \in 0 .. (PAGE - 1) /\ a = PAGE * q + r
  BY FdtConstants
<1>2. PageBase(a) = a - r
  BY DEF PageBase
<1> HIDE DEF q, r
<1>3. q * PAGE = PAGE * q /\ PAGE * q \in Nat
  BY <1>1, FdtConstants
<1>4. PageEnd(a + 1) = q * PAGE + PAGE
  <2> DEFINE b == (a + 1) + (PAGE - 1)
  <2>1. b = PAGE * (q + 1) + r /\ PAGE * (q + 1) = PAGE * q + PAGE
    BY <1>1, <1>3, FdtConstants
  <2>2. b \div PAGE = q + 1
    BY <1>1, <2>1, QuotientUnique, FdtConstants
  <2>3. b \in Nat
    BY FdtConstants
  <2> HIDE DEF b
  <2>4. b = PAGE * (b \div PAGE) + (b % PAGE)
    BY <2>3, FdtConstants
  <2>5. b % PAGE = r
    BY <1>1, <1>3, <2>1, <2>2, <2>3, <2>4, FdtConstants
  <2>6. PageEnd(a + 1) = b - (b % PAGE)
    BY DEF PageEnd, PageBase, b
  <2>7. QED
    BY <1>1, <1>3, <2>1, <2>5, <2>6, FdtConstants
<1>5. QED
  BY <1>1, <1>2, <1>3, <1>4, FdtConstants DEF q

\* The pages of a range, and when UemuFdtAlignRange returns them: unless they end
\* the address space.
LEMMA AlignedPages ==
  ASSUME NEW base \in Nat, NEW size \in Nat \ {0}, base + size <= MAX_UINT64
  PROVE  LET pages == UemuFdtAlignRange(base, size)
             first == base \div PAGE
             last  == (base + size - 1) \div PAGE
         IN  /\ first \in Nat /\ last \in Nat /\ first <= last
             /\ first * PAGE \in Nat /\ last * PAGE \in Nat /\ first * PAGE <= last * PAGE
             /\ pages.status = "SUCCESS"
                  <=> MAX_UINT64 \notin first * PAGE .. (last * PAGE + PAGE - 1)
             /\ pages.status = "SUCCESS" =>
                  /\ pages.base = first * PAGE
                  /\ pages.size \in Nat \ {0}
                  /\ pages.base + pages.size = last * PAGE + PAGE
<1> DEFINE end == base + size - 1
           first == base \div PAGE
           last == end \div PAGE
           pages == UemuFdtAlignRange(base, size)
<1>1. end \in Nat /\ end + 1 = base + size /\ base <= end
  OBVIOUS
<1>2. /\ first \in Nat /\ PageBase(base) = first * PAGE /\ first * PAGE \in Nat
      /\ first * PAGE <= base /\ base < first * PAGE + PAGE
  BY PageNumbers
<1>3. /\ last \in Nat /\ last * PAGE \in Nat
      /\ last * PAGE <= end /\ end < last * PAGE + PAGE
      /\ PageEnd(base + size) = last * PAGE + PAGE
  <2> HIDE DEF end
  <2>1. QED
    BY <1>1, PageNumbers
<1> HIDE DEF end, first, last
<1>4. first <= last
  <2> SUFFICES ASSUME last < first PROVE FALSE
    BY <1>2, <1>3
  <2>1. (last + 1) * PAGE <= first * PAGE
    BY <1>2, <1>3, FdtConstants, ProductMonotone
  <2>2. (last + 1) * PAGE = last * PAGE + PAGE
    BY <1>3, FdtConstants
  <2>3. QED
    BY <1>1, <1>2, <1>3, <2>1, <2>2, FdtConstants
<1>5. first * PAGE <= last * PAGE
  BY <1>2, <1>3, <1>4, FdtConstants, ProductMonotone
<1>6. pages.status = "SUCCESS" <=> ~(base + size > MAX_UINT64 - (PAGE - 1))
  BY FdtConstants DEF UemuFdtAlignRange, Failure
<1>7. PICK k \in Nat : MAX_UINT64 + 1 = k * PAGE
  <2> DEFINE m == MAX_UINT64 + 1
             k == m \div PAGE
  <2>1. m \in Nat /\ m % PAGE = 0
    BY FdtAssumption, FdtConstants
  <2> HIDE DEF m
  <2>2. k \in Nat /\ m = PAGE * k + (m % PAGE)
    BY <2>1, FdtConstants
  <2> HIDE DEF k
  <2>3. PAGE * k = k * PAGE /\ PAGE * k \in Nat
    BY <2>2, FdtConstants
  <2>4. m = k * PAGE
    BY <2>1, <2>2, <2>3
  <2>5. QED
    BY <2>2, <2>4 DEF m
<1>8. last < k
  <2> SUFFICES ASSUME k <= last PROVE FALSE
    BY <1>3
  <2>1. k * PAGE <= last * PAGE
    BY <1>3, FdtConstants, ProductMonotone
  <2>2. QED
    BY <1>1, <1>3, <1>7, <2>1, FdtConstants
<1>9. last * PAGE + PAGE <= k * PAGE
  <2>1. (last + 1) * PAGE <= k * PAGE
    BY <1>3, <1>8, FdtConstants, ProductMonotone
  <2>2. (last + 1) * PAGE = last * PAGE + PAGE
    BY <1>3, FdtConstants
  <2>3. QED
    BY <2>1, <2>2
<1>10. last * PAGE + PAGE < k * PAGE => last * PAGE + PAGE <= k * PAGE - PAGE
  <2> SUFFICES ASSUME last * PAGE + PAGE < k * PAGE
               PROVE  last * PAGE + PAGE <= k * PAGE - PAGE
    OBVIOUS
  <2>1. last + 1 # k
    <3>1. (last + 1) * PAGE = last * PAGE + PAGE
      BY <1>3, FdtConstants
    <3>2. QED
      BY <1>3, <3>1, FdtConstants
  <2>2. (last + 2) * PAGE <= k * PAGE
    BY <1>3, <1>8, <2>1, FdtConstants, ProductMonotone
  <2>3. (last + 2) * PAGE = last * PAGE + PAGE + PAGE /\ k * PAGE \in Nat
    BY <1>3, FdtConstants
  <2>4. QED
    BY <1>3, <2>2, <2>3, FdtConstants
<1>11. pages.status = "SUCCESS" <=> MAX_UINT64 \notin first * PAGE .. (last * PAGE + PAGE - 1)
  BY <1>1, <1>2, <1>3, <1>5, <1>6, <1>7, <1>9, <1>10, FdtConstants
<1>12. pages.status = "SUCCESS" =>
         /\ pages.base = PageBase(base)
         /\ pages.size = PageEnd(base + size) - PageBase(base)
  BY FdtConstants DEF UemuFdtAlignRange, AlignedSize, Failure
<1> HIDE DEF pages
<1>13. pages.status = "SUCCESS" =>
         /\ pages.base = first * PAGE
         /\ pages.size \in Nat \ {0}
         /\ pages.base + pages.size = last * PAGE + PAGE
  <2> DEFINE low == first * PAGE
             high == last * PAGE
  <2>1. /\ low \in Nat /\ high \in Nat /\ low <= high
        /\ PageBase(base) = low /\ PageEnd(base + size) = high + PAGE
    BY <1>2, <1>3, <1>5
  <2> HIDE DEF low, high
  <2>2. pages.status = "SUCCESS" => pages.base = low /\ pages.size = (high + PAGE) - low
    BY <1>12, <2>1
  <2>3. QED
    BY <2>1, <2>2, FdtConstants DEF low, high
<1>14. QED
  BY <1>2, <1>3, <1>4, <1>5, <1>11, <1>13 DEF first, last, end, pages

=============================================================================
