----------------------------- MODULE MCOperators -----------------------------
(***************************************************************************)
(* Operators on bounded inputs.                                            *)
(***************************************************************************)
EXTENDS Operators

CONSTANTS
  CellValues,   \* cells that occur in the trees
  MaxArray      \* length of the arrays to sort

Statuses == {Absent, <<>>, <<"okay">>, <<"okay", NUL>>, <<"ok", NUL>>,
             <<"disabled", NUL>>, <<"okay", NUL, NUL>>}

Node(names, status, reg, addressCells, sizeCells) ==
  [compatible |-> names, status |-> status, reg |-> reg,
   addressCells |-> addressCells, sizeCells |-> sizeCells]

\* Trees of two nodes that differ in names and status.
StatusTrees ==
  {<<Node(n1, s1, <<1, 2>>, 1, 1), Node({"device"}, s2, <<1, 3>>, 1, 1)>> :
     n1 \in SUBSET {"device"}, s1 \in Statuses, s2 \in Statuses}

\* One node with every reg property of at most five cells.
RegTrees ==
  {<<Node({"device"}, Absent, reg, a, s)>> :
     a \in 0 .. 3, s \in 1 .. 2, reg \in {Absent} \cup SeqOf(CellValues, 5)}

Ends == {"NOTFOUND", "BADSTRUCTURE"}

DiscoverInputs ==
  [kind : {"discover"}, tree : StatusTrees, end : Ends, minSize : {1}]
  \cup [kind : {"discover"}, tree : RegTrees, end : {"NOTFOUND"}, minSize : {1, 3}]

\* A frame buffer of any width, height and stride, in ranges that are too small,
\* large enough, or too close to the end of the address space to be rounded.
Display(reg, width, height, stride, format) ==
  Node({"simple-framebuffer"}, Absent, reg, 1, 2)
    @@ [width |-> width, height |-> height, stride |-> stride, format |-> format]

U32s == {<<v>> : v \in 0 .. (CELL - 1)}

DisplayInputs ==
  [kind : {"display"}, end : {"NOTFOUND"},
   tree : {<<Display(reg, w, h, s, Format)>> :
             reg \in {<<6, 0, 15>>, <<6, 3, 1>>, <<6, 15, 8>>}, w, h, s \in U32s}
          \cup {<<Display(<<6, 3, 1>>, w, h, <<8>>, f)>> :
                  w \in {Absent, <<2>>, <<2, 2>>}, h \in {<<>>, <<2>>},
                  f \in {Absent, Format, <<"x8r8g8b8">>, <<"r5g6b5", NUL>>}}]

MemoryNodes ==
  {Node({}, Absent, reg, 1, 1) : reg \in {<<4, 5>>, <<6, 0>>, <<0, 15, 15, 9>>}}
  \cup {Node({}, Absent, reg, 2, 2) : reg \in {<<1, 1, 0, 6>>, <<2, 0, 5, 2>>}}

Templates ==
  [processor |-> [CoreCount |-> 1, MaxSpeed |-> 2],
   device    |-> [Size |-> 2, ExtendedSize |-> 0]]

SmbiosInputs ==
  [kind : {"smbios"}, garbage : {0, 9}, fails : SUBSET {2, 3, 16, 17, 19},
   nodes : SeqOf(MemoryNodes, 2), templates : {Templates}, count : {0, 1, BYTE},
   timeBase : {0, 3}, deltaTime : {1, 2}, deltaCycle : {0, 1, 5, 40, 90}]

SortInputs ==
  [kind : {"sort"}, array : UNION {[0 .. (n - 1) -> 0 .. 3] : n \in 1 .. MaxArray}]

MCCalls == DiscoverInputs \cup DisplayInputs \cup SmbiosInputs \cup SortInputs

=============================================================================
